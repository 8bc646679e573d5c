------------------------ MODULE JobThreadGraphProofs ------------------------
(***************************************************************************)
(* JobThreadGraph for any nodes, edges (repeated ones included) and number *)
(* of runs: a task runs after its prerequisites have succeeded, and once,  *)
(* and the future of a run tells the truth, for which hasCycleLocked() is  *)
(* shown to find no cycle in a graph without one.                          *)
(* The client waits for the closures of a failed run before it touches the *)
(* graph again (RunWhenQuiet); without that the properties fail, since     *)
(* depsLeft and m_failed are shared by the runs                            *)
(* (MCJobThreadGraphStale.cfg).                                            *)
(***************************************************************************)
EXTENDS JobThreadGraph, FiniteSetTheorems, WellFoundedInduction, TLAPS

Types ==
    /\ nodes \subseteq Nodes /\ IsFiniteSet(edges)
    /\ \A e \in edges : From(e) \in nodes /\ To(e) \in nodes
    /\ depsLeft \in [Nodes -> Int]
    /\ client \in {"free", "plan", "roots"} /\ run \in 0..MaxRuns /\ (client # "free" => run \in Runs)
    /\ pending \in [Jobs -> Nat] /\ pc \in [Jobs -> PC] /\ ready \in [Jobs -> SUBSET Nodes]
    /\ ran \in [Jobs -> Nat] /\ succeeded \in [Jobs -> BOOLEAN]
    /\ DOMAIN plan = Runs

(* A job of which there is no closure, and one that nothing has touched.     *)
Gone(j)  == pending[j] = 0 /\ pc[j] = "idle" /\ ready[j] = {}
Fresh(j) == Gone(j) /\ ran[j] = 0 /\ ~succeeded[j]

(* Closures belong to the current run, and there are none before its roots   *)
(* are submitted.                                                            *)
OneRunAtATime ==
    \A j \in Jobs :
        /\ j[1] # run => Gone(j)
        /\ j[1] > run => Fresh(j)
        /\ client # "free" /\ j[1] = run => Fresh(j)

(* The current run is going on: its plan is made and it has closures, or     *)
(* will have them at once.                                                   *)
Live == client = "roots" \/ ~Quiet

(* While it is, the graph is the one it found.                               *)
GraphKept == Live => run \in Runs /\ plan[run].edges = edges

(* How a task ended.                                                         *)
Ends ==
    \A j \in Jobs :
        /\ succeeded[j] => ran[j] > 0
        /\ pc[j] = "lower" => succeeded[j]
        /\ pc[j] = "finish" => succeeded[j] \/ m_failed
        /\ ready[j] # {} => pc[j] = "submit"

(* A node is submitted once: it waits to be submitted by one closure, or in  *)
(* the pool, or has been taken from there.                                   *)
Awaited(d) == \E i \in Jobs : d \in ready[i]
Tokens ==
    \A j \in Jobs : j[1] = run =>
        /\ pending[j] > 0 => pending[j] = 1 /\ pc[j] = "idle" /\ ran[j] = 0 /\ ~Awaited(j[2])
        /\ Awaited(j[2]) => pc[j] = "idle" /\ ran[j] = 0
        /\ pc[j] \in {"test", "run"} => ran[j] = 0
        /\ ran[j] <= 1
ReadyOnce == \A i, k \in Jobs : \A d \in Nodes : d \in ready[i] /\ d \in ready[k] => i = k

(* Only then has its counter reached zero ...                                *)
Submitted(j) == pending[j] > 0 \/ pc[j] # "idle" \/ ran[j] > 0 \/ Awaited(j[2])
ZeroWhenSubmitted ==
    Live => \A j \in Jobs : j[1] = run /\ Submitted(j) => j[2] \in nodes /\ depsLeft[j[2]] <= 0

(* ... which is at least the number of edges whose source has not reported.  *)
(* (It is more after a failure, when sources end without reporting.)         *)
Unreported(n) == {e \in Into(n) : ~Reported(<<run, From(e)>>)}
CountersHigh == Live => \A n \in nodes : depsLeft[n] >= Cardinality(Unreported(n))

Earlier == \A j \in Jobs : ran[j] <= 1

GraphInv ==
    /\ Types /\ OneRunAtATime /\ GraphKept /\ Ends /\ Tokens /\ ReadyOnce /\ Earlier
    /\ ZeroWhenSubmitted /\ CountersHigh

-----------------------------------------------------------------------------
LEMMA JobIs ==
    /\ \A j \in Jobs : j = <<j[1], j[2]>> /\ j[1] \in Runs /\ j[2] \in Nodes
    /\ \A r \in Runs, n \in Nodes : <<r, n>> \in Jobs /\ <<r, n>>[1] = r /\ <<r, n>>[2] = n
BY DEF Jobs

LEMMA Constants == MaxRuns \in Nat /\ Runs \subseteq Nat /\ 0 \notin Runs
BY GraphAssumption DEF GraphAssumption, Runs

(* Sets of edges are finite, and have their sizes.                           *)
LEMMA Sizes ==
    ASSUME IsFiniteSet(edges)
    PROVE  \A S \in SUBSET edges : IsFiniteSet(S) /\ Cardinality(S) \in Nat
BY FS_Subset, FS_CardinalityType

(* What the client does to the graph.                                        *)
GraphStep == (\E n \in Nodes : AddNode(n) \/ \E m \in Nodes : AddEdge(m, n)) \/ Reset \/ Clear

LEMMA GraphTypes ==
    ASSUME Types, GraphStep
    PROVE  Types'
<1> USE DEF Types, graphVars, runVars, jobVars, taskVars, Frame
<1>1. ASSUME NEW n \in Nodes, AddNode(n) PROVE Types'
  BY <1>1 DEF AddNode
<1>2. ASSUME NEW m \in Nodes, NEW n \in Nodes, AddEdge(m, n) PROVE Types'
  <2>1. PICK k : edges' = edges \cup {<<m, n, k>>} /\ {m, n} \subseteq nodes
    BY <1>2 DEF AddEdge
  <2>2. IsFiniteSet(edges')
    BY <2>1, FS_AddElement
  <2>3. \A e \in edges' : From(e) \in nodes /\ To(e) \in nodes
    BY <2>1 DEF From, To
  <2>4. depsLeft' \in [Nodes -> Int]
    BY <1>2 DEF AddEdge
  <2> QED
    BY <1>2, <2>2, <2>3, <2>4 DEF AddEdge, From, To
<1>3. CASE Reset
  <2>1. \A n \in Nodes : Cardinality(Into(n)) \in Int
    BY Sizes DEF Into
  <2>2. depsLeft' \in [Nodes -> Int]
    BY <1>3, <2>1 DEF Reset, CountDeps
  <2> QED
    BY <1>3, <2>2 DEF Reset
<1>4. CASE Clear
  BY <1>4, FS_EmptySet DEF Clear
<1> QED
  BY <1>1, <1>2, <1>3, <1>4 DEF GraphStep

LEMMA RunTypes ==
    ASSUME Types, RunCall \/ Run
    PROVE  Types'
<1> USE DEF Types, graphVars, runVars, jobVars, taskVars
<1>1. CASE RunCall
  BY <1>1, Constants DEF RunCall, Runs
<1>2. CASE RunEmpty \/ RunCycle
  BY <1>2 DEF RunEmpty, RunCycle, Found
<1>3. CASE RunPlan
  <2>1. \A n \in Nodes : Cardinality(Into(n)) \in Int
    BY Sizes DEF Into
  <2>2. depsLeft' \in [Nodes -> Int]
    BY <1>3, <2>1 DEF RunPlan, CountDeps
  <2> QED
    BY <1>3, <2>2 DEF RunPlan, Found
<1>4. CASE RunRoots
  <2>1. pending' \in [Jobs -> Nat]
    BY <1>4 DEF RunRoots
  <2> QED
    BY <1>4, <2>1 DEF RunRoots
<1> QED
  BY <1>1, <1>2, <1>3, <1>4 DEF Run

LEMMA JobTypes ==
    ASSUME Types, NEW j \in Jobs, Job(j)
    PROVE  Types'
<1> USE DEF Types, graphVars, runVars, jobVars, taskVars, JobFrame, Go, At, PC
<1>1. CASE JobLookup(j)
  BY <1>1 DEF JobLookup
<1>2. CASE JobTest(j) \/ JobFail(j) \/ JobBreak(j) \/ JobFinish(j) \/ JobCount(j) \/ JobLast(j)
  BY <1>2 DEF JobTest, JobFail, JobBreak, JobFinish, JobCount, JobLast
<1>3. CASE JobRun(j)
  <2>1. succeeded' \in [Jobs -> BOOLEAN]
    BY <1>3 DEF JobRun
  <2>2. pc' \in [Jobs -> PC]
    BY <1>3 DEF JobRun
  <2>3. ran' \in [Jobs -> Nat]
    BY <1>3 DEF JobRun
  <2> QED
    BY <1>3, <2>1, <2>2, <2>3 DEF JobRun
<1>4. CASE JobLower(j)
  <2>1. \A d \in Nodes : Cardinality({e \in Into(d) : From(e) = j[2]}) \in Int
    BY Sizes DEF Into
  <2>2. depsLeft' \in [Nodes -> Int]
    BY <1>4, <2>1 DEF JobLower, Lowered
  <2> QED
    BY <1>4, <2>2 DEF JobLower
<1>5. CASE JobSubmit(j)
  <2>1. pending' \in [Jobs -> Nat]
    BY <1>5 DEF JobSubmit
  <2>2. ready' \in [Jobs -> SUBSET Nodes]
    BY <1>5 DEF JobSubmit
  <2> QED
    BY <1>5, <2>1, <2>2 DEF JobSubmit
<1> QED
  BY <1>1, <1>2, <1>3, <1>4, <1>5 DEF Job

-----------------------------------------------------------------------------
(* With no closure left nobody waits for anything.                           *)
LEMMA QuietMeans ==
    ASSUME GraphInv, Quiet
    PROVE  (\A j \in Jobs : Gone(j)) /\ \A d \in Nodes : ~Awaited(d)
BY DEF GraphInv, Ends, Quiet, Gone, Awaited

(* Before the roots of a run are submitted it is quiet.                      *)
LEMMA PlanIsQuiet ==
    ASSUME GraphInv, client # "free"
    PROVE  Quiet /\ \A j \in Jobs : j[1] = run => Fresh(j)
BY DEF GraphInv, OneRunAtATime, Quiet, Gone, Fresh

(* The client's steps up to the plan touch no closure.                       *)
LEMMA ClientKeeps ==
    ASSUME GraphInv, Types', Quiet, client' # "roots",
           UNCHANGED <<pending, pc, ready, ran, succeeded>>,
           \/ run' = run /\ (client' = "free" \/ client' = client)
           \/ run' = run + 1 /\ client = "free"
    PROVE  GraphInv'
<1> USE DEF GraphInv
<1>1. (\A j \in Jobs : Gone(j)) /\ \A d \in Nodes : ~Awaited(d)
  BY QuietMeans
<1>2. ~Live' /\ (\A j \in Jobs : Gone(j)') /\ \A d \in Nodes : ~Awaited(d)'
  BY <1>1 DEF Live, Quiet, Gone, Awaited
<1>3. \A j \in Jobs : Fresh(j)' <=> Fresh(j)
  BY DEF Fresh, Gone
<1>4. run \in Nat /\ \A j \in Jobs : j[1] \in Nat /\ j[2] \in Nodes
  BY JobIs, Constants DEF Types
<1>5. OneRunAtATime'
  BY <1>2, <1>3, <1>4 DEF OneRunAtATime
<1>6. Ends' /\ ReadyOnce' /\ Earlier'
  BY <1>1, <1>2 DEF Ends, ReadyOnce, Earlier, Gone
<1>7. Tokens'
  BY <1>2, <1>4, JobIs DEF Tokens, Earlier, Gone
<1>8. GraphKept' /\ ZeroWhenSubmitted' /\ CountersHigh'
  BY <1>2 DEF GraphKept, ZeroWhenSubmitted, CountersHigh
<1> QED
  BY <1>5, <1>6, <1>7, <1>8

LEMMA GraphStepKeeps ==
    ASSUME RunWhenQuiet, GraphInv, GraphStep
    PROVE  GraphInv'
<1>1. Quiet /\ client = "free" /\ Types'
  BY GraphTypes DEF GraphStep, AddNode, AddEdge, Reset, Clear, Between, GraphInv
<1>2. UNCHANGED <<pending, pc, ready, ran, succeeded, run, client>>
  BY DEF GraphStep, AddNode, AddEdge, Reset, Clear, Frame, runVars, jobVars, taskVars
<1> QED
  BY <1>1, <1>2, ClientKeeps

LEMMA RunCallKeeps ==
    ASSUME RunWhenQuiet, GraphInv, RunCall \/ RunEmpty \/ RunCycle
    PROVE  GraphInv'
<1>1. Types'
  BY RunTypes DEF GraphInv, Run
<1>2. Quiet
  BY PlanIsQuiet DEF RunCall, RunEmpty, RunCycle, Between
<1>3. UNCHANGED <<pending, pc, ready, ran, succeeded>> /\ client' # "roots"
  BY DEF RunCall, RunEmpty, RunCycle, Between, jobVars, taskVars
<1>4. \/ run' = run /\ client' = "free"
      \/ run' = run + 1 /\ client = "free"
  BY DEF RunCall, RunEmpty, RunCycle, Between
<1> QED
  BY <1>1, <1>2, <1>3, <1>4, ClientKeeps

(* The plan: the counters are those of the graph, and nothing has reported.  *)
LEMMA RunPlanKeeps ==
    ASSUME GraphInv, RunPlan
    PROVE  GraphInv'
<1> USE DEF GraphInv
<1>0. Types'
  BY RunTypes DEF Run
<1>1. Quiet /\ (\A j \in Jobs : j[1] = run => Fresh(j)) /\ \A d \in Nodes : ~Awaited(d)
  BY PlanIsQuiet, QuietMeans DEF RunPlan
<1>2. UNCHANGED <<pending, pc, ready, ran, succeeded, run, nodes, edges, m_failed>> /\ client = "plan" /\ client' = "roots"
  BY DEF RunPlan, graphVars, jobVars, taskVars
<1>3. /\ \A j \in Jobs : (Gone(j)' <=> Gone(j)) /\ (Fresh(j)' <=> Fresh(j)) /\ (Submitted(j)' <=> Submitted(j))
      /\ \A d \in Nodes : Awaited(d)' <=> Awaited(d)
  BY <1>2 DEF Gone, Fresh, Submitted, Awaited
<1>4. OneRunAtATime'
  BY <1>1, <1>2, <1>3 DEF OneRunAtATime
<1>5. Ends' /\ ReadyOnce' /\ Earlier'
  BY <1>2 DEF Ends, ReadyOnce, Earlier
<1>6. Tokens'
  BY <1>2, <1>3, JobIs DEF Tokens
<1>7. GraphKept'
  BY <1>2 DEF RunPlan, Found, GraphKept, Types
<1>8. ZeroWhenSubmitted'
  BY <1>1, <1>2, <1>3, JobIs DEF ZeroWhenSubmitted, Submitted, Fresh, Gone
<1>9. CountersHigh'
  <2> SUFFICES ASSUME NEW n \in nodes PROVE depsLeft'[n] >= Cardinality(Unreported(n)')
    BY <1>2 DEF CountersHigh
  <2>1. \A e \in edges : ~succeeded[<<run, From(e)>>]
    BY <1>1, <1>2, JobIs DEF Types, Fresh
  <2>2. Unreported(n)' = Into(n)
    BY <1>2, <2>1 DEF Unreported, Into, Reported
  <2>3. depsLeft'[n] = Cardinality(Into(n)) /\ Cardinality(Into(n)) \in Nat
    BY Sizes DEF RunPlan, CountDeps, Types, Into
  <2> QED
    BY <2>2, <2>3
<1> QED
  BY <1>0, <1>4, <1>5, <1>6, <1>7, <1>8, <1>9

(* The roots are submitted, each once.                                       *)
LEMMA RunRootsKeeps ==
    ASSUME GraphInv, RunRoots
    PROVE  GraphInv'
<1> USE DEF GraphInv
<1>0. Types'
  BY RunTypes DEF Run
<1>1. (\A j \in Jobs : j[1] = run => Fresh(j)) /\ \A d \in Nodes : ~Awaited(d)
  BY PlanIsQuiet, QuietMeans DEF RunRoots
<1>2. UNCHANGED <<pc, ready, ran, succeeded, run, nodes, edges, plan, depsLeft, m_failed>> /\ client = "roots" /\ client' = "free"
  BY DEF RunRoots, graphVars, taskVars
<1>3. \A j \in Jobs :
        \/ pending'[j] = pending[j]
        \/ j[1] = run /\ pending'[j] = 1 /\ j[2] \in nodes /\ depsLeft[j[2]] = 0
  <2> DEFINE roots == {n \in nodes : depsLeft[n] = 0}
  <2>1. \A j \in Jobs : pending'[j] = IF j[1] = run /\ j[2] \in roots THEN pending[j] + 1 ELSE pending[j]
    BY DEF RunRoots
  <2>2. \A j \in Jobs : j[1] = run => pending[j] = 0
    BY <1>1 DEF Fresh, Gone
  <2>3. \A n \in roots : n \in nodes /\ depsLeft[n] = 0
    OBVIOUS
  <2> HIDE DEF roots
  <2> QED
    BY <2>1, <2>2, <2>3
<1>4. \A d \in Nodes : ~Awaited(d)'
  BY <1>1, <1>2 DEF Awaited
<1>5. OneRunAtATime'
  BY <1>2, <1>3, JobIs, Constants DEF OneRunAtATime, Fresh, Gone, Types
<1>6. Ends' /\ ReadyOnce' /\ Earlier'
  BY <1>2 DEF Ends, ReadyOnce, Earlier
<1>7. Tokens'
  BY <1>1, <1>2, <1>3, <1>4, JobIs DEF Tokens, Fresh, Gone
<1>8. GraphKept'
  BY <1>2 DEF GraphKept, Live
<1>9. ZeroWhenSubmitted'
  BY <1>1, <1>2, <1>3, <1>4, JobIs DEF ZeroWhenSubmitted, Submitted, Fresh, Gone
<1>10. CountersHigh'
  BY <1>2 DEF CountersHigh, Live, Unreported, Into, Reported
<1> QED
  BY <1>0, <1>5, <1>6, <1>7, <1>8, <1>9, <1>10

-----------------------------------------------------------------------------
(* A closure that takes a step belongs to the current run, which is live.    *)
LEMMA JobIsCurrent ==
    ASSUME GraphInv, NEW j \in Jobs, Job(j)
    PROVE  /\ j[1] = run /\ client = "free" /\ Live /\ run \in Runs /\ plan[run].edges = edges
           /\ j = <<run, j[2]>> /\ j[2] \in nodes /\ depsLeft[j[2]] <= 0
<1> USE DEF GraphInv
<1>1. ~Gone(j) /\ ~Fresh(j) /\ ~Quiet /\ Submitted(j)
  BY DEF Job, JobLookup, JobTest, JobRun, JobFail, JobBreak, JobFinish, JobLower, JobSubmit, JobCount, JobLast,
         At, Gone, Fresh, Quiet, Submitted, Types
<1>2. j[1] = run /\ client = "free" /\ Live
  BY <1>1 DEF OneRunAtATime, Live
<1> QED
  BY <1>1, <1>2, JobIs DEF GraphKept, ZeroWhenSubmitted

(* What every closure's step leaves alone, and where it may go.              *)
LEMMA JobFrames ==
    ASSUME GraphInv, NEW j \in Jobs, Job(j)
    PROVE  /\ UNCHANGED <<run, client, nodes, edges, plan>> /\ (m_failed => m_failed')
           /\ \A i \in Jobs : i # j => pc'[i] = pc[i] /\ ready'[i] = ready[i] /\ ran'[i] = ran[i] /\ succeeded'[i] = succeeded[i]
<1> USE DEF GraphInv, Types, JobFrame, graphVars, runVars, taskVars, Go
<1>1. UNCHANGED <<run, client, nodes, edges, plan>> /\ (m_failed => m_failed')
  BY DEF Job, JobLookup, JobTest, JobRun, JobFail, JobBreak, JobFinish, JobLower, JobSubmit, JobCount, JobLast
<1>2. \A i \in Jobs : i # j => pc'[i] = pc[i]
  BY DEF Job, JobLookup, JobTest, JobRun, JobFail, JobBreak, JobFinish, JobLower, JobSubmit, JobCount, JobLast
<1>3. \A i \in Jobs : i # j => ready'[i] = ready[i]
  BY DEF Job, JobLookup, JobTest, JobRun, JobFail, JobBreak, JobFinish, JobLower, JobSubmit, JobCount, JobLast
<1>4. \A i \in Jobs : i # j => ran'[i] = ran[i] /\ succeeded'[i] = succeeded[i]
  BY DEF Job, JobLookup, JobTest, JobRun, JobFail, JobBreak, JobFinish, JobLower, JobSubmit, JobCount, JobLast
<1> QED
  BY <1>1, <1>2, <1>3, <1>4

(* The steps that only move the closure on.                                  *)
Moves(j) ==
    /\ UNCHANGED <<pending, ready, ran, succeeded, depsLeft>>
    /\ \/ pc[j] = "test" /\ pc'[j] = "run"
       \/ pc[j] = "test" /\ pc'[j] = "finish" /\ m_failed
       \/ pc[j] = "finish" /\ pc'[j] = "lower" /\ ~m_failed
       \/ pc[j] = "finish" /\ pc'[j] = "count"
       \/ pc[j] \in {"fail", "break", "count", "last"} /\ pc'[j] \in {"break", "count", "last", "idle"}

LEMMA JobMoves ==
    ASSUME GraphInv, NEW j \in Jobs,
           JobTest(j) \/ JobFail(j) \/ JobBreak(j) \/ JobFinish(j) \/ JobCount(j) \/ JobLast(j)
    PROVE  Moves(j)
<1> USE DEF GraphInv, Types, At, Go, taskVars
<1>1. UNCHANGED <<pending, ready, ran, succeeded, depsLeft>>
  BY DEF JobTest, JobFail, JobBreak, JobFinish, JobCount, JobLast
<1>2. CASE JobTest(j) \/ JobFinish(j)
  BY <1>1, <1>2 DEF JobTest, JobFinish, Moves
<1>3. CASE JobFail(j) \/ JobBreak(j) \/ JobCount(j) \/ JobLast(j)
  BY <1>1, <1>3 DEF JobFail, JobBreak, JobCount, JobLast, Moves
<1> QED
  BY <1>2, <1>3

(* A worker takes the closure; the node is there.                            *)
Taken(j) ==
    /\ UNCHANGED <<ready, ran, succeeded, depsLeft>>
    /\ pending[j] > 0 /\ pc[j] = "idle" /\ pc'[j] = "test" /\ pending' = [pending EXCEPT ![j] = @ - 1]

LEMMA JobTaken ==
    ASSUME GraphInv, NEW j \in Jobs, JobLookup(j)
    PROVE  Taken(j)
BY JobIsCurrent DEF GraphInv, Types, JobLookup, At, Go, taskVars, Taken, Job

(* The task runs, and succeeds or throws.                                    *)
Ran(j) ==
    /\ UNCHANGED <<pending, ready, depsLeft>> /\ pc[j] = "run" /\ ran' = [ran EXCEPT ![j] = @ + 1]
    /\ \/ pc'[j] = "finish" /\ succeeded'[j]
       \/ pc'[j] = "fail" /\ succeeded'[j] = succeeded[j]

LEMMA JobRan ==
    ASSUME GraphInv, NEW j \in Jobs, JobRun(j)
    PROVE  Ran(j)
BY DEF GraphInv, Types, JobRun, At, Go, Ran

LEMMA JobKinds ==
    ASSUME GraphInv, NEW j \in Jobs, Job(j)
    PROVE  Moves(j) \/ Taken(j) \/ Ran(j) \/ JobLower(j) \/ JobSubmit(j)
BY JobMoves, JobTaken, JobRan DEF Job

LEMMA JobOneRun ==
    ASSUME GraphInv, NEW j \in Jobs, Job(j)
    PROVE  OneRunAtATime'
<1> USE DEF GraphInv, Types
<1>1. \A i \in Jobs : i[1] # run => pending'[i] = pending[i]
  <2>1. CASE JobSubmit(j)
    BY <2>1, JobIsCurrent DEF JobSubmit
  <2>2. CASE ~JobSubmit(j)
    BY <2>2, JobKinds, JobIsCurrent DEF Moves, Taken, Ran, JobLower
  <2> QED
    BY <2>1, <2>2
<1> QED
  BY <1>1, JobFrames, JobIsCurrent DEF OneRunAtATime, Gone, Fresh

LEMMA JobEnds ==
    ASSUME GraphInv, NEW j \in Jobs, Job(j)
    PROVE  Ends'
<1> USE DEF GraphInv, Types
<1> DEFINE Ok(i) == /\ succeeded[i] => ran[i] > 0
                    /\ pc[i] = "lower" => succeeded[i]
                    /\ pc[i] = "finish" => succeeded[i] \/ m_failed
                    /\ ready[i] # {} => pc[i] = "submit"
<1>1. \A i \in Jobs : Ok(i)
  BY DEF Ends
<1>2. \A i \in Jobs : i # j => Ok(i)'
  BY <1>1, JobFrames
<1>3. Ok(j)'
  <2>1. CASE Moves(j)
    BY <1>1, <2>1, JobFrames DEF Moves
  <2>2. CASE Taken(j)
    BY <1>1, <2>2 DEF Taken
  <2>3. CASE Ran(j)
    BY <1>1, <2>3 DEF Ran
  <2>4. CASE JobLower(j)
    BY <1>1, <2>4 DEF JobLower, At, Go, taskVars
  <2>5. CASE JobSubmit(j)
    BY <1>1, <2>5 DEF JobSubmit, At, Go, taskVars
  <2> QED
    BY <2>1, <2>2, <2>3, <2>4, <2>5, JobKinds
<1> QED
  BY <1>2, <1>3 DEF Ends

(* A dependent that a closure finds ready was not submitted before: its      *)
(* counter was above zero until now.                                         *)
LEMMA LowerFinds ==
    ASSUME GraphInv, NEW j \in Jobs, JobLower(j)
    PROVE  /\ UNCHANGED <<pending, ran, succeeded>> /\ pc[j] = "lower" /\ pc'[j] = "submit" /\ ready[j] = {}
           /\ \A i \in Jobs : i[1] = run /\ i[2] \in ready'[j] => ~Submitted(i)
           /\ \A d \in ready'[j] : d \in Nodes /\ ~Awaited(d) /\ depsLeft[d] > 0 /\ depsLeft'[d] <= 0
<1> USE DEF GraphInv, Types
<1>1. UNCHANGED <<pending, ran, succeeded>> /\ pc[j] = "lower" /\ pc'[j] = "submit" /\ ready[j] = {}
  BY DEF JobLower, At, Go, taskVars, Ends
<1>2. \A d \in ready'[j] : d \in Nodes /\ depsLeft[d] > 0 /\ depsLeft'[d] <= 0
  BY DEF JobLower
<1>3. Live /\ run \in Runs
  BY JobIsCurrent DEF Job
<1>4. \A i \in Jobs : i[1] = run /\ i[2] \in ready'[j] => ~Submitted(i)
  BY <1>2, <1>3 DEF ZeroWhenSubmitted
<1>5. ASSUME NEW d \in ready'[j] PROVE ~Awaited(d)
  <2>1. <<run, d>> \in Jobs /\ <<run, d>>[1] = run /\ <<run, d>>[2] = d
    BY <1>2, <1>3, JobIs
  <2>2. ~Submitted(<<run, d>>)
    BY <1>4, <2>1
  <2> QED
    BY <2>1, <2>2 DEF Submitted
<1> QED
  BY <1>1, <1>2, <1>4, <1>5

(* Submitting them puts each into the pool once.                             *)
LEMMA SubmitPuts ==
    ASSUME GraphInv, NEW j \in Jobs, JobSubmit(j)
    PROVE  /\ UNCHANGED <<ran, succeeded, depsLeft>> /\ pc[j] = "submit" /\ pc'[j] = "count" /\ ready'[j] = {}
           /\ \A i \in Jobs : i[1] = run /\ i[2] \in ready[j] => pending[i] = 0 /\ pending'[i] = 1
           /\ \A i \in Jobs : ~(i[1] = run /\ i[2] \in ready[j]) => pending'[i] = pending[i]
           /\ \A d \in ready[j] : ~Awaited(d)'
<1> USE DEF GraphInv, Types
<1>1. UNCHANGED <<ran, succeeded, depsLeft>> /\ pc[j] = "submit" /\ pc'[j] = "count" /\ ready'[j] = {}
  BY DEF JobSubmit, At, Go, taskVars
<1>2. j[1] = run
  BY JobIsCurrent DEF Job
<1>3. \A i \in Jobs : i[1] = run /\ i[2] \in ready[j] => pending[i] = 0
  BY DEF Tokens, Awaited
<1>4. \A i \in Jobs : pending'[i] = IF i[1] = run /\ i[2] \in ready[j] THEN pending[i] + 1 ELSE pending[i]
  BY <1>2 DEF JobSubmit
<1>5. \A d \in ready[j] : ~Awaited(d)'
  BY <1>1, JobFrames DEF ReadyOnce, Awaited, Job
<1> QED
  BY <1>1, <1>3, <1>4, <1>5

LEMMA JobTokens ==
    ASSUME GraphInv, NEW j \in Jobs, Job(j)
    PROVE  Tokens' /\ ReadyOnce' /\ Earlier'
<1> USE DEF GraphInv, Types
<1>0. run' = run /\ j[1] = run /\ j[2] \in Nodes
  BY JobFrames, JobIsCurrent, JobIs
<1>1. CASE Moves(j)
  <2>1. \A d \in Nodes : Awaited(d)' <=> Awaited(d)
    BY <1>1 DEF Moves, Awaited
  <2>2. pc[j] # "idle" /\ (pc'[j] \in {"test", "run"} => pc[j] = "test")
    BY <1>1 DEF Moves
  <2>3. Tokens'
    BY <1>0, <1>1, <2>1, <2>2, JobFrames, JobIs DEF Tokens, Moves
  <2> QED
    BY <1>1, <2>3 DEF Moves, ReadyOnce, Earlier
<1>2. CASE Taken(j)
  <2>1. \A d \in Nodes : Awaited(d)' <=> Awaited(d)
    BY <1>2 DEF Taken, Awaited
  <2>2. pending[j] = 1 /\ pending'[j] = 0 /\ ran[j] = 0 /\ ~Awaited(j[2])
    BY <1>0, <1>2 DEF Tokens, Taken
  <2>3. Tokens'
    BY <1>0, <1>2, <2>1, <2>2, JobFrames, JobIs DEF Tokens, Taken
  <2> QED
    BY <1>2, <2>3 DEF Taken, ReadyOnce, Earlier
<1>3. CASE Ran(j)
  <2>1. \A d \in Nodes : Awaited(d)' <=> Awaited(d)
    BY <1>3 DEF Ran, Awaited
  <2>2. pending[j] = 0 /\ ran[j] = 0 /\ ran'[j] = 1 /\ ~Awaited(j[2]) /\ pc'[j] \in {"finish", "fail"}
    BY <1>0, <1>3 DEF Tokens, Ran
  <2>3. Tokens'
    BY <1>0, <1>3, <2>1, <2>2, JobFrames, JobIs DEF Tokens, Ran
  <2> QED
    BY <1>3, <2>2, <2>3, JobFrames DEF Ran, ReadyOnce, Earlier
<1>4. CASE JobLower(j)
  <2>1. \A d \in Nodes : Awaited(d)' <=> Awaited(d) \/ d \in ready'[j]
    BY <1>4, LowerFinds, JobFrames DEF Awaited
  <2>2. Tokens'
    BY <1>0, <1>4, <2>1, LowerFinds, JobFrames, JobIs DEF Tokens, Submitted
  <2>3. ReadyOnce'
    BY <1>4, LowerFinds, JobFrames DEF ReadyOnce, Awaited
  <2> QED
    BY <1>4, <2>2, <2>3, LowerFinds DEF Earlier
<1>5. CASE JobSubmit(j)
  <2>1. \A d \in Nodes : Awaited(d)' <=> Awaited(d) /\ d \notin ready[j]
    BY <1>5, SubmitPuts, JobFrames DEF Awaited
  <2>2. \A i \in Jobs : i[2] \in ready[j] => Awaited(i[2])
    BY DEF Awaited
  <2>3. Tokens'
    BY <1>0, <1>5, <2>1, <2>2, SubmitPuts, JobFrames, JobIs DEF Tokens
  <2>4. ReadyOnce'
    BY <1>5, SubmitPuts, JobFrames DEF ReadyOnce
  <2> QED
    BY <1>5, <2>3, <2>4, SubmitPuts DEF Earlier
<1> QED
  BY <1>1, <1>2, <1>3, <1>4, <1>5, JobKinds

LEMMA JobGraphKept ==
    ASSUME GraphInv, NEW j \in Jobs, Job(j)
    PROVE  GraphKept'
BY JobIsCurrent, JobFrames DEF GraphKept

(* Lowering takes from a node's counter the edges that come from the one     *)
(* that reports.                                                             *)
Reports(j, d) == {e \in Into(d) : From(e) = j[2]}

LEMMA LowerCounts ==
    ASSUME GraphInv, NEW j \in Jobs, JobLower(j), NEW d \in Nodes
    PROVE  /\ IsFiniteSet(Into(d)) /\ IsFiniteSet(Reports(j, d)) /\ Cardinality(Reports(j, d)) \in Nat
           /\ depsLeft'[d] = depsLeft[d] - Cardinality(Reports(j, d))
           /\ depsLeft'[d] <= depsLeft[d]
           /\ depsLeft'[d] # depsLeft[d] => d \in nodes
<1>1. IsFiniteSet(Into(d)) /\ IsFiniteSet(Reports(j, d)) /\ Cardinality(Reports(j, d)) \in Nat
  BY Sizes DEF GraphInv, Types, Into, Reports
<1>2. depsLeft'[d] = depsLeft[d] - Cardinality(Reports(j, d)) /\ depsLeft[d] \in Int
  BY DEF JobLower, Lowered, Reports, GraphInv, Types
<1>3. Reports(j, d) # {} => d \in nodes
  BY DEF Reports, Into, GraphInv, Types
<1>4. Reports(j, d) = {} => Cardinality(Reports(j, d)) = 0
  BY FS_EmptySet
<1> QED
  BY <1>1, <1>2, <1>3, <1>4

LEMMA JobZero ==
    ASSUME GraphInv, NEW j \in Jobs, Job(j)
    PROVE  ZeroWhenSubmitted'
<1> SUFFICES ASSUME NEW i \in Jobs, i[1] = run, Submitted(i)'
             PROVE  i[2] \in nodes /\ depsLeft'[i[2]] <= 0
  BY JobFrames DEF ZeroWhenSubmitted
<1>1. Submitted(i) => i[2] \in nodes /\ depsLeft[i[2]] <= 0
  BY JobIsCurrent DEF GraphInv, ZeroWhenSubmitted
<1>2. i[2] \in Nodes /\ depsLeft \in [Nodes -> Int]
  BY JobIs DEF GraphInv, Types
<1>3. Submitted(j)
  BY JobIsCurrent DEF Job, JobLookup, JobTest, JobRun, JobFail, JobBreak, JobFinish, JobLower, JobSubmit, JobCount, JobLast,
         At, Submitted
<1>4. CASE Moves(j) \/ Taken(j) \/ Ran(j)
  <2>1. depsLeft' = depsLeft /\ ready' = ready
    BY <1>4 DEF Moves, Taken, Ran
  <2>2. Submitted(i)
    <3>1. CASE i = j
      BY <1>3, <3>1
    <3>2. CASE i # j
      <4>1. pending'[i] = pending[i]
        BY <1>4, <3>2 DEF Moves, Taken, Ran, GraphInv, Types
      <4> QED
        BY <2>1, <3>2, <4>1, JobFrames DEF Submitted, Awaited
    <3> QED
      BY <3>1, <3>2
  <2> QED
    BY <1>1, <2>1, <2>2
<1>5. CASE JobLower(j)
  <2>1. Submitted(i) \/ i[2] \in ready'[j]
    <3>1. CASE i = j
      BY <1>3, <3>1
    <3>2. CASE i # j
      BY <1>5, <3>2, LowerFinds, JobFrames DEF Submitted, Awaited
    <3> QED
      BY <3>1, <3>2
  <2>2. CASE Submitted(i)
    BY <1>1, <1>2, <1>5, <2>2, LowerCounts
  <2>3. CASE i[2] \in ready'[j]
    <3>1. depsLeft[i[2]] > 0 /\ depsLeft'[i[2]] <= 0
      BY <1>5, <2>3, LowerFinds
    <3>2. depsLeft'[i[2]] # depsLeft[i[2]]
      BY <1>2, <3>1
    <3> QED
      BY <1>2, <1>5, <3>1, <3>2, LowerCounts
  <2> QED
    BY <2>1, <2>2, <2>3
<1>6. CASE JobSubmit(j)
  <2>1. depsLeft' = depsLeft
    BY <1>6, SubmitPuts
  <2>2. Submitted(i)
    <3>1. CASE i = j
      BY <1>3, <3>1
    <3>2. CASE i # j /\ i[2] \in ready[j]
      BY <3>2 DEF Submitted, Awaited
    <3>3. CASE i # j /\ i[2] \notin ready[j]
      BY <1>6, <3>3, SubmitPuts, JobFrames DEF Submitted, Awaited
    <3> QED
      BY <3>1, <3>2, <3>3
  <2> QED
    BY <1>1, <2>1, <2>2
<1> QED
  BY <1>4, <1>5, <1>6, JobKinds

(* A task that has reported stays so: its closure is past that.              *)
LEMMA JobReported ==
    ASSUME GraphInv, NEW j \in Jobs, Job(j), NEW i \in Jobs, Reported(i)
    PROVE  Reported(i)'
<1>1. CASE i # j
  BY <1>1, JobFrames DEF Reported
<1>2. CASE i = j
  <2>1. ran[j] > 0 /\ pc[j] \notin {"finish", "lower", "test", "run"} /\ ran[j] \in Nat
    BY <1>2, JobIsCurrent DEF Reported, GraphInv, Ends, Tokens, Types
  <2>2. CASE Moves(j)
    BY <1>2, <2>1, <2>2 DEF Reported, Moves
  <2>3. CASE Taken(j)
    BY <1>2, <2>1, <2>3 DEF Reported, Taken
  <2>4. CASE JobLower(j)
    BY <2>1, <2>4, LowerFinds
  <2>5. CASE JobSubmit(j)
    BY <1>2, <2>5, SubmitPuts DEF Reported
  <2> QED
    BY <2>1, <2>2, <2>3, <2>4, <2>5, JobKinds DEF Ran
<1> QED
  BY <1>1, <1>2

LEMMA JobCounters ==
    ASSUME GraphInv, NEW j \in Jobs, Job(j)
    PROVE  CountersHigh'
<1> SUFFICES ASSUME NEW n \in nodes PROVE depsLeft'[n] >= Cardinality(Unreported(n)')
  BY JobFrames DEF CountersHigh
<1>1. n \in Nodes /\ depsLeft \in [Nodes -> Int] /\ depsLeft' \in [Nodes -> Int]
  BY JobTypes DEF GraphInv, Types
<1>2. depsLeft[n] >= Cardinality(Unreported(n))
  BY JobIsCurrent DEF GraphInv, CountersHigh
<1>3. \A e \in Into(n) : <<run, From(e)>> \in Jobs
  BY JobIsCurrent, JobIs DEF Into, GraphInv, Types
<1>4. Into(n)' = Into(n) /\ run' = run
  BY JobFrames DEF Into
<1>5. Unreported(n)' \subseteq Unreported(n)
  BY <1>3, <1>4, JobReported DEF Unreported
<1>6. /\ IsFiniteSet(Unreported(n)) /\ Cardinality(Unreported(n)) \in Nat
      /\ Cardinality(Unreported(n)') \in Nat
      /\ Cardinality(Unreported(n)') <= Cardinality(Unreported(n))
  <2>1. Unreported(n) \subseteq edges /\ IsFiniteSet(edges)
    BY DEF Unreported, Into, GraphInv, Types
  <2> QED
    BY <1>5, <2>1, FS_Subset, FS_CardinalityType
<1>7. CASE ~JobLower(j)
  <2>1. depsLeft' = depsLeft
    BY <1>7, JobKinds, SubmitPuts DEF Moves, Taken, Ran
  <2> QED
    BY <1>1, <1>2, <1>6, <2>1
<1>8. CASE JobLower(j)
  <2>1. j = <<run, j[2]>> /\ pc[j] = "lower" /\ pc'[j] = "submit" /\ succeeded'[j]
    BY <1>8, JobIsCurrent, LowerFinds DEF GraphInv, Ends
  <2>2. \A e \in Reports(j, n) : <<run, From(e)>> = j
    BY <2>1 DEF Reports
  <2>3. Reports(j, n) \subseteq Unreported(n)
    BY <2>1, <2>2 DEF Reports, Unreported, Reported
  <2>4. Unreported(n)' \subseteq Unreported(n) \ Reports(j, n)
    BY <1>4, <1>5, <2>1, <2>2 DEF Unreported, Reported
  <2>5. Cardinality(Unreported(n) \ Reports(j, n)) = Cardinality(Unreported(n)) - Cardinality(Reports(j, n))
    <3>1. Unreported(n) \cap Reports(j, n) = Reports(j, n)
      BY <2>3
    <3> QED
      BY <1>6, <3>1, FS_Difference
  <2>6. Cardinality(Unreported(n)') <= Cardinality(Unreported(n) \ Reports(j, n))
    <3>1. IsFiniteSet(Unreported(n) \ Reports(j, n))
      BY <1>6, FS_Difference
    <3> QED
      BY <2>4, <3>1, FS_Subset
  <2>7. depsLeft'[n] = depsLeft[n] - Cardinality(Reports(j, n)) /\ Cardinality(Reports(j, n)) \in Nat
    BY <1>1, <1>8, LowerCounts
  <2> QED
    BY <1>1, <1>2, <1>6, <2>5, <2>6, <2>7
<1> QED
  BY <1>7, <1>8

LEMMA JobKeeps ==
    ASSUME GraphInv, NEW j \in Jobs, Job(j)
    PROVE  GraphInv'
<1>1. Types'
  BY JobTypes DEF GraphInv
<1>2. OneRunAtATime' /\ GraphKept' /\ Ends'
  BY JobOneRun, JobGraphKept, JobEnds
<1>3. Tokens' /\ ReadyOnce' /\ Earlier'
  BY JobTokens
<1>4. ZeroWhenSubmitted' /\ CountersHigh'
  BY JobZero, JobCounters
<1> QED
  BY <1>1, <1>2, <1>3, <1>4 DEF GraphInv

-----------------------------------------------------------------------------
LEMMA InitGraphInv ==
    ASSUME Init
    PROVE  GraphInv
<1> USE DEF Init
<1>1. Types
  BY Constants, FS_EmptySet DEF Types, PC
<1>2. ~Live /\ (\A j \in Jobs : Fresh(j) /\ Gone(j)) /\ \A d \in Nodes : ~Awaited(d)
  BY DEF Live, Quiet, Fresh, Gone, Awaited
<1>3. OneRunAtATime /\ GraphKept /\ ZeroWhenSubmitted /\ CountersHigh
  BY <1>2 DEF OneRunAtATime, GraphKept, ZeroWhenSubmitted, CountersHigh
<1>4. Ends /\ ReadyOnce /\ Earlier
  BY DEF Ends, ReadyOnce, Earlier
<1>5. Tokens
  BY <1>2, JobIs DEF Tokens
<1> QED
  BY <1>1, <1>3, <1>4, <1>5 DEF GraphInv

LEMMA StutterKeeps ==
    ASSUME GraphInv, UNCHANGED vars
    PROVE  GraphInv'
<1> USE DEF GraphInv, vars, graphVars, runVars, jobVars, taskVars
<1>1. Types' /\ Ends' /\ ReadyOnce' /\ Earlier'
  BY DEF Types, Ends, ReadyOnce, Earlier
<1>2. OneRunAtATime' /\ Tokens'
  BY DEF OneRunAtATime, Tokens, Gone, Fresh, Awaited
<1>3. GraphKept'
  BY DEF GraphKept, Live, Quiet
<1>4. ZeroWhenSubmitted'
  BY DEF ZeroWhenSubmitted, Live, Quiet, Submitted, Awaited
<1>5. CountersHigh'
  BY DEF CountersHigh, Live, Quiet, Unreported, Into, Reported
<1> QED
  BY <1>1, <1>2, <1>3, <1>4, <1>5

LEMMA GraphInvariant == RunWhenQuiet => (Spec => []GraphInv)
<1> SUFFICES ASSUME RunWhenQuiet PROVE Spec => []GraphInv
  OBVIOUS
<1>1. Init => GraphInv
  BY InitGraphInv
<1>2. GraphInv /\ [Next]_vars => GraphInv'
  <2> SUFFICES ASSUME GraphInv, [Next]_vars PROVE GraphInv'
    OBVIOUS
  <2>1. CASE GraphStep
    BY <2>1, GraphStepKeeps
  <2>2. CASE RunCall \/ RunEmpty \/ RunCycle
    BY <2>2, RunCallKeeps
  <2>3. CASE RunPlan
    BY <2>3, RunPlanKeeps
  <2>4. CASE RunRoots
    BY <2>4, RunRootsKeeps
  <2>5. ASSUME NEW j \in Jobs, Job(j) PROVE GraphInv'
    BY <2>5, JobKeeps
  <2>6. CASE UNCHANGED vars
    BY <2>6, StutterKeeps
  <2> QED
    BY <2>1, <2>2, <2>3, <2>4, <2>5, <2>6 DEF Next, Run, GraphStep
<1> QED
  BY <1>1, <1>2, PTL DEF Spec

(* A closure that is about to run its task finds that every task the run's   *)
(* graph puts before it has succeeded in that run: the node's counter was    *)
(* taken to zero by reports alone (onTaskFinished()), however the closures   *)
(* interleave, whatever throws, and with edges that were added twice.        *)
THEOREM PrerequisitesFirst == RunWhenQuiet => (Spec => []DependencyOrder)
<1>1. GraphInv => DependencyOrder
  <2> SUFFICES ASSUME GraphInv, NEW j \in Jobs, pc[j] = "run",
                      NEW e \in plan[j[1]].edges, To(e) = j[2]
               PROVE  succeeded[<<j[1], From(e)>>]
    BY DEF DependencyOrder
  <2>1. ~Gone(j) /\ ~Quiet /\ Submitted(j)
    BY DEF Gone, Quiet, Submitted
  <2>2. j[1] = run /\ Live
    BY <2>1 DEF GraphInv, OneRunAtATime, Live
  <2>3. e \in Into(j[2]) /\ j[2] \in nodes /\ depsLeft[j[2]] <= 0 /\ depsLeft[j[2]] \in Int
    BY <2>1, <2>2, JobIs DEF GraphInv, GraphKept, ZeroWhenSubmitted, Into, Types
  <2>4. IsFiniteSet(Unreported(j[2])) /\ Cardinality(Unreported(j[2])) \in Nat
    BY Sizes DEF GraphInv, Types, Unreported, Into
  <2>5. Cardinality(Unreported(j[2])) = 0
    BY <2>2, <2>3, <2>4 DEF GraphInv, CountersHigh
  <2>6. Unreported(j[2]) = {}
    BY <2>4, <2>5, FS_EmptySet
  <2> QED
    BY <2>2, <2>3, <2>6 DEF Unreported, Reported
<1> QED
  BY <1>1, GraphInvariant, PTL

(* No task runs twice in a run: of the closures that lower a node's counter  *)
(* one takes it to zero, and only that one submits the node.                 *)
THEOREM RunsOnce == RunWhenQuiet => (Spec => []OncePerRun)
<1>1. GraphInv => OncePerRun
  BY DEF GraphInv, Earlier, OncePerRun
<1> QED
  BY <1>1, GraphInvariant, PTL

-----------------------------------------------------------------------------
(* hasCycleLocked().  Its loops are folds over finite sets, and dfs() calls  *)
(* itself; both are defined step by step, which takes an induction.          *)

(* Induction over the naturals, for a set. *)
LEMMA Induction ==
    ASSUME NEW S \in SUBSET Nat, 0 \in S, \A k \in S : k + 1 \in S
    PROVE  S = Nat
<1> SUFFICES ASSUME Nat \ S # {} PROVE FALSE
  OBVIOUS
<1> DEFINE R == OpToRel(<, Nat)
<1>1. IsWellFoundedOn(R, Nat)
  BY NatLessThanWellFounded
<1>2. \A x, y \in Nat : <<x, y>> \in R <=> x < y
  BY DEF OpToRel
<1> HIDE DEF R
<1>3. PICK x \in Nat \ S : \A y \in Nat \ S : ~(<<y, x>> \in R)
  BY <1>1, WFMin
<1>4. x # 0 /\ x - 1 \in Nat /\ x - 1 < x
  BY <1>3
<1>5. x - 1 \in S
  BY <1>2, <1>3, <1>4
<1> QED
  BY <1>3, <1>4, <1>5

(* The element a fold takes out of a set first. *)
First(s) == CHOOSE x \in s : TRUE

LEMMA FirstIs ==
    ASSUME NEW E, IsFiniteSet(E), NEW s \in SUBSET E, s # {}
    PROVE  /\ First(s) \in s /\ First(s) \in E /\ s \ {First(s)} \in SUBSET E
           /\ IsFiniteSet(s) /\ Cardinality(s) \in Nat /\ Cardinality(s) > 0
           /\ Cardinality(s \ {First(s)}) = Cardinality(s) - 1
<1>1. First(s) \in s
  BY DEF First
<1>2. IsFiniteSet(s) /\ Cardinality(s) \in Nat
  BY FS_Subset, FS_CardinalityType
<1>3. Cardinality(s \ {First(s)}) = Cardinality(s) - 1
  BY <1>1, <1>2, FS_RemoveElement
<1>4. Cardinality(s) # 0
  BY <1>2, FS_EmptySet
<1> QED
  BY <1>1, <1>2, <1>3, <1>4

(* A loop over a finite set, its turns given as functions on Q, has a result *)
(* for every subset of the set.                                              *)
Turns(E, Q) == [E -> [Q -> Q]]
FoldsTo(g, E, Q, base, st) ==
    /\ g \in [SUBSET E -> Q]
    /\ \A s \in SUBSET E : g[s] = IF s = {} THEN base ELSE st[First(s)][g[s \ {First(s)}]]

LEMMA FoldRuns ==
    ASSUME NEW E, IsFiniteSet(E), NEW Q, NEW base \in Q, NEW st \in Turns(E, Q)
    PROVE  \E g : FoldsTo(g, E, Q, base, st)
<1> USE DEF Turns
<1> DEFINE Level(m) == {s \in SUBSET E : Cardinality(s) <= m}
           Good(m, g) == /\ g \in [Level(m) -> Q]
                         /\ \A s \in Level(m) : g[s] = IF s = {} THEN base ELSE st[First(s)][g[s \ {First(s)}]]
           S == {m \in Nat : \E g : Good(m, g)}
<1>0. \A s \in SUBSET E : IsFiniteSet(s) /\ Cardinality(s) \in Nat
  BY FS_Subset, FS_CardinalityType
<1>1. 0 \in S
  <2> DEFINE g == [s \in Level(0) |-> base]
  <2>1. \A s \in Level(0) : s = {}
    BY <1>0, FS_EmptySet
  <2>2. Good(0, g)
    BY <2>1
  <2> HIDE DEF g, Good
  <2> QED BY <2>2
<1>2. ASSUME NEW m \in S PROVE m + 1 \in S
  <2>0. m \in Nat
    OBVIOUS
  <2>1. PICK g : Good(m, g)
    <3> HIDE DEF Good
    <3> QED OBVIOUS
  <2> DEFINE h == [s \in Level(m + 1) |-> IF s \in Level(m) THEN g[s] ELSE st[First(s)][g[s \ {First(s)}]]]
  <2>2. ASSUME NEW s \in Level(m + 1), s # {}
        PROVE  s \ {First(s)} \in Level(m) /\ s \ {First(s)} \in Level(m + 1) /\ First(s) \in E
    BY <1>0, <2>0, <2>2, FirstIs
  <2>3. {} \in Level(m)
    <3>1. {} \in SUBSET E /\ Cardinality({}) = 0
      BY FS_EmptySet
    <3> QED BY <2>0, <3>1
  <2>4. Level(m) \subseteq Level(m + 1)
    BY <1>0, <2>0
  <2>5. h \in [Level(m + 1) -> Q]
    <3> SUFFICES ASSUME NEW s \in Level(m + 1)
                 PROVE (IF s \in Level(m) THEN g[s] ELSE st[First(s)][g[s \ {First(s)}]]) \in Q
      OBVIOUS
    <3>1. CASE s \in Level(m)
      <4> HIDE DEF Level
      <4> QED BY <2>1, <3>1
    <3>2. CASE s \notin Level(m)
      <4>1. s \ {First(s)} \in Level(m) /\ First(s) \in E
        BY <2>2, <2>3, <3>2
      <4> HIDE DEF Level
      <4>2. g[s \ {First(s)}] \in Q
        BY <2>1, <4>1
      <4> QED BY <3>2, <4>1, <4>2
    <3> QED BY <3>1, <3>2
  <2>6. ASSUME NEW s \in Level(m + 1)
        PROVE  h[s] = IF s = {} THEN base ELSE st[First(s)][h[s \ {First(s)}]]
    <3>1. CASE s = {}
      <4>1. s \in Level(m)
        BY <2>3, <3>1
      <4>2. h[s] = g[s] /\ g[s] = base
        <5> HIDE DEF Level
        <5> QED BY <2>1, <3>1, <4>1
      <4> QED BY <3>1, <4>2
    <3>2. CASE s # {}
      <4>1. s \ {First(s)} \in Level(m) /\ s \ {First(s)} \in Level(m + 1)
        BY <2>2, <3>2
      <4> HIDE DEF Level
      <4>2. h[s \ {First(s)}] = g[s \ {First(s)}]
        BY <4>1
      <4>3. h[s] = st[First(s)][g[s \ {First(s)}]]
        BY <2>1, <3>2
      <4> QED BY <3>2, <4>2, <4>3
    <3> QED BY <3>1, <3>2
  <2>7. Good(m + 1, h)
    <3> HIDE DEF h, Level
    <3> QED BY <2>5, <2>6
  <2> HIDE DEF h, Good
  <2> QED BY <2>0, <2>7
<1>3. S = Nat
  <2> HIDE DEF S
  <2>1. S \in SUBSET Nat
    BY DEF S
  <2> QED BY <1>1, <1>2, <2>1, Induction
<1>4. PICK g : Good(Cardinality(E), g)
  <2>1. Cardinality(E) \in Nat
    BY FS_CardinalityType
  <2> HIDE DEF Good
  <2> QED BY <1>3, <2>1
<1>5. Level(Cardinality(E)) = SUBSET E
  BY <1>0, FS_Subset
<1> HIDE DEF Level
<1> QED
  BY <1>4, <1>5 DEF FoldsTo

(* What holds before such a loop and is kept by each turn holds after it. *)
LEMMA FoldEnds ==
    ASSUME NEW E, IsFiniteSet(E), NEW Q, NEW h, h[{}] \in Q,
           \A s \in SUBSET E : s # {} /\ h[s \ {First(s)}] \in Q => h[s] \in Q
    PROVE  h[E] \in Q
<1> DEFINE S == {m \in Nat : \A s \in SUBSET E : Cardinality(s) = m => h[s] \in Q}
<1>0. \A s \in SUBSET E : IsFiniteSet(s) /\ Cardinality(s) \in Nat
  BY FS_Subset, FS_CardinalityType
<1>1. 0 \in S
  BY <1>0, FS_EmptySet
<1>2. ASSUME NEW m \in S PROVE m + 1 \in S
  <2> SUFFICES ASSUME NEW s \in SUBSET E, Cardinality(s) = m + 1 PROVE h[s] \in Q
    OBVIOUS
  <2>1. m \in Nat
    OBVIOUS
  <2>2. s # {}
    BY <2>1, FS_EmptySet
  <2>3. s \ {First(s)} \in SUBSET E /\ Cardinality(s \ {First(s)}) = m
    BY <2>1, <2>2, FirstIs
  <2> QED BY <2>2, <2>3
<1>3. S = Nat
  <2> HIDE DEF S
  <2>1. S \in SUBSET Nat
    BY DEF S
  <2> QED BY <1>1, <1>2, <2>1, Induction
<1> QED
  BY <1>0, <1>3


(* The loop over the entries of a node, and the one over the nodes. *)
LEMMA LooksStay ==
    ASSUME NEW down, NEW u, NEW c, IsFiniteSet(edges), NEW Q,
           [cycle |-> FALSE, c |-> [c EXCEPT ![u] = "visiting"]] \in Q,
           \A e \in edges, r \in Q : From(e) = u => Look(down, e, r) \in Q
    PROVE  Looked(down, u, c) \in Q
<1> DEFINE E == {e \in edges : From(e) = u}
           base == [cycle |-> FALSE, c |-> [c EXCEPT ![u] = "visiting"]]
<1>0. IsFiniteSet(E) /\ base \in Q /\ \A e \in E, r \in Q : Look(down, e, r) \in Q
  BY FS_Subset
<1> DEFINE st == [e \in E |-> [r \in Q |-> Look(down, e, r)]]
<1>1. st \in Turns(E, Q)
  BY <1>0 DEF Turns
<1>2. PICK g : FoldsTo(g, E, Q, base, st)
  <2> HIDE DEF st, E, base
  <2> QED BY <1>0, <1>1, FoldRuns
<1>3. ASSUME NEW s \in SUBSET E, s # {}
      PROVE  First(s) \in E /\ s \ {First(s)} \in SUBSET E
  <2> HIDE DEF E
  <2> QED BY <1>0, <1>3, FirstIs
<1>4. ASSUME NEW s \in SUBSET E
      PROVE  g[s] = IF s = {} THEN base ELSE Look(down, First(s), g[s \ {First(s)}])
  <2>1. CASE s # {}
    <3>1. First(s) \in E /\ g[s \ {First(s)}] \in Q
      BY <1>2, <1>3, <2>1 DEF FoldsTo
    <3>2. g[s] = st[First(s)][g[s \ {First(s)}]]
      BY <1>2, <2>1 DEF FoldsTo
    <3> HIDE DEF E
    <3> QED BY <2>1, <3>1, <3>2
  <2> QED BY <1>2, <2>1 DEF FoldsTo
<1> HIDE DEF E, base, st
<1> DEFINE Eq(f) == f = [s \in SUBSET E |-> IF s = {} THEN base ELSE Look(down, First(s), f[s \ {First(s)}])]
           h == CHOOSE h : Eq(h)
<1>5. Eq(g)
  BY <1>2, <1>4 DEF FoldsTo
<1>6. Eq(h)
  <2> HIDE DEF Eq
  <2> QED BY <1>5
<1>7. Looked(down, u, c) = h[E]
  BY DEF E, base, Looked, FoldSet, MapThenFoldSet, First
<1> HIDE DEF h, E, base
<1>8. h[{}] \in Q
  BY <1>0, <1>6
<1>9. ASSUME NEW s \in SUBSET E, s # {}, h[s \ {First(s)}] \in Q PROVE h[s] \in Q
  <2>1. h[s] = Look(down, First(s), h[s \ {First(s)}])
    BY <1>6, <1>9
  <2> QED BY <1>0, <1>3, <1>9, <2>1
<1> HIDE DEF Eq
<1>10. h[E] \in Q
  BY <1>0, <1>8, <1>9, FoldEnds
<1> QED
  BY <1>7, <1>10

LEMMA TriesStay ==
    ASSUME NEW E, IsFiniteSet(E), NEW Q, NEW base \in Q, \A u \in E, r \in Q : Try(u, r) \in Q
    PROVE  FoldSet(Try, base, E) \in Q
<1> DEFINE st == [e \in E |-> [r \in Q |-> Try(e, r)]]
<1>1. st \in Turns(E, Q)
  BY DEF Turns
<1>2. PICK g : FoldsTo(g, E, Q, base, st)
  <2> HIDE DEF st
  <2> QED BY <1>1, FoldRuns
<1>3. ASSUME NEW s \in SUBSET E, s # {}
      PROVE  First(s) \in E /\ s \ {First(s)} \in SUBSET E
  BY <1>3, FirstIs
<1>4. ASSUME NEW s \in SUBSET E
      PROVE  g[s] = IF s = {} THEN base ELSE Try(First(s), g[s \ {First(s)}])
  <2>1. CASE s # {}
    <3>1. First(s) \in E /\ g[s \ {First(s)}] \in Q
      BY <1>2, <1>3, <2>1 DEF FoldsTo
    <3> QED BY <1>2, <2>1, <3>1 DEF FoldsTo
  <2> QED BY <1>2, <2>1 DEF FoldsTo
<1> DEFINE Eq(f) == f = [s \in SUBSET E |-> IF s = {} THEN base ELSE Try(First(s), f[s \ {First(s)}])]
           h == CHOOSE h : Eq(h)
<1>5. Eq(g)
  BY <1>2, <1>4 DEF FoldsTo
<1>6. Eq(h)
  <2> HIDE DEF Eq
  <2> QED BY <1>5
<1>7. FoldSet(Try, base, E) = h[E]
  BY DEF FoldSet, MapThenFoldSet, First
<1> HIDE DEF h
<1>8. h[{}] \in Q
  BY <1>6
<1>9. ASSUME NEW s \in SUBSET E, s # {}, h[s \ {First(s)}] \in Q PROVE h[s] \in Q
  <2>1. h[s] = Try(First(s), h[s \ {First(s)}])
    BY <1>6, <1>9
  <2> QED BY <1>3, <1>9, <2>1
<1> HIDE DEF Eq
<1>10. h[E] \in Q
  BY <1>8, <1>9, FoldEnds
<1> QED
  BY <1>7, <1>10

(* What a search returns. *)
Result == [cycle : BOOLEAN, c : [Nodes -> Colour]]
Searches == [Nodes \X [Nodes -> Colour] -> Result]
GraphOK == IsFiniteSet(edges) /\ nodes \subseteq Nodes /\ \A e \in edges : From(e) \in nodes /\ To(e) \in nodes

LEMMA ResultIs ==
    ASSUME NEW r \in Result
    PROVE  /\ r.cycle \in BOOLEAN /\ r.c \in [Nodes -> Colour]
           /\ [r EXCEPT !.cycle = TRUE] \in Result
           /\ \A u \in Nodes : /\ [r EXCEPT !.c[u] = "done"] \in Result
                               /\ [r EXCEPT !.c[u] = "done"].cycle = r.cycle
                               /\ [r EXCEPT !.c[u] = "done"].c = [r.c EXCEPT ![u] = "done"]
BY DEF Result, Colour

LEMMA SearchAt ==
    ASSUME NEW down \in Searches, NEW u \in Nodes, NEW c \in [Nodes -> Colour]
    PROVE  down[<<u, c>>] \in Result
BY DEF Searches

(* The colours when the loop over u's entries begins. *)
LEMMA BaseIs ==
    ASSUME NEW u \in Nodes, NEW c \in [Nodes -> Colour]
    PROVE  /\ [cycle |-> FALSE, c |-> [c EXCEPT ![u] = "visiting"]] \in Result
           /\ [cycle |-> FALSE, c |-> c] \in Result
BY DEF Result, Colour

LEMMA LookedType ==
    ASSUME GraphOK, NEW down \in Searches, NEW u \in Nodes, NEW c \in [Nodes -> Colour]
    PROVE  Looked(down, u, c) \in Result
<1>1. ASSUME NEW e \in edges, NEW r \in Result PROVE Look(down, e, r) \in Result
  <2>1. To(e) \in Nodes /\ r.c \in [Nodes -> Colour]
    BY ResultIs DEF GraphOK
  <2>2. down[<<To(e), r.c>>] \in Result
    BY <2>1, SearchAt
  <2>3. [r EXCEPT !.cycle = TRUE] \in Result
    BY ResultIs
  <2> QED
    BY <2>2, <2>3 DEF Look
<1> QED
  BY <1>1, BaseIs, LooksStay DEF GraphOK


(* dfs() with no calls left, and with one more than down has.                *)
Start == [x \in Nodes \X [Nodes -> Colour] |-> [cycle |-> FALSE, c |-> x[2]]]
Deeper(down) ==
    [x \in Nodes \X [Nodes -> Colour] |-> [Looked(down, x[1], x[2]) EXCEPT !.c[x[1]] = "done"]]

LEMMA StartIs ==
    /\ Start \in Searches
    /\ \A u \in Nodes, c \in [Nodes -> Colour] : Start[<<u, c>>] = [cycle |-> FALSE, c |-> c]
<1>1. \A x \in Nodes \X [Nodes -> Colour] : [cycle |-> FALSE, c |-> x[2]] \in Result
  BY DEF Result
<1> QED
  BY <1>1 DEF Start, Searches

LEMMA DeeperIs ==
    ASSUME GraphOK, NEW down \in Searches
    PROVE  /\ Deeper(down) \in Searches
           /\ \A u \in Nodes, c \in [Nodes -> Colour] :
                 Deeper(down)[<<u, c>>] = [Looked(down, u, c) EXCEPT !.c[u] = "done"]
<1>1. ASSUME NEW x \in Nodes \X [Nodes -> Colour]
      PROVE  [Looked(down, x[1], x[2]) EXCEPT !.c[x[1]] = "done"] \in Result
  <2> DEFINE r == Looked(down, x[1], x[2])
  <2>1. x[1] \in Nodes /\ x[2] \in [Nodes -> Colour]
    OBVIOUS
  <2>2. r \in Result
    BY <2>1, LookedType
  <2> HIDE DEF r
  <2>3. [r EXCEPT !.c[x[1]] = "done"] \in Result
    BY <2>1, <2>2, ResultIs
  <2> QED
    BY <2>3 DEF r
<1>2. ASSUME NEW u \in Nodes, NEW c \in [Nodes -> Colour]
      PROVE  Deeper(down)[<<u, c>>] = [Looked(down, u, c) EXCEPT !.c[u] = "done"]
  <2>1. <<u, c>> \in Nodes \X [Nodes -> Colour] /\ <<u, c>>[1] = u /\ <<u, c>>[2] = c
    OBVIOUS
  <2> QED
    BY <2>1 DEF Deeper
<1>3. Deeper(down) \in Searches
  BY <1>1 DEF Deeper, Searches
<1> QED
  BY <1>2, <1>3

(* So many calls deep, dfs() has a result.                                   *)
Chain(f, n) == f \in [0..n -> Searches] /\ f[0] = Start /\ \A k \in 1..n : f[k] = Deeper(f[k - 1])

LEMMA ChainRuns ==
    ASSUME GraphOK
    PROVE  \A n \in Nat : \E f : Chain(f, n)
<1> DEFINE S == {n \in Nat : \E f : Chain(f, n)}
<1>1. 0 \in S
  <2> DEFINE f == [k \in 0..0 |-> Start]
  <2>1. f \in [0..0 -> Searches] /\ f[0] = Start /\ 1..0 = {}
    BY StartIs
  <2>2. Chain(f, 0)
    BY <2>1 DEF Chain
  <2> HIDE DEF f
  <2> QED BY <2>2
<1>2. ASSUME NEW n \in S PROVE n + 1 \in S
  <2>0. n \in Nat
    OBVIOUS
  <2>1. PICK f : Chain(f, n)
    OBVIOUS
  <2> DEFINE g == [k \in 0..(n + 1) |-> IF k <= n THEN f[k] ELSE Deeper(f[n])]
  <2>2. f[n] \in Searches
    BY <2>0, <2>1 DEF Chain
  <2>3. Deeper(f[n]) \in Searches
    BY <2>2, DeeperIs
  <2>4. g \in [0..(n + 1) -> Searches]
    BY <2>0, <2>1, <2>3 DEF Chain
  <2>5. g[0] = Start
    BY <2>0, <2>1 DEF Chain
  <2>6. ASSUME NEW k \in 1..(n + 1) PROVE g[k] = Deeper(g[k - 1])
    <3>1. k - 1 \in 0..(n + 1) /\ k - 1 <= n /\ k \in 0..(n + 1)
      BY <2>0
    <3>2. g[k - 1] = f[k - 1]
      BY <3>1
    <3>3. CASE k = n + 1
      <4>1. k - 1 = n /\ ~(k <= n)
        BY <2>0, <3>3
      <4> QED BY <3>1, <3>2, <4>1
    <3>4. CASE k # n + 1
      <4>1. k \in 1..n /\ k <= n
        BY <2>0, <3>4
      <4>2. f[k] = Deeper(f[k - 1])
        BY <2>1, <4>1 DEF Chain
      <4> QED BY <3>1, <3>2, <4>1, <4>2
    <3> QED BY <3>3, <3>4
  <2>7. Chain(g, n + 1)
    <3> HIDE DEF g
    <3> QED BY <2>4, <2>5, <2>6 DEF Chain
  <2> HIDE DEF g
  <2> QED BY <2>0, <2>7
<1>3. S = Nat
  <2> HIDE DEF S
  <2>1. S \in SUBSET Nat
    BY DEF S
  <2> QED BY <1>1, <1>2, <2>1, Induction
<1> QED
  BY <1>3

LEMMA DfsIs ==
    ASSUME GraphOK
    PROVE  Cardinality(Nodes) \in Nat /\ Chain(Dfs, Cardinality(Nodes))
<1> DEFINE N == Cardinality(Nodes)
           Eq(f) == f = [calls \in 0..N |->
                            [x \in Nodes \X [Nodes -> Colour] |->
                                IF calls = 0 THEN [cycle |-> FALSE, c |-> x[2]]
                                ELSE [Looked(f[calls - 1], x[1], x[2]) EXCEPT !.c[x[1]] = "done"]]]
           Eq2(f) == f = [calls \in 0..N |-> IF calls = 0 THEN Start ELSE Deeper(f[calls - 1])]
<1>1. N \in Nat
  BY FS_CardinalityType, GraphAssumption DEF GraphAssumption
<1>2. PICK f : Chain(f, N)
  BY <1>1, ChainRuns
<1>3. \A k \in 0..N : k # 0 => k \in 1..N /\ k - 1 \in 0..N
  BY <1>1
<1>4. ASSUME NEW g PROVE Eq(g) <=> Eq2(g)
  <2>1. ASSUME NEW k \in 0..N
        PROVE  [x \in Nodes \X [Nodes -> Colour] |->
                   IF k = 0 THEN [cycle |-> FALSE, c |-> x[2]]
                   ELSE [Looked(g[k - 1], x[1], x[2]) EXCEPT !.c[x[1]] = "done"]]
               = IF k = 0 THEN Start ELSE Deeper(g[k - 1])
    <3>1. CASE k = 0
      BY <3>1 DEF Start
    <3>2. CASE k # 0
      BY <3>2, Zenon DEF Deeper
    <3> QED BY <3>1, <3>2
  <2> HIDE DEF N
  <2> QED BY <2>1, Zenon
<1>5. Eq2(f)
  <2> HIDE DEF N
  <2>1. \A k \in 0..N : f[k] = IF k = 0 THEN Start ELSE Deeper(f[k - 1])
    BY <1>2, <1>3 DEF Chain
  <2> QED BY <1>2, <2>1 DEF Chain
<1>6. Eq(f)
  BY <1>4, <1>5
<1>7. Eq(Dfs)
  <2>1. Dfs = CHOOSE g : Eq(g)
    BY DEF Dfs
  <2> HIDE DEF Eq
  <2> QED BY <1>6, <2>1
<1>8. Eq2(Dfs)
  BY <1>4, <1>7
<1> HIDE DEF N, Eq
<1>9. Dfs[0] = Start /\ \A k \in 1..N : Dfs[k] = Deeper(Dfs[k - 1])
  BY <1>1, <1>8
<1> DEFINE S == {k \in Nat : k <= N => Dfs[k] \in Searches}
<1>10. 0 \in S
  BY <1>9, StartIs
<1>11. ASSUME NEW k \in S PROVE k + 1 \in S
  <2>1. k \in Nat
    OBVIOUS
  <2> SUFFICES ASSUME k + 1 <= N PROVE Dfs[k + 1] \in Searches
    BY <2>1
  <2>2. k + 1 \in 1..N /\ (k + 1) - 1 = k /\ k <= N
    BY <1>1, <2>1
  <2>3. Dfs[k] \in Searches
    BY <2>2
  <2>4. Dfs[k + 1] = Deeper(Dfs[k])
    BY <1>9, <2>2
  <2> QED BY <2>3, <2>4, DeeperIs
<1>12. S = Nat
  <2> HIDE DEF S
  <2>1. S \in SUBSET Nat
    BY DEF S
  <2> QED BY <1>10, <1>11, <2>1, Induction
<1>13. \A k \in 0..N : Dfs[k] \in Searches
  BY <1>1, <1>12
<1>14. Chain(Dfs, N)
  BY <1>8, <1>9, <1>13 DEF Chain
<1> QED
  BY <1>1, <1>14 DEF N


(* An order of the nodes that the edges respect; a call of dfs() at u, made  *)
(* while only nodes before u are being visited; what it may change.          *)
Respects(rank) == rank \in [nodes -> Int] /\ \A e \in edges : rank[From(e)] < rank[To(e)]
Above(rank, u, c) ==
    c \in [Nodes -> Colour] /\ \A v \in Nodes : c[v] = "visiting" => v \in nodes /\ rank[v] < rank[u]
Clean(r, c) == r \in Result /\ ~r.cycle /\ \A v \in Nodes : r.c[v] = "visiting" <=> c[v] = "visiting"
FindsNone(down, rank) == \A u \in nodes, c \in [Nodes -> Colour] : Above(rank, u, c) => Clean(down[<<u, c>>], c)

(* If such calls find no cycle, one deeper finds none.                       *)
LEMMA DeeperFindsNone ==
    ASSUME GraphOK, NEW rank, Respects(rank), NEW down \in Searches, FindsNone(down, rank)
    PROVE  FindsNone(Deeper(down), rank)
<1> SUFFICES ASSUME NEW u \in nodes, NEW c \in [Nodes -> Colour], Above(rank, u, c)
             PROVE  Clean(Deeper(down)[<<u, c>>], c)
  BY DEF FindsNone
<1>1. u \in Nodes /\ c[u] # "visiting" /\ rank[u] \in Int
  BY DEF GraphOK, Respects, Above
<1> DEFINE d == [c EXCEPT ![u] = "visiting"]
           Q == {r \in Result : Clean(r, d)}
<1>2. d \in [Nodes -> Colour] /\ d[u] = "visiting" /\ \A v \in Nodes : v # u => d[v] = c[v]
  BY <1>1 DEF Colour
<1> HIDE DEF d
<1>3. [cycle |-> FALSE, c |-> d] \in Q
  BY <1>2 DEF Result, Clean
<1>4. ASSUME NEW e \in edges, NEW r \in Q, From(e) = u PROVE Look(down, e, r) \in Q
  <2>1. To(e) \in nodes /\ To(e) \in Nodes /\ rank[u] < rank[To(e)] /\ rank[To(e)] \in Int
    BY <1>4 DEF GraphOK, Respects
  <2>2. r \in Result /\ ~r.cycle /\ \A v \in Nodes : r.c[v] = "visiting" <=> d[v] = "visiting"
    BY DEF Clean
  <2>3. r.c \in [Nodes -> Colour]
    BY <2>2, ResultIs
  <2>4. ASSUME NEW v \in Nodes, r.c[v] = "visiting" PROVE v \in nodes /\ rank[v] < rank[To(e)]
    <3>1. d[v] = "visiting"
      BY <2>2, <2>4
    <3>2. CASE v = u
      BY <2>1, <3>2
    <3>3. CASE v # u
      <4>1. v \in nodes /\ rank[v] < rank[u] /\ rank[v] \in Int
        BY <1>2, <3>1, <3>3 DEF Above, Respects
      <4> QED BY <1>1, <2>1, <4>1
    <3> QED BY <3>2, <3>3
  <2>5. ~BackEdge(r.c, To(e))
    BY <2>1, <2>4 DEF BackEdge
  <2>6. Above(rank, To(e), r.c)
    BY <2>3, <2>4 DEF Above
  <2>7. Clean(down[<<To(e), r.c>>], r.c)
    BY <2>1, <2>3, <2>6 DEF FindsNone
  <2>8. down[<<To(e), r.c>>] \in Q
    BY <2>2, <2>7 DEF Clean
  <2> HIDE DEF Q
  <2> QED
    BY <2>2, <2>5, <2>8 DEF Look
<1>5. Looked(down, u, c) \in Q
  <2> HIDE DEF Q
  <2> QED BY <1>3, <1>4, LooksStay DEF GraphOK, d
<1>6. PICK r \in Q : r = Looked(down, u, c)
  BY <1>5
<1>7. r \in Result /\ ~r.cycle /\ \A v \in Nodes : r.c[v] = "visiting" <=> d[v] = "visiting"
  BY DEF Clean
<1> DEFINE t == [r EXCEPT !.c[u] = "done"]
<1>8. t \in Result /\ t.cycle = r.cycle /\ t.c = [r.c EXCEPT ![u] = "done"] /\ r.c \in [Nodes -> Colour]
  BY <1>1, <1>7, ResultIs
<1> HIDE DEF t
<1>9. \A v \in Nodes : t.c[v] = "visiting" <=> c[v] = "visiting"
  BY <1>1, <1>2, <1>7, <1>8
<1>10. Deeper(down)[<<u, c>>] = t
  BY <1>1, <1>6, DeeperIs DEF t
<1> QED
  BY <1>7, <1>8, <1>9, <1>10 DEF Clean

LEMMA DfsFindsNone ==
    ASSUME GraphOK, NEW rank, Respects(rank)
    PROVE  FindsNone(Dfs[Cardinality(Nodes)], rank) /\ Dfs[Cardinality(Nodes)] \in Searches
<1> DEFINE N == Cardinality(Nodes)
           S == {k \in Nat : k <= N => FindsNone(Dfs[k], rank)}
<1>1. N \in Nat /\ Chain(Dfs, N)
  BY DfsIs
<1> HIDE DEF N
<1>2. 0 \in S
  <2>1. Dfs[0] = Start
    BY <1>1 DEF Chain
  <2>2. ASSUME NEW u \in nodes, NEW c \in [Nodes -> Colour] PROVE Clean(Start[<<u, c>>], c)
    <3>1. u \in Nodes
      BY DEF GraphOK
    <3>2. Start[<<u, c>>] = [cycle |-> FALSE, c |-> c] /\ [cycle |-> FALSE, c |-> c] \in Result
      BY <3>1, StartIs, BaseIs
    <3> QED BY <3>2 DEF Clean
  <2>3. FindsNone(Start, rank)
    BY <2>2 DEF FindsNone
  <2> QED BY <2>1, <2>3
<1>3. ASSUME NEW k \in S PROVE k + 1 \in S
  <2>1. k \in Nat
    OBVIOUS
  <2> SUFFICES ASSUME k + 1 <= N PROVE FindsNone(Dfs[k + 1], rank)
    BY <2>1
  <2>2. k + 1 \in 1..N /\ (k + 1) - 1 = k /\ k <= N /\ k \in 0..N
    BY <1>1, <2>1
  <2>3. Dfs[k] \in Searches /\ Dfs[k + 1] = Deeper(Dfs[k])
    BY <1>1, <2>2 DEF Chain
  <2>4. FindsNone(Dfs[k], rank)
    BY <2>2
  <2> QED BY <2>3, <2>4, DeeperFindsNone
<1>4. S = Nat
  <2> HIDE DEF S
  <2>1. S \in SUBSET Nat
    BY DEF S
  <2> QED BY <1>2, <1>3, <2>1, Induction
<1>5. FindsNone(Dfs[N], rank)
  BY <1>1, <1>4
<1>6. Dfs[N] \in Searches
  BY <1>1 DEF Chain
<1> QED
  BY <1>5, <1>6 DEF N

(* hasCycleLocked() says so only when there is a cycle.                      *)
LEMMA CycleIsReal ==
    ASSUME GraphOK, HasCycle, NEW rank
    PROVE  ~Respects(rank)
<1> SUFFICES ASSUME Respects(rank) PROVE FALSE
  OBVIOUS
<1> DEFINE none == [n \in Nodes |-> "unvisited"]
           base == [cycle |-> FALSE, c |-> none]
           Q == {r \in Result : Clean(r, none)}
<1>1. none \in [Nodes -> Colour] /\ \A v \in Nodes : none[v] # "visiting"
  BY DEF Colour
<1> HIDE DEF none
<1>2. base \in Q
  BY <1>1 DEF Result, Clean
<1>3. ASSUME NEW u \in nodes, NEW r \in Q PROVE Try(u, r) \in Q
  <2> DEFINE s == Dfs[Cardinality(Nodes)]
  <2>1. r \in Result /\ \A v \in Nodes : r.c[v] # "visiting"
    BY <1>1 DEF Clean
  <2>2. r.c \in [Nodes -> Colour]
    BY <2>1, ResultIs
  <2>3. Above(rank, u, r.c)
    BY <2>1, <2>2 DEF Above
  <2>4. FindsNone(s, rank)
    BY DfsFindsNone
  <2>5. Try(u, r) = IF r.cycle \/ r.c[u] # "unvisited" THEN r ELSE s[<<u, r.c>>]
    BY DEF Try
  <2> HIDE DEF s
  <2>6. Clean(s[<<u, r.c>>], r.c)
    BY <2>2, <2>3, <2>4 DEF FindsNone
  <2>7. s[<<u, r.c>>] \in Q
    BY <1>1, <2>1, <2>6 DEF Clean
  <2> HIDE DEF Q
  <2> QED
    BY <2>5, <2>7
<1>4. IsFiniteSet(nodes)
  BY FS_Subset, GraphAssumption DEF GraphOK, GraphAssumption
<1>5. FoldSet(Try, base, nodes) \in Q
  <2> HIDE DEF Q, base
  <2> QED BY <1>2, <1>3, <1>4, TriesStay
<1>6. HasCycle <=> FoldSet(Try, base, nodes).cycle
  BY DEF HasCycle, none
<1>7. ASSUME NEW r \in Q PROVE ~r.cycle
  BY DEF Clean
<1> HIDE DEF Q, base
<1> QED
  BY <1>5, <1>6, <1>7


-----------------------------------------------------------------------------
(* What a run's future says.                                                 *)
FutureTypes ==
    /\ promise \in [Runs -> {"none", "unset", "true", "false"}]
    /\ cnt \in [Runs -> Nat] /\ tasks \in [Runs -> Nat]
    /\ threw \in [Jobs -> BOOLEAN] /\ m_failed \in BOOLEAN

(* Nobody has touched the runs to come; run() is about to answer or to plan. *)
LaterRuns == \A r \in Runs : r > run => promise[r] = "none" /\ cnt[r] = 0
Planning == client # "free" => promise[run] = "unset" /\ cnt[run] = 0 /\ hasPool
Rooted == client = "roots" => nodes # {} /\ \A n \in nodes : depsLeft[n] = Cardinality(Into(n))

(* A closure on its way to break the promise has a task that threw.          *)
Threw == \A j \in Jobs : pc[j] \in {"fail", "break"} => threw[j]

(* The plan is the graph, and unless a task has thrown the counter counts    *)
(* the tasks that succeeded and whose closures have come to their end.  So   *)
(* the closure that counts last knows of all the others.                     *)
Planned == Live => plan[run].nodes = nodes /\ tasks[run] = Cardinality(nodes)
Counted == {n \in nodes : succeeded[<<run, n>>] /\ pc[<<run, n>>] \in {"idle", "last"}}
CountIs == Live /\ ~m_failed => cnt[run] = Cardinality(Counted)
EndsWell ==
    Live /\ ~m_failed => \A j \in Jobs : /\ pc[j] \in {"submit", "count", "last"} => succeeded[j]
                                         /\ pc[j] # "break"
LastIs ==
    Live /\ ~m_failed => /\ \A j \in Jobs : pc[j] = "last" => cnt[run] = tasks[run]
                         /\ \A i, j \in Jobs : pc[i] = "last" /\ pc[j] = "last" => i = j

TrueGone ==
    \A r \in Runs : promise[r] = "true" =>
        \A n \in plan[r].nodes : succeeded[<<r, n>>] /\ Gone(<<r, n>>)
PlanNodes == \A r \in Runs : plan[r].nodes \subseteq Nodes

FutureInv ==
    /\ FutureTypes /\ LaterRuns /\ Planning /\ Rooted /\ Threw /\ Planned
    /\ CountIs /\ EndsWell /\ LastIs /\ TrueGone /\ PlanNodes /\ FalseMeansFailed

(* What FalseMeansFailed says of one run.                                    *)
Excused(r) ==
    \/ ~hasPool
    \/ ~\E rank \in [plan[r].nodes -> 1..Cardinality(Nodes)] :
          \A e \in plan[r].edges : rank[From(e)] < rank[To(e)]
    \/ \E n \in Nodes : threw[<<r, n>>]

LEMMA FalseIs == FalseMeansFailed <=> \A r \in Runs : promise[r] = "false" => Excused(r)
BY DEF FalseMeansFailed, Excused

(* The client's steps that plan nothing.                                     *)
LEMMA ClientFuture ==
    ASSUME GraphInv, FutureInv, ~Live', m_failed' \in BOOLEAN,
           UNCHANGED <<hasPool, cnt, tasks, pending, pc, ready, succeeded, threw>>,
           client' # "roots", LaterRuns', Planning',
           promise' \in [Runs -> {"none", "unset", "true", "false"}],
           PlanNodes',
           \A r \in Runs : promise'[r] = "true" => plan'[r].nodes = {} \/ (promise[r] = "true" /\ plan'[r] = plan[r]),
           \A r \in Runs : promise'[r] = "false" => Excused(r)' \/ (promise[r] = "false" /\ plan'[r] = plan[r])
    PROVE  FutureInv'
<1> USE DEF FutureInv
<1>1. FutureTypes'
  BY DEF FutureTypes
<1>2. Rooted' /\ Planned' /\ CountIs' /\ EndsWell' /\ LastIs'
  BY DEF Rooted, Planned, CountIs, EndsWell, LastIs
<1>3. Threw'
  BY DEF Threw
<1>4. TrueGone'
  BY DEF TrueGone, Gone
<1>5. \A r \in Runs : promise'[r] = "false" => Excused(r)'
  <2> SUFFICES ASSUME NEW r \in Runs, promise[r] = "false", plan'[r] = plan[r] PROVE Excused(r)'
    OBVIOUS
  <2>1. Excused(r)
    BY FalseIs
  <2> QED
    BY <2>1 DEF Excused
<1>6. FalseMeansFailed'
  BY <1>5 DEF FalseMeansFailed, Excused
<1> QED
  BY <1>1, <1>2, <1>3, <1>4, <1>6

LEMMA QuietNotLive ==
    ASSUME Quiet, client' # "roots", UNCHANGED <<pending, pc>>
    PROVE  ~Live'
BY DEF Live, Quiet

LEMMA GraphStepFuture ==
    ASSUME RunWhenQuiet, GraphInv, FutureInv, GraphStep
    PROVE  FutureInv'
<1>1. Quiet /\ client = "free"
  BY DEF GraphStep, AddNode, AddEdge, Reset, Clear, Between
<1>2. /\ UNCHANGED <<hasPool, cnt, tasks, pending, pc, ready, succeeded, threw, run, client, promise, plan>>
      /\ m_failed' \in BOOLEAN
  BY DEF GraphStep, AddNode, AddEdge, Reset, Clear, Frame, graphVars, runVars, jobVars, taskVars, FutureInv, FutureTypes
<1>3. ~Live'
  BY <1>1, <1>2, QuietNotLive
<1>4. LaterRuns' /\ Planning' /\ PlanNodes'
  BY <1>1, <1>2 DEF FutureInv, LaterRuns, Planning, PlanNodes
<1> QED
  BY <1>1, <1>2, <1>3, <1>4, ClientFuture DEF FutureInv, FutureTypes

LEMMA RunCallFuture ==
    ASSUME RunWhenQuiet, GraphInv, FutureInv, RunCall
    PROVE  FutureInv'
<1>1. Quiet /\ client = "free" /\ run' = run + 1 /\ run + 1 \in Runs /\ run \in Nat
  BY Constants DEF RunCall, Between, GraphInv, Types, Runs
<1>2. /\ UNCHANGED <<hasPool, cnt, tasks, pending, pc, ready, succeeded, threw, plan>>
      /\ m_failed' \in BOOLEAN /\ client' # "roots"
      /\ promise' = [promise EXCEPT ![run + 1] = IF hasPool THEN "unset" ELSE "false"]
      /\ client' # "free" => hasPool
  BY <1>1 DEF RunCall, graphVars, jobVars, taskVars, FutureInv, FutureTypes
<1>3. ~Live'
  BY <1>1, <1>2, QuietNotLive
<1>4. promise' \in [Runs -> {"none", "unset", "true", "false"}]
  BY <1>2 DEF FutureInv, FutureTypes
<1>5. LaterRuns' /\ Planning' /\ PlanNodes'
  BY <1>1, <1>2, Constants DEF FutureInv, FutureTypes, LaterRuns, Planning, PlanNodes
<1>6. \A r \in Runs : promise'[r] = "true" => promise[r] = "true"
  BY <1>1, <1>2 DEF FutureInv, FutureTypes
<1>7. \A r \in Runs : promise'[r] = "false" => Excused(r)' \/ promise[r] = "false"
  BY <1>1, <1>2 DEF FutureInv, FutureTypes, Excused
<1> QED
  BY <1>2, <1>3, <1>4, <1>5, <1>6, <1>7, ClientFuture

(* run() answers at once: an empty graph, or one with a cycle.               *)
LEMMA AnswerFuture ==
    ASSUME GraphInv, FutureInv, RunEmpty \/ RunCycle
    PROVE  FutureInv'
<1>1. Quiet /\ run \in Runs /\ promise[run] = "unset"
  BY PlanIsQuiet DEF RunEmpty, RunCycle, GraphInv, Types, FutureInv, Planning
<1>2. /\ UNCHANGED <<hasPool, cnt, tasks, pending, pc, ready, succeeded, threw, run, m_failed, nodes, edges>>
      /\ client' = "free"
      /\ plan' = [plan EXCEPT ![run] = [nodes |-> nodes, edges |-> edges]]
      /\ \/ nodes = {} /\ promise' = [promise EXCEPT ![run] = "true"]
         \/ HasCycle /\ promise' = [promise EXCEPT ![run] = "false"]
  BY DEF RunEmpty, RunCycle, Found, graphVars, jobVars, taskVars
<1>3. ~Live'
  BY <1>1, <1>2, QuietNotLive
<1>4. promise' \in [Runs -> {"none", "unset", "true", "false"}] /\ m_failed' \in BOOLEAN
  BY <1>2 DEF FutureInv, FutureTypes
<1>5. /\ plan'[run].nodes = nodes /\ plan'[run].edges = edges
      /\ \A r \in Runs : r # run => plan'[r] = plan[r]
  BY <1>1, <1>2 DEF GraphInv, Types
<1>6. PlanNodes'
  BY <1>5 DEF FutureInv, PlanNodes, GraphInv, Types
<1>7. LaterRuns' /\ Planning'
  BY <1>1, <1>2, Constants DEF FutureInv, FutureTypes, LaterRuns, Planning
<1>8. \A r \in Runs : promise'[r] = "true" => plan'[r].nodes = {} \/ (promise[r] = "true" /\ plan'[r] = plan[r])
  BY <1>1, <1>2, <1>5 DEF FutureInv, FutureTypes
<1>9. HasCycle => Excused(run)'
  <2> SUFFICES ASSUME HasCycle, NEW rank \in [nodes -> 1..Cardinality(Nodes)]
               PROVE  ~\A e \in edges : rank[From(e)] < rank[To(e)]
    BY <1>2, <1>5 DEF Excused
  <2>1. GraphOK
    BY DEF GraphOK, GraphInv, Types
  <2>2. rank \in [nodes -> Int]
    OBVIOUS
  <2> QED
    BY <2>1, <2>2, CycleIsReal DEF Respects
<1>10. \A r \in Runs : promise'[r] = "false" => Excused(r)' \/ (promise[r] = "false" /\ plan'[r] = plan[r])
  BY <1>1, <1>2, <1>5, <1>9 DEF FutureInv, FutureTypes
<1> QED
  BY <1>2, <1>3, <1>4, <1>6, <1>7, <1>8, <1>10, ClientFuture


(* The plan is made; nothing has run yet.                                    *)
LEMMA PlanFuture ==
    ASSUME GraphInv, FutureInv, RunPlan
    PROVE  FutureInv'
<1> USE DEF FutureInv
<1>1. run \in Runs /\ promise[run] = "unset" /\ cnt[run] = 0 /\ hasPool /\ nodes # {}
  BY DEF RunPlan, GraphInv, Types, Planning
<1>2. /\ UNCHANGED <<hasPool, cnt, pending, pc, ready, succeeded, threw, run, m_failed, nodes, edges, promise>>
      /\ client' = "roots" /\ tasks' = [tasks EXCEPT ![run] = Cardinality(nodes)]
      /\ plan' = [plan EXCEPT ![run] = [nodes |-> nodes, edges |-> edges]]
  BY DEF RunPlan, Found, graphVars, jobVars, taskVars
<1>3. /\ \A j \in Jobs : pc[j] = "idle"
      /\ \A n \in nodes : ~succeeded[<<run, n>>]
  BY <1>1, PlanIsQuiet, JobIs DEF RunPlan, Quiet, Fresh, GraphInv, Types
<1>4. nodes \subseteq Nodes /\ IsFiniteSet(nodes) /\ Cardinality(nodes) \in Nat
  BY FS_Subset, FS_CardinalityType, GraphAssumption DEF GraphAssumption, GraphInv, Types
<1>5. /\ plan'[run].nodes = nodes /\ \A r \in Runs : r # run => plan'[r] = plan[r]
      /\ tasks'[run] = Cardinality(nodes)
  BY <1>1, <1>2 DEF GraphInv, Types, FutureTypes
<1>6. FutureTypes' /\ LaterRuns' /\ Planning'
  BY <1>1, <1>2, <1>4 DEF FutureTypes, LaterRuns, Planning
<1>7. Rooted'
  BY <1>1, <1>2, <1>4 DEF Rooted, RunPlan, CountDeps, Into
<1>8. Threw' /\ EndsWell' /\ LastIs'
  BY <1>2, <1>3 DEF Threw, EndsWell, LastIs
<1>9. Planned' /\ PlanNodes'
  BY <1>2, <1>4, <1>5 DEF Planned, PlanNodes
<1>10. CountIs'
  <2>1. Counted' = {}
    BY <1>2, <1>3 DEF Counted
  <2> QED
    BY <1>1, <1>2, <2>1, FS_EmptySet DEF CountIs
<1>11. TrueGone'
  BY <1>1, <1>2, <1>5 DEF TrueGone, Gone
<1>12. \A r \in Runs : promise'[r] = "false" => Excused(r)'
  <2> SUFFICES ASSUME NEW r \in Runs, promise[r] = "false" PROVE Excused(r)'
    BY <1>2
  <2>1. Excused(r) /\ plan'[r] = plan[r]
    BY <1>1, <1>5, FalseIs
  <2> QED
    BY <1>2, <2>1 DEF Excused
<1>13. FalseMeansFailed'
  BY <1>12 DEF FalseMeansFailed, Excused
<1> QED
  BY <1>6, <1>7, <1>8, <1>9, <1>10, <1>11, <1>13

(* The first node of an order that respects the edges has nothing before it. *)
LEMMA OrderHasRoot ==
    ASSUME GraphOK, nodes # {}, NEW rank \in [nodes -> Nat],
           \A e \in edges : rank[From(e)] < rank[To(e)]
    PROVE  \E n \in nodes : Into(n) = {}
<1> DEFINE R == OpToRel(<, Nat)
           T == {rank[n] : n \in nodes}
<1>1. IsWellFoundedOn(R, Nat)
  BY NatLessThanWellFounded
<1>2. \A x, y \in Nat : <<x, y>> \in R <=> x < y
  BY DEF OpToRel
<1>3. T \in SUBSET Nat /\ T # {}
  OBVIOUS
<1> HIDE DEF R
<1>4. PICK x \in T : \A y \in T : ~(<<y, x>> \in R)
  <2> HIDE DEF T
  <2> QED BY <1>1, <1>3, WFMin
<1>5. PICK n \in nodes : x = rank[n]
  OBVIOUS
<1>6. ASSUME NEW e \in Into(n) PROVE FALSE
  <2>1. From(e) \in nodes /\ rank[From(e)] < rank[n]
    BY DEF Into, GraphOK
  <2>2. rank[From(e)] \in T
    BY <2>1
  <2> QED
    BY <1>2, <1>3, <1>4, <1>5, <2>1, <2>2
<1> QED
  BY <1>6

(* The roots are submitted; a run without roots has a cycle after all.       *)
LEMMA RootsFuture ==
    ASSUME GraphInv, FutureInv, RunRoots
    PROVE  FutureInv'
<1> USE DEF FutureInv
<1>1. /\ run \in Runs /\ promise[run] = "unset" /\ nodes # {} /\ client = "roots" /\ Live
      /\ plan[run].nodes = nodes /\ plan[run].edges = edges
  BY DEF RunRoots, GraphInv, Types, Planning, Rooted, Planned, GraphKept, Live
<1> DEFINE roots == {n \in nodes : depsLeft[n] = 0}
<1>2. /\ UNCHANGED <<hasPool, cnt, pc, ready, succeeded, threw, run, m_failed, nodes, edges, tasks, plan>>
      /\ client' = "free"
      /\ promise' = promise \/ (roots = {} /\ promise' = [promise EXCEPT ![run] = "false"])
  BY DEF RunRoots, graphVars, taskVars
<1>3. \A j \in Jobs : j[1] # run => pending'[j] = pending[j]
  BY DEF RunRoots
<1>4. roots = {} => Excused(run)
  <2> SUFFICES ASSUME roots = {}, NEW rank \in [nodes -> 1..Cardinality(Nodes)],
                      \A e \in edges : rank[From(e)] < rank[To(e)]
               PROVE  FALSE
    BY <1>1 DEF Excused
  <2>1. GraphOK
    BY DEF GraphOK, GraphInv, Types
  <2>2. rank \in [nodes -> Nat]
    OBVIOUS
  <2>3. PICK n \in nodes : Into(n) = {}
    BY <1>1, <2>1, <2>2, OrderHasRoot
  <2>4. depsLeft[n] = 0
    BY <1>1, <2>3, FS_EmptySet DEF Rooted
  <2> QED
    BY <2>4
<1> HIDE DEF roots
<1>5. FutureTypes' /\ LaterRuns' /\ Planning'
  BY <1>1, <1>2, Constants DEF FutureTypes, LaterRuns, Planning
<1>6. Rooted' /\ Threw' /\ PlanNodes'
  BY <1>2 DEF Rooted, Threw, PlanNodes
<1>7. Planned' /\ EndsWell' /\ LastIs'
  BY <1>1, <1>2 DEF Planned, EndsWell, LastIs
<1>8. CountIs'
  <2>1. Counted' = Counted
    BY <1>2 DEF Counted
  <2> QED
    BY <1>1, <1>2, <2>1 DEF CountIs
<1>9. TrueGone'
  <2> SUFFICES ASSUME NEW r \in Runs, promise'[r] = "true", NEW n \in plan[r].nodes
               PROVE  succeeded[<<r, n>>] /\ Gone(<<r, n>>)'
    BY <1>2 DEF TrueGone
  <2>1. promise[r] = "true" /\ r # run
    BY <1>1, <1>2 DEF FutureTypes
  <2>2. succeeded[<<r, n>>] /\ Gone(<<r, n>>) /\ <<r, n>> \in Jobs /\ <<r, n>>[1] = r
    BY <2>1, JobIs DEF TrueGone, PlanNodes
  <2> QED
    BY <1>2, <1>3, <2>1, <2>2 DEF Gone
<1>10. \A r \in Runs : promise'[r] = "false" => Excused(r)'
  <2> SUFFICES ASSUME NEW r \in Runs, promise'[r] = "false" PROVE Excused(r)'
    OBVIOUS
  <2>1. Excused(r)
    BY <1>1, <1>2, <1>4, FalseIs DEF FutureTypes
  <2> QED
    BY <1>2, <2>1 DEF Excused
<1>11. FalseMeansFailed'
  BY <1>10 DEF FalseMeansFailed, Excused
<1> QED
  BY <1>5, <1>6, <1>7, <1>8, <1>9, <1>11


-----------------------------------------------------------------------------
(* A closure's step and the future.                                          *)
LEMMA JobFutureFrames ==
    ASSUME GraphInv, FutureInv, NEW j \in Jobs, Job(j)
    PROVE  /\ UNCHANGED <<hasPool, tasks, plan, run, client, nodes, edges>> /\ FutureTypes'
           /\ \A r \in Runs : r # run => promise'[r] = promise[r] /\ cnt'[r] = cnt[r]
           /\ ~JobCount(j) => cnt' = cnt
           /\ \A i \in Jobs : threw[i] => threw'[i]
<1> USE DEF FutureInv, FutureTypes, JobFrame, graphVars, runVars, taskVars, Go, At, SetOnce
<1>0. j[1] = run /\ run \in Runs
  BY JobIsCurrent
<1>1. UNCHANGED <<hasPool, tasks, plan, run, client, nodes, edges>>
  BY DEF Job, JobLookup, JobTest, JobRun, JobFail, JobBreak, JobFinish, JobLower, JobSubmit, JobCount, JobLast
<1>2. threw' \in [Jobs -> BOOLEAN] /\ \A i \in Jobs : threw[i] => threw'[i]
  <2>1. CASE JobRun(j)
    BY <2>1 DEF JobRun
  <2>2. CASE ~JobRun(j)
    BY <2>2 DEF Job, JobLookup, JobTest, JobFail, JobBreak, JobFinish, JobLower, JobSubmit, JobCount, JobLast
  <2> QED BY <2>1, <2>2
<1>3. /\ promise' \in [Runs -> {"none", "unset", "true", "false"}]
      /\ \A r \in Runs : r # run => promise'[r] = promise[r]
  BY <1>0 DEF Job, JobLookup, JobTest, JobRun, JobFail, JobBreak, JobFinish, JobLower, JobSubmit, JobCount, JobLast
<1>4. /\ cnt' \in [Runs -> Nat] /\ (~JobCount(j) => cnt' = cnt)
      /\ \A r \in Runs : r # run => cnt'[r] = cnt[r]
  BY <1>0 DEF Job, JobLookup, JobTest, JobRun, JobFail, JobBreak, JobFinish, JobLower, JobSubmit, JobCount, JobLast
<1>5. m_failed' \in BOOLEAN
  BY DEF Job, JobLookup, JobTest, JobRun, JobFail, JobBreak, JobFinish, JobLower, JobSubmit, JobCount, JobLast
<1> QED
  BY <1>1, <1>2, <1>3, <1>4, <1>5

(* How a closure gets to where the future is set.                            *)
LEMMA JobPaths ==
    ASSUME GraphInv, FutureInv, NEW j \in Jobs, Job(j)
    PROVE  /\ pc'[j] \in {"fail", "break"} => threw'[j]
           /\ ~m_failed' => pc'[j] # "break"
           /\ ~m_failed' /\ pc'[j] \in {"submit", "count", "last"} => succeeded'[j]
           /\ pc'[j] = "last" => JobCount(j) /\ cnt[run] + 1 = tasks[run]
           /\ succeeded[j] => succeeded'[j]
<1> USE DEF GraphInv, Types, FutureInv, FutureTypes, taskVars, Go, At
<1>0. j[1] = run /\ run \in Runs /\ j[2] \in nodes /\ Live
  BY JobIsCurrent
<1>1. CASE JobLookup(j)
  BY <1>0, <1>1 DEF JobLookup, JobFrame, graphVars
<1>2. CASE JobTest(j)
  BY <1>2 DEF JobTest
<1>3. CASE JobRun(j)
  BY <1>3 DEF JobRun
<1>4. CASE JobFail(j)
  BY <1>4 DEF JobFail, Threw
<1>5. CASE JobBreak(j)
  BY <1>0, <1>5 DEF JobBreak, EndsWell
<1>6. CASE JobFinish(j)
  BY <1>6 DEF JobFinish
<1>7. CASE JobLower(j)
  BY <1>7 DEF JobLower, Ends
<1>8. CASE JobSubmit(j)
  BY <1>0, <1>8 DEF JobSubmit, EndsWell
<1>9. CASE JobCount(j)
  BY <1>0, <1>9 DEF JobCount, EndsWell
<1>10. CASE JobLast(j)
  BY <1>10 DEF JobLast
<1> QED
  BY <1>1, <1>2, <1>3, <1>4, <1>5, <1>6, <1>7, <1>8, <1>9, <1>10 DEF Job

(* Only JobCount adds to the tasks that are counted, and only its own.       *)
IsCounted(j) == succeeded[j] /\ pc[j] \in {"idle", "last"}

LEMMA CountedMoves ==
    ASSUME GraphInv, FutureInv, NEW j \in Jobs, Job(j)
    PROVE  /\ ~JobCount(j) => Counted' = Counted
           /\ JobCount(j) /\ ~m_failed => j[2] \notin Counted /\ Counted' = Counted \cup {j[2]}
<1> USE DEF GraphInv, Types
<1>0. /\ j = <<run, j[2]>> /\ j[2] \in nodes /\ run \in Runs /\ Live
      /\ \A n \in nodes : <<run, n>> \in Jobs /\ (<<run, n>> = j <=> n = j[2])
  BY JobIsCurrent, JobIs
<1>1. run' = run /\ nodes' = nodes
  BY JobFrames
<1>2. \A n \in nodes : n # j[2] => (IsCounted(<<run, n>>)' <=> IsCounted(<<run, n>>))
  BY <1>0, <1>1, JobFrames DEF IsCounted
<1>3. /\ Counted = {n \in nodes : IsCounted(<<run, n>>)}
      /\ Counted' = {n \in nodes : IsCounted(<<run, n>>)'}
  BY <1>1 DEF Counted, IsCounted
<1>4. ASSUME ~JobCount(j) PROVE IsCounted(j)' <=> IsCounted(j)
  <2> USE DEF IsCounted, taskVars, Go, At
  <2>1. CASE JobLookup(j)
    <3>1. ~succeeded[j] /\ pc'[j] = "test"
      BY <1>0, <2>1, JobTaken DEF JobLookup, Ends, Tokens, Taken
    <3> QED BY <2>1, <3>1
  <2>2. CASE JobTest(j) \/ JobFinish(j) \/ JobFail(j) \/ JobBreak(j)
    BY <2>2 DEF JobTest, JobFinish, JobFail, JobBreak
  <2>3. CASE JobRun(j)
    BY <2>3 DEF JobRun
  <2>4. CASE JobLower(j) \/ JobSubmit(j)
    BY <2>4 DEF JobLower, JobSubmit
  <2>5. CASE JobLast(j)
    BY <2>5 DEF JobLast
  <2> QED
    BY <1>4, <2>1, <2>2, <2>3, <2>4, <2>5 DEF Job
<1>5. ASSUME JobCount(j), ~m_failed PROVE ~IsCounted(j) /\ IsCounted(j)'
  <2>1. succeeded[j] /\ succeeded' = succeeded /\ pc[j] = "count" /\ pc'[j] \in {"idle", "last"}
    BY <1>0, <1>5 DEF JobCount, FutureInv, EndsWell, taskVars, Go, At
  <2> QED BY <2>1 DEF IsCounted
<1>6. ASSUME ~JobCount(j) PROVE Counted' = Counted
  <2>1. \A n \in nodes : IsCounted(<<run, n>>)' <=> IsCounted(<<run, n>>)
    BY <1>0, <1>1, <1>2, <1>4, <1>6
  <2> QED BY <1>3, <2>1
<1>7. ASSUME JobCount(j), ~m_failed PROVE j[2] \notin Counted /\ Counted' = Counted \cup {j[2]}
  <2>1. \A n \in nodes : IsCounted(<<run, n>>)' <=> IsCounted(<<run, n>>) \/ n = j[2]
    BY <1>0, <1>1, <1>2, <1>5, <1>7
  <2>2. ~IsCounted(<<run, j[2]>>)
    BY <1>0, <1>5, <1>7
  <2> QED BY <1>0, <1>3, <2>1, <2>2
<1> QED
  BY <1>6, <1>7

LEMMA CountedFinite ==
    ASSUME GraphInv
    PROVE  /\ IsFiniteSet(nodes) /\ Cardinality(nodes) \in Nat
           /\ IsFiniteSet(Counted) /\ Cardinality(Counted) \in Nat /\ Counted \subseteq nodes
           /\ Cardinality(Counted) = Cardinality(nodes) => Counted = nodes
<1>1. IsFiniteSet(nodes) /\ Counted \subseteq nodes
  BY FS_Subset, GraphAssumption DEF GraphAssumption, GraphInv, Types, Counted
<1>2. IsFiniteSet(Counted) /\ Cardinality(Counted) \in Nat /\ Cardinality(nodes) \in Nat
  BY <1>1, FS_Subset, FS_CardinalityType
<1>3. Cardinality(Counted) = Cardinality(nodes) => Counted = nodes
  BY <1>1, FS_Subset
<1> QED
  BY <1>1, <1>2, <1>3


(* While one closure has counted last, every task is counted: no other can.  *)
LEMMA LastKnows ==
    ASSUME GraphInv, FutureInv, Live, ~m_failed, NEW j \in Jobs, pc[j] = "last"
    PROVE  /\ Counted = nodes
           /\ \A n \in nodes : /\ <<run, n>> \in Jobs /\ succeeded[<<run, n>>] /\ pc[<<run, n>>] \in {"idle", "last"}
                               /\ pending[<<run, n>>] = 0 /\ ready[<<run, n>>] = {}
                               /\ <<run, n>> # j => pc[<<run, n>>] = "idle"
<1> USE DEF GraphInv, FutureInv
<1>1. Counted = nodes
  <2>1. cnt[run] = tasks[run] /\ tasks[run] = Cardinality(nodes) /\ cnt[run] = Cardinality(Counted)
    BY DEF LastIs, Planned, CountIs
  <2> QED BY <2>1, CountedFinite
<1> SUFFICES ASSUME NEW n \in nodes
             PROVE  /\ <<run, n>> \in Jobs /\ succeeded[<<run, n>>] /\ pc[<<run, n>>] \in {"idle", "last"}
                    /\ pending[<<run, n>>] = 0 /\ ready[<<run, n>>] = {}
                    /\ <<run, n>> # j => pc[<<run, n>>] = "idle"
  BY <1>1
<1>2. <<run, n>> \in Jobs /\ <<run, n>>[1] = run
  BY JobIs DEF GraphKept, Types
<1>3. succeeded[<<run, n>>] /\ pc[<<run, n>>] \in {"idle", "last"}
  BY <1>1 DEF Counted
<1>4. pending[<<run, n>>] = 0
  BY <1>2, <1>3 DEF Ends, Tokens, Types
<1>5. ready[<<run, n>>] = {}
  BY <1>2, <1>3 DEF Ends
<1>6. <<run, n>> # j => pc[<<run, n>>] = "idle"
  BY <1>2, <1>3 DEF LastIs
<1> QED
  BY <1>2, <1>3, <1>4, <1>5, <1>6

LEMMA JobCountIs ==
    ASSUME GraphInv, FutureInv, NEW j \in Jobs, Job(j)
    PROVE  CountIs' /\ LastIs'
<1> SUFFICES ASSUME ~m_failed' PROVE cnt'[run] = Cardinality(Counted') /\ LastIs'
  BY JobFutureFrames DEF CountIs, LastIs
<1>0. /\ j[1] = run /\ run \in Runs /\ j[2] \in nodes /\ Live /\ ~m_failed /\ j = <<run, j[2]>>
      /\ run' = run /\ tasks' = tasks /\ cnt[run] \in Nat /\ tasks[run] \in Nat
  BY JobIsCurrent, JobFrames, JobFutureFrames DEF FutureInv, FutureTypes
<1>1. cnt[run] = Cardinality(Counted) /\ IsFiniteSet(Counted) /\ Cardinality(Counted) \in Nat
  BY <1>0, CountedFinite DEF FutureInv, CountIs
<1>2. \A i \in Jobs : pc[i] = "last" => cnt[run] = tasks[run]
  BY <1>0 DEF FutureInv, LastIs
<1>3. CASE ~JobCount(j)
  <2>1. Counted' = Counted /\ cnt' = cnt
    BY <1>3, CountedMoves, JobFutureFrames
  <2>2. \A i \in Jobs : pc'[i] = "last" => pc[i] = "last"
    BY <1>3, JobPaths, JobFrames
  <2>3. LastIs'
    BY <1>0, <2>1, <2>2 DEF FutureInv, LastIs
  <2> QED
    BY <1>0, <1>1, <2>1, <2>3
<1>4. CASE JobCount(j)
  <2>1. j[2] \notin Counted /\ Counted' = Counted \cup {j[2]}
    BY <1>0, <1>4, CountedMoves
  <2>2. Cardinality(Counted') = Cardinality(Counted) + 1
    BY <1>1, <2>1, FS_AddElement
  <2>3. cnt'[run] = cnt[run] + 1
    BY <1>0, <1>4 DEF JobCount, FutureInv, FutureTypes
  <2>4. \A i \in Jobs : pc[i] # "last"
    BY <1>0, <2>1, LastKnows
  <2>5. \A i \in Jobs : pc'[i] = "last" => i = j /\ cnt'[run] = tasks[run]
    BY <2>3, <2>4, JobPaths, JobFrames
  <2>6. LastIs'
    BY <1>0, <2>5 DEF LastIs
  <2> QED
    BY <1>1, <2>2, <2>3, <2>6
<1> QED
  BY <1>3, <1>4

(* A closure of the current run is there, so its future is not yet true ...  *)
LEMMA TrueOnlyAtTheEnd ==
    ASSUME GraphInv, FutureInv, NEW j \in Jobs, Job(j)
    PROVE  promise[run] # "true"
<1>1. /\ j = <<run, j[2]>> /\ run \in Runs /\ j[2] \in nodes /\ plan[run].nodes = nodes
  BY JobIsCurrent DEF FutureInv, Planned
<1>2. ~Gone(j)
  BY DEF Job, JobLookup, JobTest, JobRun, JobFail, JobBreak, JobFinish, JobLower, JobSubmit, JobCount, JobLast,
         At, Gone
<1> QED
  BY <1>1, <1>2 DEF FutureInv, TrueGone

(* ... and the one that counted last finds the others gone when it sets it.  *)
LEMMA JobTrue ==
    ASSUME GraphInv, FutureInv, NEW j \in Jobs, Job(j)
    PROVE  TrueGone'
<1> USE DEF FutureInv
<1> SUFFICES ASSUME NEW r \in Runs, promise'[r] = "true", NEW n \in plan[r].nodes
             PROVE  succeeded'[<<r, n>>] /\ Gone(<<r, n>>)'
  BY JobFutureFrames DEF TrueGone
<1>0. /\ j[1] = run /\ run \in Runs /\ Live /\ j = <<run, j[2]>> /\ plan[run].nodes = nodes
      /\ <<r, n>> \in Jobs /\ <<r, n>>[1] = r
  BY JobIsCurrent, JobIs DEF Planned, PlanNodes
<1>1. CASE r # run
  <2>1. promise[r] = "true"
    BY <1>1, JobFutureFrames
  <2>2. succeeded[<<r, n>>] /\ <<r, n>> # j
    BY <1>0, <1>1, <2>1 DEF TrueGone
  <2>3. Gone(<<r, n>>)'
    BY <1>0, <1>1, JobOneRun, JobFrames DEF OneRunAtATime
  <2> QED BY <1>0, <2>2, <2>3, JobFrames
<1>2. CASE r = run
  <2>1. JobLast(j) /\ ~m_failed
    BY <1>0, <1>2, TrueOnlyAtTheEnd
       DEF Job, JobLookup, JobTest, JobRun, JobFail, JobBreak, JobFinish, JobLower, JobSubmit, JobCount, JobLast, SetOnce,
           FutureTypes
  <2>2. pc[j] = "last" /\ pc'[j] = "idle" /\ UNCHANGED <<pending, ready, succeeded>>
    BY <2>1 DEF JobLast, At, Go, taskVars, GraphInv, Types
  <2>3. /\ succeeded[<<run, n>>] /\ pending[<<run, n>>] = 0 /\ ready[<<run, n>>] = {}
        /\ <<run, n>> # j => pc[<<run, n>>] = "idle"
    BY <1>0, <1>2, <2>1, <2>2, LastKnows
  <2>4. pc'[<<run, n>>] = "idle"
    BY <1>0, <1>2, <2>2, <2>3, JobFrames
  <2> QED BY <1>2, <2>2, <2>3, <2>4 DEF Gone
<1> QED
  BY <1>1, <1>2

LEMMA JobFuture ==
    ASSUME GraphInv, FutureInv, NEW j \in Jobs, Job(j)
    PROVE  FutureInv'
<1>0. /\ j[1] = run /\ run \in Runs /\ client = "free" /\ Live /\ j = <<run, j[2]>> /\ j[2] \in Nodes
      /\ UNCHANGED <<hasPool, tasks, plan, run, client, nodes, edges>>
  BY JobIsCurrent, JobIs, JobFutureFrames
<1>1. FutureTypes'
  BY JobFutureFrames
<1>2. LaterRuns'
  BY <1>0, JobFutureFrames, Constants DEF FutureInv, LaterRuns
<1>3. Planning' /\ Rooted' /\ Planned' /\ PlanNodes'
  BY <1>0 DEF FutureInv, Planning, Rooted, Planned, PlanNodes
<1>4. Threw'
  BY JobPaths, JobFrames, JobFutureFrames DEF FutureInv, Threw
<1>5. EndsWell'
  <2>1. m_failed => m_failed'
    BY JobFrames
  <2> QED
    BY <1>0, <2>1, JobPaths, JobFrames DEF FutureInv, EndsWell
<1>6. CountIs' /\ LastIs' /\ TrueGone'
  BY JobCountIs, JobTrue
<1>7. \A r \in Runs : promise'[r] = "false" => Excused(r)'
  <2> SUFFICES ASSUME NEW r \in Runs, promise'[r] = "false" PROVE Excused(r)'
    OBVIOUS
  <2>1. CASE promise[r] = "false"
    <3>1. Excused(r)
      BY <2>1, FalseIs DEF FutureInv
    <3>2. \A n \in Nodes : threw[<<r, n>>] => threw'[<<r, n>>]
      BY JobIs, JobFutureFrames
    <3> QED BY <1>0, <3>1, <3>2 DEF Excused
  <2>2. CASE promise[r] # "false"
    <3>1. r = run
      BY <2>2, JobFutureFrames
    <3>2. JobBreak(j)
      BY <1>0, <2>2, <3>1
         DEF Job, JobLookup, JobTest, JobRun, JobFail, JobBreak, JobFinish, JobLower, JobSubmit, JobCount, JobLast, SetOnce,
             FutureInv, FutureTypes
    <3>3. threw[j]
      BY <3>2 DEF JobBreak, At, FutureInv, Threw
    <3>4. threw'[<<r, j[2]>>]
      BY <1>0, <3>1, <3>3, JobFutureFrames
    <3> QED BY <1>0, <3>4 DEF Excused
  <2> QED BY <2>1, <2>2
<1>8. FalseMeansFailed'
  BY <1>7 DEF FalseMeansFailed, Excused
<1> QED
  BY <1>1, <1>2, <1>3, <1>4, <1>5, <1>6, <1>8 DEF FutureInv

-----------------------------------------------------------------------------
LEMMA InitFutureInv ==
    ASSUME Init
    PROVE  FutureInv
<1> USE DEF Init
<1>1. FutureTypes /\ LaterRuns /\ Planning /\ Rooted /\ Threw
  BY DEF FutureTypes, LaterRuns, Planning, Rooted, Threw
<1>2. ~Live
  BY DEF Live, Quiet
<1>3. Planned /\ CountIs /\ EndsWell /\ LastIs
  BY <1>2 DEF Planned, CountIs, EndsWell, LastIs
<1>4. TrueGone /\ PlanNodes /\ FalseMeansFailed
  BY DEF TrueGone, PlanNodes, FalseMeansFailed
<1> QED
  BY <1>1, <1>3, <1>4 DEF FutureInv

LEMMA StutterFuture ==
    ASSUME FutureInv, UNCHANGED vars
    PROVE  FutureInv'
<1> USE DEF FutureInv, vars, graphVars, runVars, jobVars, taskVars
<1>1. Live' <=> Live
  BY DEF Live, Quiet
<1>2. FutureTypes' /\ LaterRuns' /\ Planning' /\ Threw' /\ PlanNodes'
  BY DEF FutureTypes, LaterRuns, Planning, Threw, PlanNodes
<1>3. Rooted' /\ Planned' /\ EndsWell' /\ LastIs'
  BY <1>1 DEF Rooted, Into, Planned, EndsWell, LastIs
<1>4. CountIs'
  BY <1>1 DEF CountIs, Counted
<1>5. TrueGone'
  BY DEF TrueGone, Gone
<1>6. FalseMeansFailed'
  BY DEF FalseMeansFailed
<1> QED
  BY <1>2, <1>3, <1>4, <1>5, <1>6

(* The future tells the truth, whichever of its writers set it: true means   *)
(* that every task of the run's graph has succeeded and that no closure of   *)
(* the run is left (the one that counts last sets it); false, that there was *)
(* no pool, that a task threw, or that no order of the nodes respects the    *)
(* edges (run() sets it when hasCycleLocked() says so, or without roots).    *)
THEOREM FutureIsTrue == RunWhenQuiet => (Spec => []FutureTells)
<1> SUFFICES ASSUME RunWhenQuiet PROVE Spec => []FutureTells
  OBVIOUS
<1>1. Init => FutureInv
  BY InitFutureInv
<1>2. GraphInv /\ FutureInv /\ [Next]_vars => FutureInv'
  <2> SUFFICES ASSUME GraphInv, FutureInv, [Next]_vars PROVE FutureInv'
    OBVIOUS
  <2>1. CASE GraphStep
    BY <2>1, GraphStepFuture
  <2>2. CASE RunCall
    BY <2>2, RunCallFuture
  <2>3. CASE RunEmpty \/ RunCycle
    BY <2>3, AnswerFuture
  <2>4. CASE RunPlan
    BY <2>4, PlanFuture
  <2>5. CASE RunRoots
    BY <2>5, RootsFuture
  <2>6. ASSUME NEW j \in Jobs, Job(j) PROVE FutureInv'
    BY <2>6, JobFuture
  <2>7. CASE UNCHANGED vars
    BY <2>7, StutterFuture
  <2> QED
    BY <2>1, <2>2, <2>3, <2>4, <2>5, <2>6, <2>7 DEF Next, Run, GraphStep
<1>3. FutureInv => FutureTells
  BY DEF FutureInv, TrueGone, Gone, TrueMeansAll, FutureTells
<1> QED
  BY <1>1, <1>2, <1>3, GraphInvariant, PTL DEF Spec

=============================================================================
