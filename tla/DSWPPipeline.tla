---------------------------- MODULE DSWPPipeline ----------------------------
(***************************************************************************)
(* How DSWP turns a loop into a pipeline: the partition of its SCCs into   *)
(* stages, the SCCs that are cloned into several stages, and the queues    *)
(* that carry data and branch conditions from stage to stage               *)
(* (DSWP::apply up to the code generation).                                *)
(*                                                                         *)
(* A loop is a sequence of N SCCs, each before the ones that depend on it. *)
(* SCC 1 holds the exit test in the loop's header, on which everything else*)
(* is control dependent; other branches are if-thens, nested in each other.*)
(* Memory dependences are inside stages (mergeAlongMemoryEdges).           *)
(***************************************************************************)
EXTENDS Integers, FiniteSets

CONSTANTS
  N,                    \* number of SCCs of a loop
  Loops,                \* the loops DSWP is applied to
  forceParallelization  \* keep pipelines of one stage, too

SCCs == 1 .. N
Exit == 1

Kinds == {"terminators", \* only compares and terminators
          "stateless",   \* no computation, or no state between iterations
          "sequential"}  \* state from iteration to iteration, or memory

\* parent is the branch an SCC is control dependent on; branch b decides on a
\* value of SCC cond[b]; <<d, n>> in data: n uses a value of d.
LoopType ==
  [kind : [SCCs -> Kinds], branch : SUBSET SCCs, parent : [SCCs -> SCCs],
   cond : [SCCs -> SCCs], data : SUBSET (SCCs \X SCCs)]

\* The branches that must be taken for SCC n to be executed, from n outwards.
Controllers(l) ==
  LET up[n \in SCCs] ==
        IF n = Exit THEN {} ELSE {l.parent[n]} \cup up[l.parent[n]]
  IN  up

\* The loops a front end can produce.
WellFormed(l) == LET controllers == Controllers(l) IN
  /\ l.kind[Exit] = "sequential" /\ l.cond[Exit] = Exit /\ l.parent[Exit] = Exit
  /\ Exit \in l.branch
  /\ \A e \in l.data : e[1] < e[2]
  /\ \A n \in SCCs \ {Exit} :
       /\ l.kind[n] = "terminators" /\ n \in l.branch =>
            \A e \in l.data : e[1] # n \* a branch has no value
       /\ l.parent[n] < n
       /\ l.parent[n] \in ({n - 1} \cup controllers[n - 1]) \cap l.branch
       /\ n \notin l.branch => l.cond[n] = n
       /\ l.cond[n] # n =>
            /\ <<l.cond[n], n>> \in l.data
            /\ controllers[l.cond[n]] \subseteq controllers[n]

ASSUME PipelineAssumption ==
  /\ N \in Nat \ {0}
  /\ Loops \subseteq LoopType /\ \A l \in Loops : WellFormed(l)
  /\ forceParallelization \in BOOLEAN

VARIABLES
  loop,         \* the loop
  step,         \* where apply is
  sccToStage,   \* the stages of the SCCs that are not clonable
  clonableSCCs, \* clonableSCCs of each DSWPTask
  uses          \* the queues, with one element for each consumer of a queue

pipelineVars == <<loop, step, sccToStage, clonableSCCs, uses>>

-----------------------------------------------------------------------------
(***************************************************************************)
(* The SCCDAG                                                              *)
(***************************************************************************)

Edges(l) == l.data \cup {<<l.parent[n], n>> : n \in SCCs \ {Exit}}

\* The SCCs that n depends on, over any number of edges.
Ancestors(l) ==
  LET up[n \in SCCs] ==
        LET p == {e[1] : e \in {f \in Edges(l) : f[2] = n}}
        IN  p \cup UNION {up[d] : d \in p}
  IN  up

canBeCloned(l, n) ==
  \/ l.kind[n] = "terminators"
  \/ l.kind[n] = "stateless" /\ \E e \in Edges(l) : e[1] = n

Clonable(l) == {n \in SCCs : canBeCloned(l, n)}

Partitioned(l) == SCCs \ Clonable(l)

\* The sets NOELLE's partitioner ends up with, numbered in depth order: an
\* SCC never is in an earlier set than an SCC it depends on.
Partitions(l) ==
  LET nodes == Partitioned(l)
      ancestors == Ancestors(l)
  IN  {p \in [nodes -> 1 .. Cardinality(nodes)] :
         /\ \E k \in 1 .. N : {p[n] : n \in nodes} = 1 .. k
         /\ \A n \in nodes : \A d \in ancestors[n] \cap nodes : p[d] <= p[n]}

-----------------------------------------------------------------------------
(***************************************************************************)
(* Stages                                                                  *)
(***************************************************************************)

Stages == {sccToStage[n] : n \in DOMAIN sccToStage}

stageSCCs(s) == {n \in DOMAIN sccToStage : sccToStage[n] = s}

\* The SCCs whose instructions are cloned into the task of stage s.
Body(s) == stageSCCs(s) \cup clonableSCCs[s]

Init ==
  /\ loop \in Loops
  /\ step = "partition"
  /\ sccToStage = <<>>
  /\ clonableSCCs = [s \in SCCs |-> {}]
  /\ uses = {}

\* A pipeline of one stage is given up unless parallelization is forced.
GenerateStagesFromPartitionedSCCs ==
  /\ step = "partition"
  /\ \E p \in Partitions(loop) :
       /\ sccToStage' = p
       /\ step' = IF ~forceParallelization /\ \A n \in DOMAIN p : p[n] = 1
                  THEN "rejected" ELSE "clone"
  /\ UNCHANGED <<loop, clonableSCCs, uses>>

\* Mutant: the search for clonable SCCs stops at SCCs of other stages.
AddClonableSCCsToStages_Direct ==
  /\ step = "clone"
  /\ clonableSCCs' =
       [s \in SCCs |-> {c \in Clonable(loop) :
                          \E n \in stageSCCs(s) : <<c, n>> \in Edges(loop)}]
  /\ step' = "data"
  /\ UNCHANGED <<loop, sccToStage, uses>>

\* The clonable SCCs a stage depends on, those behind SCCs of other stages
\* included.
AddClonableSCCsToStages ==
  /\ step = "clone"
  /\ clonableSCCs' =
       LET ancestors == Ancestors(loop)
       IN  [s \in SCCs |-> {c \in Clonable(loop) :
                              \E n \in stageSCCs(s) : c \in ancestors[n]}]
  /\ step' = "data"
  /\ UNCHANGED <<loop, sccToStage, uses>>

-----------------------------------------------------------------------------
(***************************************************************************)
(* Queues                                                                  *)
(***************************************************************************)

\* registerQueue has one queue for a producer and two stages, however many
\* consumers there are.
registerQueue(from, to, producer, consumer) ==
  [queue |-> [producer |-> producer, from |-> from, to |-> to],
   consumer |-> consumer]

Queues == {u.queue : u \in uses}

popValueQueues(s) == {q \in Queues : q.to = s}
pushValueQueues(s) == {q \in Queues : q.from = s}

\* Mutant: only the SCCs a stage owns get queues, not their clones.
CollectDataQueueInfo_OwnSCCs ==
  /\ step = "data"
  /\ uses' = uses \cup
       UNION {{registerQueue(sccToStage[e[1]], s, e[1], e[2]) :
                 e \in {d \in loop.data : /\ d[2] \in stageSCCs(s)
                                         /\ d[1] \in Partitioned(loop) \ stageSCCs(s)}} :
              s \in Stages}
  /\ step' = "control"
  /\ UNCHANGED <<loop, sccToStage, clonableSCCs>>

\* A queue for every value that the body of a stage uses and another stage
\* produces.
CollectDataQueueInfo ==
  /\ step = "data"
  /\ uses' = uses \cup
       UNION {{registerQueue(sccToStage[e[1]], s, e[1], e[2]) :
                 e \in {d \in loop.data : /\ d[2] \in Body(s)
                                         /\ d[1] \in Partitioned(loop) \ stageSCCs(s)}} :
              s \in Stages}
  /\ step' = "control"
  /\ UNCHANGED <<loop, sccToStage, clonableSCCs>>

\* The branches that decide on a value and are not cloned.
ConditionalBranches ==
  {b \in loop.branch \cap Partitioned(loop) :
     \E n \in SCCs \ {Exit} : loop.parent[n] = b}

\* A branch that is not cloned decides on a value that is not cloned, as the
\* assertion of collectControlQueueInfo says.
SendableConditions(l) ==
  \A b \in l.branch : ~canBeCloned(l, b) => ~canBeCloned(l, l.cond[b])

\* conditionsOfConditionalBranch: conditions that are cloned are left out.
Conditions(b) == {loop.cond[b]} \cap Partitioned(loop)

\* collectTransitivelyControlledTasks
TransitivelyControlledTasks(b) ==
  LET ancestors == Ancestors(loop)
  IN  {sccToStage[n] : n \in {m \in Partitioned(loop) : b \in ancestors[m]}}

\* Every task executes the loop's exit test.
ControlledTasks(b) ==
  (IF b = Exit THEN Stages ELSE TransitivelyControlledTasks(b))
    \ {sccToStage[b]}

\* Mutant: every task gets the condition of every branch.
CollectControlQueueInfo_AllTasks ==
  /\ step = "control"
  /\ uses' = uses \cup
       UNION {{registerQueue(sccToStage[b], s, c, b) :
                 c \in Conditions(b), s \in Stages \ {sccToStage[b]}} :
              b \in ConditionalBranches}
  /\ step' = "done"
  /\ UNCHANGED <<loop, sccToStage, clonableSCCs>>

\* The stage of a branch sends its condition, which it may itself have got
\* from an earlier stage, to the tasks the branch controls.
CollectControlQueueInfo ==
  /\ step = "control"
  /\ uses' = uses \cup
       UNION {{registerQueue(sccToStage[b], s, c, b) :
                 c \in Conditions(b), s \in ControlledTasks(b)} :
              b \in ConditionalBranches}
  /\ step' = "done"
  /\ UNCHANGED <<loop, sccToStage, clonableSCCs>>

Terminated == step \in {"rejected", "done"} /\ UNCHANGED pipelineVars

Compile ==
  \/ GenerateStagesFromPartitionedSCCs
  \/ AddClonableSCCsToStages
  \/ CollectDataQueueInfo
  \/ CollectControlQueueInfo

Next == Compile \/ Terminated

Spec == Init /\ [][Next]_pipelineVars

-----------------------------------------------------------------------------
(***************************************************************************)
(* The code of a stage                                                     *)
(***************************************************************************)

\* The values at hand in the task of stage s: cloned or popped.
Available(s) == Body(s) \cup {q.producer : q \in popValueQueues(s)}

\* Mutant: only the branches of the stage's own SCCs and clones.
HasBranch_OwnOnly(s, b) == b \in Body(s)

\* generateLoopSubsetForStage: a task has the branches of its body and those
\* that consume one of its queues.  It jumps over the region of any other.
HasBranch(s, b) ==
  \/ b \in Body(s)
  \/ \E u \in uses : u.queue.to = s /\ u.consumer = b

\* collectLiveOutEnvInfo: the tasks that store the value of SCC n when it is
\* used after the loop.
LiveOutTasks(n) ==
  IF canBeCloned(loop, n)
  THEN {s \in Stages : /\ n \in clonableSCCs[s]
                       /\ \A t \in 1 .. s - 1 : n \notin clonableSCCs[t]}
  ELSE {sccToStage[n]}

-----------------------------------------------------------------------------
(***************************************************************************)
(* Properties                                                              *)
(***************************************************************************)

\* The types of the compiler's tables (DSWP.hpp, DSWPTask.hpp).
TypeOK ==
  /\ loop \in LoopType
  /\ step \in {"partition", "clone", "data", "control", "done", "rejected"}
  /\ DOMAIN sccToStage \subseteq Partitioned(loop)
  /\ \A n \in DOMAIN sccToStage : sccToStage[n] \in SCCs
  /\ clonableSCCs \in [SCCs -> SUBSET SCCs]
  /\ \A u \in uses : /\ u.queue.producer \in SCCs /\ u.consumer \in SCCs
                     /\ u.queue.from \in Stages /\ u.queue.to \in Stages

\* No queue leads back to an earlier stage or to the same one: what
\* areQueuesAcyclical is to check.  Stages wait for their queues, so that a
\* cycle of queues is a cycle of stages that wait for each other.
QueuesGoForward == \A q \in Queues : q.from < q.to

\* The task of a stage has every operand of the instructions it holds, the
\* clones included, and every value it has to push.
OperandsAvailable ==
  step = "done" => \A s \in Stages :
    /\ \A e \in loop.data : e[2] \in Body(s) => e[1] \in Available(s)
    /\ \A q \in pushValueQueues(s) : q.producer \in Available(s)

\* A task executes the same blocks as the sequential loop as far as it has
\* something to do in them: for each instruction it holds and each value it
\* pops, it has the branches around it and what they decide on.  Without them
\* a stage would pop more or less often than its producer pushes.  In
\* particular every task has the loop's exit test.
ControlAvailable ==
  step = "done" =>
    LET controllers == Controllers(loop)
    IN  \A s \in Stages : \A n \in Available(s) : \A b \in controllers[n] :
          HasBranch(s, b) /\ loop.cond[b] \in Available(s)

\* collectLiveOutEnvInfo: one task stores a value that is live out of the loop,
\* if it is not clonable the task of its stage, and else the first task that
\* clones its producer.
LiveOutsStored ==
  step = "done" =>
    \A n \in SCCs \ loop.branch : Cardinality(LiveOutTasks(n)) = 1
=============================================================================
