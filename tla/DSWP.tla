-------------------------------- MODULE DSWP --------------------------------
(***************************************************************************)
(* A pipeline that DSWP has built, executed by NOELLE_DSWPDispatcher: the  *)
(* stages are submitted to VIRGIL, workers execute them, and they talk to  *)
(* each other over thread-safe queues.                                     *)
(*                                                                         *)
(* A value is the number of the iteration it belongs to.  A task is at a   *)
(* position of the loop, an SCC; it pops at the start of the block of the  *)
(* producer and pushes right after the producer.                           *)
(***************************************************************************)
EXTENDS DSWPPipeline, Sequences

CONSTANTS
  RunLoops,     \* the loops whose pipelines are executed, not only compiled
  Workers,      \* threads of VIRGIL
  MaxIterations \* bound on the iterations of the loop

ASSUME DSWPAssumption ==
  RunLoops \subseteq Loops /\ Workers \in Nat \ {0} /\ MaxIterations \in Nat

VARIABLES
  trip,     \* iterations of the loop
  taken,    \* the iterations in which a branch enters its region
  pc,       \* where the dispatcher is
  i,        \* the loop counter of the dispatcher
  pool,     \* VIRGIL's queue of submitted stages
  status,   \* of each stage
  position, \* the SCC the task of a stage is at
  iter,     \* the iteration it is in
  todo,     \* the queues it still has to pop in the block it is in
  value,    \* its copies of the values of SCCs; 0 before the first
  contents, \* the contents of each queue
  executed  \* the instances of SCCs that are not cloned that were executed

pipelineRun == <<trip, taken, pc, i, pool, status, position, iter, todo,
                 value, contents, executed>>

-----------------------------------------------------------------------------

\* The SCCs in the region of branch b are the ones that follow it.
AfterRegion(b) ==
  b + 1 + Cardinality({n \in SCCs : b \in Controllers(loop)[n]})

\* A block ends with a branch or where a region ends.
BlockOf(n) ==
  CHOOSE m \in 1 .. n :
    /\ \A k \in m .. n : loop.parent[k] = loop.parent[n]
                         /\ (k < n => k \notin loop.branch)
    /\ m > 1 => \/ loop.parent[m - 1] # loop.parent[n]
                \/ m - 1 \in loop.branch

\* Mutant: values are popped when an iteration starts.
PopsAt_Header(s, n) ==
  {q \in popValueQueues(s) : n = Exit}

\* popValueQueues pops in the clone of the producer's block.
PopsAt(s, n) == {q \in popValueQueues(s) : n = BlockOf(q.producer)}

Outcome(b, v) == IF b = Exit THEN v <= trip ELSE v \in taken[b]

\* The sequential loop executes SCC n in iteration k.
Sequentially(n, k) ==
  \A b \in Controllers(loop)[n] : Outcome(b, k)

RunInit ==
  /\ Init
  /\ trip \in IF loop \in RunLoops THEN 0 .. MaxIterations ELSE {0}
  /\ taken \in [loop.branch \ {Exit} -> SUBSET (1 .. trip)]
  /\ pc = "compile" /\ i = 1
  /\ pool = <<>>
  /\ status = [s \in SCCs |-> "unborn"]
  /\ position = [s \in SCCs |-> Exit]
  /\ iter = [s \in SCCs |-> 1]
  /\ todo = [s \in SCCs |-> {}]
  /\ value = [s \in SCCs |-> [n \in SCCs |-> 0]]
  /\ contents = <<>>
  /\ executed = {}

-----------------------------------------------------------------------------
(***************************************************************************)
(* The dispatcher                                                          *)
(***************************************************************************)

\* The call reserves cores (NoelleRuntime), but submits every stage however
\* many it is granted.
Dispatch ==
  /\ step = "done" /\ pc = "compile" /\ loop \in RunLoops
  /\ pc' = "submit"
  /\ contents' = [q \in Queues |-> <<>>]
  /\ UNCHANGED <<trip, taken, i, pool, status, position, iter, todo, value,
                 executed>>

\* Mutant: the last stage is submitted first.
Submit_Backwards ==
  /\ pc = "submit"
  /\ LET s == Cardinality(Stages) + 1 - i IN
       /\ pool' = Append(pool, s)
       /\ status' = [status EXCEPT ![s] = "submitted"]
  /\ IF i = Cardinality(Stages) THEN pc' = "join" /\ i' = 1
                                ELSE pc' = pc /\ i' = i + 1
  /\ UNCHANGED <<trip, taken, position, iter, todo, value, contents, executed>>

Submit ==
  /\ pc = "submit"
  /\ pool' = Append(pool, i)
  /\ status' = [status EXCEPT ![i] = "submitted"]
  /\ IF i = Cardinality(Stages) THEN pc' = "join" /\ i' = 1
                                ELSE pc' = pc /\ i' = i + 1
  /\ UNCHANGED <<trip, taken, position, iter, todo, value, contents, executed>>

\* Mutant: only the first stage's end is awaited.
Join_First ==
  /\ pc = "join"
  /\ status[i] = "ended"
  /\ pc' = "free" /\ i' = i
  /\ UNCHANGED <<trip, taken, pool, status, position, iter, todo, value,
                 contents, executed>>

\* The endLock of stage i is free once the trampoline unlocked it.
Join ==
  /\ pc = "join"
  /\ status[i] = "ended"
  /\ IF i = Cardinality(Stages) THEN pc' = "free" /\ i' = i
                                ELSE pc' = pc /\ i' = i + 1
  /\ UNCHANGED <<trip, taken, pool, status, position, iter, todo, value,
                 contents, executed>>

\* The cores are released and the queues deleted with what is in them.
FreeQueues ==
  /\ pc = "free"
  /\ pc' = "returned"
  /\ contents' = <<>>
  /\ UNCHANGED <<trip, taken, i, pool, status, position, iter, todo, value,
                 executed>>

-----------------------------------------------------------------------------
(***************************************************************************)
(* Workers and stages                                                      *)
(***************************************************************************)

Running(s) == status[s] = "running"

\* A worker that is idle takes the oldest task.
Start ==
  /\ pool # <<>>
  /\ Cardinality({s \in Stages : Running(s)}) < Workers
  /\ pool' = Tail(pool)
  /\ status' = [status EXCEPT ![Head(pool)] = "running"]
  /\ todo' = [todo EXCEPT ![Head(pool)] = PopsAt(Head(pool), Exit)]
  /\ UNCHANGED <<trip, taken, pc, i, position, iter, value, contents, executed>>

\* The queues after the task of stage s pushed value v of SCC n.
Pushed(s, n, v, c) ==
  [q \in DOMAIN c |->
     IF q.from = s /\ q.producer = n THEN Append(c[q], v) ELSE c[q]]

\* queuePop waits until there is a value.  When a task gets the same value
\* over several queues, the load that it uses, and relays to other stages, is
\* the one inserted last, which is in front of the others.
Pop(s) ==
  /\ Running(s)
  /\ \E q \in todo[s] :
       /\ contents[q] # <<>>
       /\ LET v == Head(contents[q])
              rest == [contents EXCEPT ![q] = Tail(contents[q])]
              isFirst == \A r \in PopsAt(s, position[s]) \ todo[s] :
                           r.producer # q.producer
          IN  IF isFirst
              THEN /\ value' = [value EXCEPT ![s][q.producer] = v]
                   /\ contents' = Pushed(s, q.producer, v, rest)
              ELSE contents' = rest /\ UNCHANGED value
       /\ todo' = [todo EXCEPT ![s] = @ \ {q}]
  /\ UNCHANGED <<trip, taken, pc, i, pool, status, position, iter, executed>>

\* Mutant: the latch does not lead back to the header.
Goto_NoLatch(s, n) ==
  /\ position' = [position EXCEPT ![s] = n]
  /\ iter' = iter
  /\ todo' = [todo EXCEPT ![s] = {}]

\* The task goes to SCC n, or to the next iteration behind the last one.
Goto(s, n) ==
  LET m == IF n > N THEN Exit ELSE n IN
    /\ position' = [position EXCEPT ![s] = m]
    /\ iter' = [iter EXCEPT ![s] = IF n > N THEN @ + 1 ELSE @]
    /\ todo' = [todo EXCEPT ![s] = PopsAt(s, m)]

\* A branch that the task does not have is replaced by a jump behind its
\* region.
Follow(s, n, v) ==
  IF n \in loop.branch /\ ~(HasBranch(s, n) /\ Outcome(n, v[loop.cond[n]]))
  THEN AfterRegion(n) ELSE n + 1

\* The task executes what it has of SCC n, pushes the value if another stage
\* waits for it, and follows the control flow; the trampoline unlocks endLock
\* when the loop's exit is taken.
Execute(s) ==
  /\ Running(s) /\ todo[s] = {}
  /\ LET n == position[s]
         own == n \in Body(s)
         v == IF own THEN [value[s] EXCEPT ![n] = iter[s]] ELSE value[s]
     IN  /\ value' = [value EXCEPT ![s] = v]
         /\ contents' = IF own THEN Pushed(s, n, v[n], contents) ELSE contents
         /\ executed' = IF n \in stageSCCs(s) THEN executed \cup {<<n, iter[s]>>}
                                              ELSE executed
         /\ IF n = Exit /\ ~Outcome(Exit, v[Exit])
            THEN /\ status' = [status EXCEPT ![s] = "ended"]
                 /\ UNCHANGED <<position, iter, todo>>
            ELSE Goto(s, Follow(s, n, v)) /\ UNCHANGED status
  /\ UNCHANGED <<trip, taken, pc, i, pool>>

Finished ==
  \/ pc = "returned" \/ step = "rejected"
  \/ step = "done" /\ loop \notin RunLoops

RunNext ==
  \/ Compile /\ UNCHANGED pipelineRun
  \/ /\ \/ Dispatch \/ Submit \/ Join \/ FreeQueues \/ Start
        \/ \E s \in SCCs : Pop(s) \/ Execute(s)
     /\ UNCHANGED pipelineVars
  \/ Finished /\ UNCHANGED <<pipelineVars, pipelineRun>>

RunSpec == RunInit /\ [][RunNext]_<<pipelineVars, pipelineRun>>

\* The compiler finishes, no thread is stopped for ever, and the workers of
\* VIRGIL take tasks while there are any.
FairRunSpec ==
  /\ RunSpec
  /\ WF_<<pipelineVars, pipelineRun>>(Compile /\ UNCHANGED pipelineRun)
  /\ WF_<<pipelineVars, pipelineRun>>((Dispatch \/ Submit \/ Join \/ FreeQueues)
                                      /\ UNCHANGED pipelineVars)
  /\ WF_<<pipelineVars, pipelineRun>>(Start /\ UNCHANGED pipelineVars)
  /\ \A s \in SCCs : WF_<<pipelineVars, pipelineRun>>((Pop(s) \/ Execute(s))
                                                       /\ UNCHANGED pipelineVars)

-----------------------------------------------------------------------------
(***************************************************************************)
(* Properties                                                              *)
(***************************************************************************)

\* The types of the compiler's tables and of the run's state.
RunTypeOK ==
  /\ TypeOK
  /\ trip \in 0 .. MaxIterations
  /\ pc \in {"compile", "submit", "join", "free", "returned"} /\ i \in SCCs
  /\ status \in [SCCs -> {"unborn", "submitted", "running", "ended"}]
  /\ position \in [SCCs -> SCCs] /\ iter \in [SCCs -> 1 .. MaxIterations + 1]
  /\ value \in [SCCs -> [SCCs -> 0 .. MaxIterations + 1]]
  /\ \A s \in SCCs : todo[s] \subseteq Queues
  /\ executed \subseteq SCCs \X (1 .. MaxIterations + 1)

\* When a stage executes an SCC, the sequential loop executes it in the same
\* iteration, and the operands are the ones of this iteration: the queues of a
\* stage never get out of step with each other or with its control flow.
RightIteration ==
  \A s \in Stages :
    LET n == position[s] IN
      Running(s) /\ todo[s] = {} /\ n \in Body(s) =>
        /\ Sequentially(n, iter[s])
        /\ \A e \in loop.data : e[2] = n /\ Sequentially(e[1], iter[s]) =>
             value[s][e[1]] = iter[s]

\* When the dispatcher deletes the queues no task can use them any more, and
\* nothing is left in them: every value pushed was popped.
QueuesDrained ==
  pc = "free" =>
    /\ \A s \in Stages : status[s] = "ended"
    /\ \A q \in Queues : contents[q] = <<>>

\* When the dispatcher returns, the stages together have executed what the
\* sequential loop executes.
EverythingExecuted ==
  pc = "returned" =>
    executed = {x \in Partitioned(loop) \X (1 .. trip + 1) :
                  Sequentially(x[1], x[2])}

\* The pipeline ends, even with fewer workers than stages: the stages that
\* wait for a worker were submitted after the ones they depend on.
PipelineReturns == <>Finished
=============================================================================
