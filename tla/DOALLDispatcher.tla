--------------------------- MODULE DOALLDispatcher ---------------------------
(***************************************************************************)
(* NOELLE_DOALLDispatcher, NOELLE_DOALLTrampoline and the pool of argument *)
(* blocks (getDOALLArgs, releaseDOALLArgs) of Gino's runtime.              *)
(*                                                                         *)
(* Several calls of the dispatcher are alive at the same time: the threads *)
(* of the application make some, and the tasks of a parallelized loop make *)
(* others when the loop's body reaches another parallelized loop.  They    *)
(* share the idle cores, the blocks and the workers of VIRGIL.             *)
(*                                                                         *)
(* An action is a critical section, a submission, or a stretch of code that*)
(* only touches memory of its own call.                                    *)
(***************************************************************************)
EXTENDS Integers, Sequences, FiniteSets

CONSTANTS
  Calls,            \* dynamic executions of DOALL loops
  Main,             \* the parent of a call an application thread makes
  Parent,           \* the call whose loop body makes the call, or Main
  Iteration,        \* the iteration of the parent that makes the call
  maxNumberOfCores, \* the dispatcher's argument, for each call
  maxCores,         \* cores of the runtime, and workers of VIRGIL
  MinIdleCores,     \* DOALL::getMinimumNumberOfIdleCores
  UIntModulus       \* number of values of uint32_t

ASSUME DispatcherAssumption ==
  /\ IsFiniteSet(Calls) /\ Main \notin Calls
  /\ Parent \in [Calls -> Calls \cup {Main}]
  /\ Iteration \in [Calls -> Nat]
  /\ maxNumberOfCores \in [Calls -> Nat \ {0}]
  /\ maxCores \in Nat \ {0} /\ MinIdleCores \in Nat /\ UIntModulus \in Nat \ {0}

VARIABLES
  idleCores, \* NOELLE_idleCores
  pc,        \* where each call is
  numCores,  \* numCores of each dispatcher frame
  memory,    \* doallMemory, doallMemorySizes and doallMemoryAvailability
  index,     \* doallMemoryIndex of each dispatcher frame
  next,      \* the loop counter i of each dispatcher frame
  queue,     \* VIRGIL's queue: pointers to the arguments of submitted tasks
  running,   \* the tasks VIRGIL's workers execute
  ran        \* how often each task of each call has been executed

vars == <<idleCores, pc, numCores, memory, index, next, queue, running, ran>>

-----------------------------------------------------------------------------

CoreIDs == UNION {0 .. maxNumberOfCores[c] - 1 : c \in Calls}

\* A block of arguments: one DOALL_args_t per task that is submitted.  loop
\* stands for parallelizedLoop, env and chunkSize, which are the call's.
Args == [loop : Calls \cup {Main}, coreID : CoreIDs \cup {-1},
         numCores : Nat, locked : BOOLEAN]

\* What posix_memalign returns: nothing is initialized.
RawArgs == [loop |-> Main, coreID |-> -1, numCores |-> 0, locked |-> FALSE]

\* The pointer &argsForAllCores[i].
Pointer(c, i) == [block |-> index[c], slot |-> i]

\* The steps in which a dispatcher holds cores of the runtime.
Holding == {"getArgs", "initArgs", "fork", "runOwn", "join", "releaseCores"}

\* The accounting of cores, as the dispatchers use it.
Cores == INSTANCE NoelleRuntime WITH
  Requests <- {maxNumberOfCores[c] : c \in Calls},
  reserved <- [c \in Calls |-> IF pc[c] \in Holding THEN numCores[c] ELSE 0],
  phase <- [c \in Calls |-> CASE pc[c] \in Holding -> "reserved"
                              [] pc[c] = "releaseArgs" -> "returned"
                              [] OTHER -> pc[c]]

-----------------------------------------------------------------------------

\* The task of the parent that executes the iteration call c is made in, and
\* the calls that are made by the same thread before c.
HostTask(c) == Iteration[c] % numCores[Parent[c]]

Before(c) ==
  {d \in Calls : /\ Parent[d] = Parent[c]
                 /\ Iteration[d] < Iteration[c]
                 /\ pc[Parent[c]] = "sequential" \/ HostTask(d) = HostTask(c)}

\* Task k of call p is being executed.
Executing(p, k) ==
  \/ \E t \in running : t.loop = p /\ t.coreID = k
  \/ pc[p] = "runOwn" /\ k = numCores[p] - 1

\* The program reaches call c.
Reached(c) ==
  \/ Parent[c] = Main
  \/ /\ Parent[c] # Main
     /\ pc[Parent[c]] = "sequential" \/ Executing(Parent[c], HostTask(c))
     /\ \A d \in Before(c) : pc[d] = "returned"

\* Every call the body of task k of call p makes has returned.
BodyIsOver(p, k) ==
  \A d \in Calls : Parent[d] = p /\ HostTask(d) = k => pc[d] = "returned"

Goto(c, label) == pc' = [pc EXCEPT ![c] = label]

-----------------------------------------------------------------------------

Init ==
  /\ idleCores = maxCores
  /\ pc = [c \in Calls |-> "outside"]
  /\ numCores = [c \in Calls |-> 1]
  /\ memory = <<>>
  /\ index = [c \in Calls |-> 0]
  /\ next = [c \in Calls |-> 0]
  /\ queue = <<>>
  /\ running = {}
  /\ ran = [c \in Calls |-> [k \in CoreIDs |-> 0]]

\* Mutant: the parallel version is taken whatever the number of idle cores.
ChooseVersion_Unguarded(c) ==
  /\ pc[c] = "outside" /\ Reached(c)
  /\ Goto(c, "parallel")
  /\ UNCHANGED <<idleCores, numCores, memory, index, next, queue, running, ran>>

\* The guard the linker puts in front of the loop.
ChooseVersion(c) ==
  /\ pc[c] = "outside" /\ Reached(c)
  /\ Goto(c, IF Cores!AvailableCores >= MinIdleCores THEN "parallel"
                                                     ELSE "sequential")
  /\ UNCHANGED <<idleCores, numCores, memory, index, next, queue, running, ran>>

\* The original loop runs to its end.
RunSequential(c) ==
  /\ pc[c] = "sequential"
  /\ \A d \in Calls : Parent[d] = c => pc[d] = "returned"
  /\ Goto(c, "returned")
  /\ UNCHANGED <<idleCores, numCores, memory, index, next, queue, running, ran>>

\* Mutant: a call that finds no idle core reserves none.
ReserveCores_NoMinimum(c) ==
  /\ pc[c] = "parallel"
  /\ numCores' = [numCores EXCEPT ![c] = IF idleCores >= maxNumberOfCores[c]
                                         THEN maxNumberOfCores[c] ELSE idleCores]
  /\ idleCores' = idleCores - numCores'[c]
  /\ Goto(c, "getArgs")
  /\ UNCHANGED <<memory, index, next, queue, running, ran>>

\* reserveCores, with the arithmetic of NoelleRuntime.
ReserveCores(c) ==
  /\ pc[c] = "parallel"
  /\ numCores' = [numCores EXCEPT ![c] = Cores!Granted(maxNumberOfCores[c])]
  /\ idleCores' = idleCores - numCores'[c]
  /\ Goto(c, "getArgs")
  /\ UNCHANGED <<memory, index, next, queue, running, ran>>

\* Mutant: a block is taken without a look at its availability.
Reusable_InUse(cores) == {i \in DOMAIN memory : memory[i].size >= cores}

\* The blocks getDOALLArgs may return again.
Reusable(cores) ==
  {i \in DOMAIN memory : memory[i].available /\ memory[i].size >= cores}

\* The critical section of getDOALLArgs: the first block that fits, or a new
\* one, which is initialized after the lock has been released.
GetDOALLArgs(c) ==
  LET cores == numCores[c] - 1
      reuse == Reusable(cores)
      first == CHOOSE i \in reuse : \A j \in reuse : i <= j
      block == [size |-> cores, available |-> FALSE,
                args |-> [i \in 0 .. cores - 1 |-> RawArgs]]
  IN
  /\ pc[c] = "getArgs"
  /\ \/ /\ reuse # {}
        /\ memory' = [memory EXCEPT ![first].available = FALSE]
        /\ index' = [index EXCEPT ![c] = first]
        /\ Goto(c, "fork")
     \/ /\ reuse = {}
        /\ memory' = Append(memory, block)
        /\ index' = [index EXCEPT ![c] = Len(memory) + 1]
        /\ Goto(c, "initArgs")
  /\ UNCHANGED <<idleCores, numCores, next, queue, running, ran>>

\* The rest of getDOALLArgs: every endLock of a new block is left locked.
InitializeArgs(c) ==
  /\ pc[c] = "initArgs"
  /\ memory' = [memory EXCEPT ![index[c]].args =
                  [i \in DOMAIN @ |-> [@[i] EXCEPT !.coreID = i,
                                                   !.locked = TRUE]]]
  /\ Goto(c, "fork")
  /\ UNCHANGED <<idleCores, numCores, index, next, queue, running, ran>>

\* One iteration of the loop that launches the tasks.
SubmitTask(c) ==
  /\ pc[c] = "fork" /\ next[c] < numCores[c] - 1
  /\ memory' = [memory EXCEPT ![index[c]].args[next[c]].loop = c,
                              ![index[c]].args[next[c]].numCores = numCores[c]]
  /\ queue' = Append(queue, Pointer(c, next[c]))
  /\ next' = [next EXCEPT ![c] = @ + 1]
  /\ UNCHANGED <<idleCores, pc, numCores, index, running, ran>>

\* The dispatcher starts the last task on its own thread.
StartOwnTask(c) ==
  /\ pc[c] = "fork" /\ next[c] = numCores[c] - 1
  /\ Goto(c, "runOwn")
  /\ UNCHANGED <<idleCores, numCores, memory, index, next, queue, running, ran>>

\* Mutant: the dispatcher's own task takes the identifier of a submitted one.
EndOwnTask_CoreID(c) ==
  /\ pc[c] = "runOwn" /\ BodyIsOver(c, numCores[c] - 1)
  /\ ran' = [ran EXCEPT ![c][0] = @ + 1]
  /\ next' = [next EXCEPT ![c] = 0]
  /\ Goto(c, "join")
  /\ UNCHANGED <<idleCores, numCores, memory, index, queue, running>>

\* The dispatcher's own task, number numCores - 1, returns.
EndOwnTask(c) ==
  /\ pc[c] = "runOwn" /\ BodyIsOver(c, numCores[c] - 1)
  /\ ran' = [ran EXCEPT ![c][numCores[c] - 1] = @ + 1]
  /\ next' = [next EXCEPT ![c] = 0]
  /\ Goto(c, "join")
  /\ UNCHANGED <<idleCores, numCores, memory, index, queue, running>>

\* VIRGIL: an idle worker takes the oldest task, and the trampoline reads the
\* arguments the pointer refers to.
StartTask ==
  /\ queue # <<>> /\ Cardinality(running) < maxCores
  /\ LET p == Head(queue)
         a == memory[p.block].args[p.slot]
     IN  running' = running \cup {[pointer |-> p, loop |-> a.loop,
                                   coreID |-> a.coreID, numCores |-> a.numCores]}
  /\ queue' = Tail(queue)
  /\ UNCHANGED <<idleCores, pc, numCores, memory, index, next, ran>>

\* The task returns to the trampoline, which unlocks endLock.
EndTask(t) ==
  /\ t \in running /\ BodyIsOver(t.loop, t.coreID)
  /\ running' = running \ {t}
  /\ ran' = [ran EXCEPT ![t.loop][t.coreID] = @ + 1]
  /\ memory' = [memory EXCEPT ![t.pointer.block].args[t.pointer.slot].locked = FALSE]
  /\ UNCHANGED <<idleCores, pc, numCores, index, next, queue>>

\* Mutant: the join looks at the locks but does not take them.
JoinTask_OnlyLooks(c) ==
  /\ pc[c] = "join" /\ next[c] < numCores[c] - 1
  /\ ~ memory[index[c]].args[next[c]].locked
  /\ next' = [next EXCEPT ![c] = @ + 1]
  /\ UNCHANGED <<idleCores, pc, numCores, memory, index, queue, running, ran>>

\* The dispatcher locks the endLock of one task.  The lock stays locked, for
\* the next call that uses the block.
JoinTask(c) ==
  /\ pc[c] = "join" /\ next[c] < numCores[c] - 1
  /\ ~ memory[index[c]].args[next[c]].locked
  /\ memory' = [memory EXCEPT ![index[c]].args[next[c]].locked = TRUE]
  /\ next' = [next EXCEPT ![c] = @ + 1]
  /\ UNCHANGED <<idleCores, pc, numCores, index, queue, running, ran>>

JoinedAll(c) ==
  /\ pc[c] = "join" /\ next[c] = numCores[c] - 1
  /\ Goto(c, "releaseCores")
  /\ UNCHANGED <<idleCores, numCores, memory, index, next, queue, running, ran>>

\* Mutant: the cores of the tasks are given back, the dispatcher's is not.
ReleaseCores_ButOne(c) ==
  /\ pc[c] = "releaseCores"
  /\ idleCores' = idleCores + numCores[c] - 1
  /\ Goto(c, "releaseArgs")
  /\ UNCHANGED <<numCores, memory, index, next, queue, running, ran>>

\* releaseCores, after the join.
ReleaseCores(c) ==
  /\ pc[c] = "releaseCores"
  /\ idleCores' = idleCores + numCores[c]
  /\ Goto(c, "releaseArgs")
  /\ UNCHANGED <<numCores, memory, index, next, queue, running, ran>>

\* releaseDOALLArgs: the last thing the dispatcher does.
ReleaseDOALLArgs(c) ==
  /\ pc[c] = "releaseArgs"
  /\ memory' = [memory EXCEPT ![index[c]].available = TRUE]
  /\ Goto(c, "returned")
  /\ UNCHANGED <<idleCores, numCores, index, next, queue, running, ran>>

Dispatcher(c) ==
  \/ ChooseVersion(c) \/ RunSequential(c)
  \/ ReserveCores(c) \/ GetDOALLArgs(c) \/ InitializeArgs(c)
  \/ SubmitTask(c) \/ StartOwnTask(c) \/ EndOwnTask(c)
  \/ JoinTask(c) \/ JoinedAll(c)
  \/ ReleaseCores(c) \/ ReleaseDOALLArgs(c)

\* Every call the program reaches has returned.
Quiescent == \A c \in Calls : pc[c] = "returned"

Terminated == Quiescent /\ UNCHANGED vars

Next ==
  \/ \E c \in Calls : Dispatcher(c)
  \/ StartTask
  \/ \E t \in running : EndTask(t)
  \/ Terminated

\* Threads are scheduled by the operating system: none stops for ever while it
\* can go on.  endLock has one waiter, so weak fairness is enough.
Fairness ==
  /\ \A c \in Calls : WF_vars(Dispatcher(c))
  /\ WF_vars(StartTask)
  /\ WF_vars(\E t \in running : EndTask(t))

Spec == Init /\ [][Next]_vars

FairSpec == Spec /\ Fairness

-----------------------------------------------------------------------------

Labels == {"outside", "parallel", "sequential", "releaseArgs", "returned"} \cup Holding

\* Every variable has the type of its counterpart in the runtime.
TypeOK ==
  /\ idleCores \in Int
  /\ pc \in [Calls -> Labels]
  /\ numCores \in [Calls -> Nat \ {0}]
  /\ \A i \in DOMAIN memory :
       /\ memory[i].size \in Nat /\ memory[i].available \in BOOLEAN
       /\ memory[i].args \in [0 .. memory[i].size - 1 -> Args]
  /\ index \in [Calls -> 0 .. Len(memory)]
  /\ next \in [Calls -> Nat]
  /\ ran \in [Calls -> [CoreIDs -> Nat]]

\* Call c owns a block from getDOALLArgs to releaseDOALLArgs.
Owns(c) == pc[c] \in {"initArgs", "fork", "runOwn", "join", "releaseCores",
                      "releaseArgs"}

\* No two calls of the dispatcher share a block of arguments, an available
\* block belongs to nobody, and the block of a call is large enough: the
\* blocks are recycled under doallMemoryLock but used without it.
BlocksNotShared ==
  \A c \in Calls : Owns(c) =>
    /\ ~ memory[index[c]].available
    /\ memory[index[c]].size >= numCores[c] - 1
    /\ \A d \in Calls \ {c} : Owns(d) => index[d] # index[c]

Pointers == {queue[i] : i \in DOMAIN queue} \cup {t.pointer : t \in running}

\* A task that waits in VIRGIL's queue or runs was submitted by a call that
\* has not joined it yet, and the arguments it reads, however late it starts,
\* are the ones that call wrote: not those of an earlier or later user of
\* the block.
NoStaleArgs ==
  \A p \in Pointers : \E c \in Calls :
    /\ pc[c] \in {"fork", "runOwn", "join"} /\ index[c] = p.block
    /\ p.slot < numCores[c] - 1
    /\ memory[p.block].args[p.slot] =
         [loop |-> c, coreID |-> p.slot, numCores |-> numCores[c], locked |-> TRUE]
    /\ \A t \in running : t.pointer = p => t.loop = c /\ t.coreID = p.slot

\* When the dispatcher has joined its tasks, each of the numCores tasks has
\* been executed exactly once: no iteration is lost and none is repeated, also
\* when the block was used before and its endLocks carry an earlier history.
JoinedMeansExecutedOnce ==
  \A c \in Calls :
    pc[c] \in {"releaseCores", "releaseArgs"} =>
      \A k \in CoreIDs : ran[c][k] = IF k < numCores[c] THEN 1 ELSE 0

\* The dispatcher uses reserveCores and releaseCores as NoelleRuntime says: no
\* core is held by a call that does not run, none is given back twice.
ImplementsCoreAccounting == Cores!Spec

\* Every loop returns.  A worker that runs a task which itself dispatches a
\* loop is blocked in the join until other workers have run the inner tasks:
\* nested loops must never occupy all the workers with joins.
EveryCallReturns == <>Quiescent
=============================================================================
