---------------------------- MODULE DOALLChunking ----------------------------
(***************************************************************************)
(* The task the DOALL compiler generates for a loop, as it executes: the   *)
(* chunks of DOALL::rewireLoopToIterateChunks, the guards against running  *)
(* past the end, the private copies of a reduction variable, the block     *)
(* that only the last iteration executes, and the reduction after the      *)
(* dispatcher has returned.                                                *)
(*                                                                         *)
(* The loop is                                                             *)
(*     for (i = Start; i != exitValue; i += Step) body(i)                  *)
(* with the test in the header and on the header's PHI.  What the header   *)
(* and the body of i add to the reduction variable is <<"header", i>> and  *)
(* <<"body", i>>; the value of the variable is the bag of what was added.  *)
(***************************************************************************)
EXTENDS Integers, FiniteSets, Sequences, Bags, Functions

CONSTANTS
  maxCores,     \* the number of task instances the code is generated for
  ChunkSizes,   \* the chunk sizes considered
  TripCounts,   \* the numbers of iterations considered
  Start, Step,  \* of the loop-governing induction variable
  Modulus       \* 2 to the number of bits of its type

ASSUME ChunkingAssumption ==
  /\ maxCores \in Nat \ {0}
  /\ ChunkSizes \subseteq Nat \ {0} /\ TripCounts \subseteq Nat
  /\ Start \in Int /\ Step \in Nat \ {0} /\ Modulus \in Nat \ {0}

VARIABLES
  numCores,    \* numTaskInstances, the number of threads the dispatcher uses
  chunkSize,
  tripCount,
  guarded,     \* requiresConditionBeforeEnteringHeader
  headerLogic, \* whether the header adds to the reduction variable
  pc,          \* where each task is
  iv,          \* the loop-governing induction variable
  chunk,       \* chunkPHI
  iterCounter,
  phi,         \* the reduction variable's header PHI
  acc,         \* its last intermediate value
  fromLatch,   \* lastIterationPHI
  slot,        \* the private copies of the reduction variable in the environment
  liveOut,     \* what was stored into the environment's copy of the induction variable
  executed,    \* the headers and bodies that were executed
  result       \* the reduction variable after the loop

loop == <<numCores, chunkSize, tripCount, guarded, headerLogic>>
locals == <<iv, chunk, iterCounter, phi, acc, fromLatch>>
vars == <<loop, pc, locals, slot, liveOut, executed, result>>

Tasks == 0 .. maxCores - 1
Launched == 0 .. numCores - 1
NoResult == EmptyBag
\* The identity of the reduction, where the private values begin.
Identity == EmptyBag
Once(x) == SetToBag({x})
Garbage == Once(<<"garbage", 0>>)
InitialValue == Once(<<"initial value", 0>>)

\* Two's complement.
Wrap(x) == ((x + Modulus \div 2) % Modulus) - Modulus \div 2

exitValue == Start + Step * tripCount

-----------------------------------------------------------------------------
(* The tests the compiler generates.                                       *)

\* The exit condition, made non-strict.
ExitsAt(v) == v >= exitValue

\* The exit condition for the iteration before the one of v.
PreviousExits(v) == ExitsAt(Wrap(v - Step))

\* The task skips what comes after its last regular iteration.
PastTheLast(v) == v # Start /\ PreviousExits(v)

\* Mutant: the size of the chunks is forgotten.
OffsetStart_NoChunks(t) == Wrap(Start + Step * t)

\* The induction variable of task t at its first iteration.
OffsetStart(t) == Wrap(Start + Step * t * chunkSize)

\* isChunkCompleted, in the latch.
ChunkIsOver(t) == chunk[t] + 1 = chunkSize

\* From the end of a task's chunk to its next one.
chunkStepSize == (numCores - 1) * chunkSize

\* The induction variable after the latch, on to the next chunk if this is over.
NextIV(t) ==
  Wrap(iv[t] + Step + (IF ChunkIsOver(t) THEN Step * chunkStepSize ELSE 0))

\* Mutant: the counter stays behind when the task goes to its next chunk.
NextIterCounter_NoChunkStep(t) == iterCounter[t] + 1

\* iterSelect: the counter moves with the induction variable.
NextIterCounter(t) ==
  iterCounter[t] + 1 + (IF ChunkIsOver(t) THEN chunkStepSize ELSE 0)

\* Mutant: the value is not that of an iteration ago.
IsLastIteration_CurrentValue(t) == ~ ExitsAt(iv[t])

\* Step 4 of the block executed only by the last iteration.
IsLastIteration(t) ==
  ~ ExitsAt(IF fromLatch[t] THEN iv[t] ELSE Wrap(iv[t] - Step))

\* Mutant: the header's last value is stored although it may be one too many.
ValueToStore_Producer(t) == acc[t]

\* The value a task stores into its private copy: the PHI if the last header
\* was executed in vain.
ValueToStore(t) ==
  IF ~ guarded /\ headerLogic /\ PastTheLast(iv[t]) THEN phi[t] ELSE acc[t]

-----------------------------------------------------------------------------

Init ==
  /\ numCores \in 1 .. maxCores
  /\ chunkSize \in ChunkSizes /\ tripCount \in TripCounts
  /\ guarded \in BOOLEAN /\ headerLogic \in BOOLEAN
  /\ pc = [t \in Tasks |-> IF t < numCores THEN "entry" ELSE "not launched"]
  /\ iv = [t \in Tasks |-> Start]
  /\ chunk = [t \in Tasks |-> 0]
  /\ iterCounter = [t \in Tasks |-> 0]
  /\ phi = [t \in Tasks |-> EmptyBag]
  /\ acc = [t \in Tasks |-> Identity]
  /\ fromLatch = [t \in Tasks |-> FALSE]
  /\ slot = [t \in Tasks |-> Garbage]
  /\ liveOut = <<>> /\ executed = EmptyBag /\ result = NoResult

\* The entry of the task: the private copy becomes the identity, the induction
\* variables are offset, and a task that has nothing to do leaves at once.
Enter(t) ==
  /\ pc[t] = "entry"
  /\ slot' = [slot EXCEPT ![t] = Identity]
  /\ iv' = [iv EXCEPT ![t] = OffsetStart(t)]
  /\ iterCounter' = [iterCounter EXCEPT ![t] = t * chunkSize]
  /\ pc' = [pc EXCEPT ![t] =
              IF guarded /\ PastTheLast(OffsetStart(t)) THEN "exit" ELSE "header"]
  /\ UNCHANGED <<loop, chunk, phi, acc, fromLatch, liveOut, executed, result>>

Header(t) ==
  /\ pc[t] = "header"
  /\ phi' = [phi EXCEPT ![t] = acc[t]]
  /\ acc' = IF headerLogic THEN [acc EXCEPT ![t] = @ (+) Once(<<"header", iv[t]>>)] ELSE acc
  /\ executed' = executed (+) Once(<<"header", iv[t]>>)
  /\ fromLatch' = [fromLatch EXCEPT ![t] = FALSE]
  /\ pc' = [pc EXCEPT ![t] = IF ExitsAt(iv[t]) THEN "last" ELSE "body"]
  /\ UNCHANGED <<loop, iv, chunk, iterCounter, slot, liveOut, result>>

\* The body and the latch, which leaves the loop if its header must not be
\* executed again.
Body(t) ==
  LET leave == guarded /\ PreviousExits(NextIV(t)) IN
  /\ pc[t] = "body"
  /\ acc' = [acc EXCEPT ![t] = @ (+) Once(<<"body", iv[t]>>)]
  /\ executed' = executed (+) Once(<<"body", iv[t]>>)
  /\ iv' = [iv EXCEPT ![t] = NextIV(t)]
  /\ chunk' = [chunk EXCEPT ![t] = IF ChunkIsOver(t) THEN 0 ELSE @ + 1]
  /\ iterCounter' = [iterCounter EXCEPT ![t] = NextIterCounter(t)]
  /\ fromLatch' = [fromLatch EXCEPT ![t] = leave]
  /\ pc' = [pc EXCEPT ![t] = IF leave THEN "last" ELSE "header"]
  /\ UNCHANGED <<loop, phi, slot, liveOut, result>>

\* The last block: the private copy is always stored, the induction variable
\* only by the task of the last iteration.
LastBlock(t) ==
  /\ pc[t] = "last"
  /\ slot' = [slot EXCEPT ![t] = ValueToStore(t)]
  /\ liveOut' = IF IsLastIteration(t) THEN Append(liveOut, iv[t]) ELSE liveOut
  /\ pc' = [pc EXCEPT ![t] = "exit"]
  /\ UNCHANGED <<loop, locals, executed, result>>

\* Mutant: the tasks the code was generated for are waited for, not those launched.
Reduce_AllTasks ==
  /\ result = NoResult
  /\ \A t \in Tasks : pc[t] = "exit"
  /\ result' = FoldFunctionOnSet((+), InitialValue, slot, Tasks)
  /\ UNCHANGED <<loop, pc, locals, slot, liveOut, executed>>

\* The code after the dispatcher: the private copies of the threads that were
\* used are reduced with the initial value.
Reduce ==
  /\ result = NoResult
  /\ \A t \in Launched : pc[t] = "exit"
  /\ result' = FoldFunctionOnSet((+), InitialValue, slot, Launched)
  /\ UNCHANGED <<loop, pc, locals, slot, liveOut, executed>>

Terminated == result # NoResult /\ UNCHANGED vars

Next ==
  \/ \E t \in Launched : Enter(t) \/ Header(t) \/ Body(t) \/ LastBlock(t)
  \/ Reduce \/ Terminated

Spec == Init /\ [][Next]_vars

\* Every launched task runs, and so does the caller once they are done.
FairSpec ==
  /\ Spec
  /\ \A t \in Tasks : WF_vars(t \in Launched /\ (Enter(t) \/ Header(t) \/ Body(t) \/ LastBlock(t)))
  /\ WF_vars(Reduce)

-----------------------------------------------------------------------------
(* The loop as it was.                                                     *)

SequentialBodies == {<<"body", Start + Step * k>> : k \in 0 .. tripCount - 1}
SequentialHeaders == {<<"header", Start + Step * k>> : k \in 0 .. tripCount}
SequentialResult ==
  InitialValue (+) SetToBag(SequentialBodies \cup (IF headerLogic THEN SequentialHeaders ELSE {}))

\* No iteration is executed twice or past the end, by whatever tasks; a header
\* with instructions that must not be repeated neither (lines 266-283, 596-703).
OnlySequentialIterations ==
  LET counted == SequentialBodies \cup (IF guarded THEN SequentialHeaders ELSE {})
      seen == {x \in BagToSet(executed) : x[1] = "body" \/ guarded}
  IN  seen \subseteq counted /\ \A x \in seen : executed[x] = 1

\* After the reduction the variable has the value of the sequential loop: every
\* iteration counts once, headers executed in vain do not count, and no private
\* copy is left uninitialized.
ReductionIsSequential == result # NoResult => result = SequentialResult

\* After the loop the induction variable has its last sequential value: exactly
\* one task, that of the last iteration, has stored it.
LiveOutIsSequential == result # NoResult => liveOut = <<exitValue>>

\* The counter periodic variables are computed from is the number of the
\* iteration in the sequential loop, and the counter of the chunk its place in the
\* chunk, whatever chunk the task is in and however the chunks are aligned.
IterCounterInStep ==
  \A t \in Launched : pc[t] \in {"header", "body"} =>
    /\ iv[t] = Start + Step * iterCounter[t]
    /\ chunk[t] = iterCounter[t] % chunkSize

\* The loop ends.
LoopEnds == <>(result # NoResult)
=============================================================================
