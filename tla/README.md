# Gino in TLA+

Gino is a parallelizing compiler for LLVM built on NOELLE, with a small runtime.
The compiler rewrites a loop into *tasks* by one of three techniques (DOALL, HELIX,
DSWP) and links the parallel version next to the sequential one; the runtime
(`src/src/core/runtime/Parallelizer_utils.cpp`) reserves cores, hands the tasks to
the VIRGIL thread pool, joins them and gives the cores back.  What can go wrong and
is hard to test is in the code that runs in parallel: the runtime itself and the
synchronization the compiler puts into the tasks.  These specifications start there,
and go on to the passes that decide what is parallelized: the inliner, the planner and
the parallelizer, whose order of work and bookkeeping across passes are just as hard to
test.

## 1. Inventory

| Component | State | Operations | Correct when |
|---|---|---|---|
| Runtime, core accounting (`NoelleRuntime`) | `NOELLE_idleCores`, `maxCores`, `spinLock` | `reserveCores`, `releaseCores`, `getAvailableCores` | cores are conserved; a call gets at least one core and no more than are available |
| Runtime, DOALL dispatcher | recycled blocks of `DOALL_args_t` with an `endLock` each, `doallMemoryLock` | `getDOALLArgs`, submit, own task, join, `releaseDOALLArgs` | blocks are not shared, tasks read their own call's arguments, every task is run once before the join ends, nested calls return |
| Runtime, HELIX dispatcher | sequential segment arrays (locks), `loopIsOverFlag`, `endLock`s | launch, own task, join, free; `HELIX_wait`, `HELIX_signal` | see the next row |
| HELIX compiler, synchronization | `ssState` per segment and task, the waits, signals and exit checks in the task | `addSynchronizations`, the stepper, the last-iteration block | every segment is executed in iteration order; live-outs are final when they are read; no core hangs |
| HELIX compiler, segments | a bit per instruction (before, inside, after a segment) | data-flow analysis, entries and exits | on every path one entry precedes and one exit follows a segment's instructions |
| DOALL compiler, chunking | induction variables, chunk counter, private copies of reductions | start offset, chunk step, exit condition, header and latch guards, last-iteration block | every iteration is executed once by one task; reductions and live-outs equal the sequential ones |
| DSWP runtime and compiler | queues between stages, stages | partition, queues, push and pop, dispatcher | stages form a pipeline, queues are balanced, no stage starves |
| ParallelizationTechnique | environment array, reduction slots | live-in stores, live-out stores, reduction over the used threads | the code after the loop sees the sequential values |
| Parallelizer driver | list of loops, modified blocks | choice of a technique, order of loops, linking | no loop is rewritten after an enclosing or enclosed one has changed its blocks; no loop is forgotten |
| Planner | loop forest, profiles, metadata of the loops | filter, DOALL tags, evaluation of savings, order of loops | the savings are the maximum over all sets of disjoint loops; the order reaches the parallelizer |
| Inliner | call graph, depth order, functions left to hoist (a file) | inlining for loop-carried dependences, hoisting of loops, repeated passes | tables stay in step with the program, recursion is not unrolled, every loop that can be hoisted is |
| Heuristics | partition of SCCs | merges by latency and size | the partition stays acyclic |
| Enablers | functions modified so far | one modification at a time, retries | – |
| Input/output, autotuner passes, tools, scripts | – | reports and filters | not state machines |

Interactions: the compiler's output calls the dispatchers; the linked loop first asks
the runtime for the available cores and takes the sequential version if they are too
few; dispatchers call the core accounting and VIRGIL; tasks call `HELIX_wait` and
`HELIX_signal`, and may call dispatchers again (nested loops).  The passes of the compiler
are separate processes: the planner speaks to the parallelizer through metadata in the
program, and the inliner to its next run through a file.

The hazards this code has are listed in `PROJECT.json`, each at its line.

## 2. Modules

| Module | Models | Composition |
|---|---|---|
| `NoelleRuntime` | core accounting, with the guard of the linked loop | abstract specification of a call for `DOALLDispatcher` |
| `DOALLDispatcher` | DOALL dispatcher, trampoline, blocks of arguments, VIRGIL's queue and workers | `INSTANCE NoelleRuntime WITH ...`; implements it |
| `SequentialSegments` | what HELIX promises of sequential segments | abstract |
| `HELIX` | HELIX dispatcher, wait, signal and the synchronized tasks of one loop | implements `SequentialSegments` |
| `SegmentFrontier` | search for the entries and exits of a sequential segment, placement of its waits and signals, one iteration over the result | supplies what `HELIX` assumes of an iteration |
| `DOALLChunking` | the task generated for a DOALL loop as it executes, and the reduction after it | the loop that `DOALLDispatcher` launches |
| `DSWPPipeline` | DSWP's partition into stages, clones, queues and live-outs | |
| `DSWP` | the pipeline as it executes under `NOELLE_DSWPDispatcher` | `EXTENDS DSWPPipeline`: the pipeline it runs is the one that module builds |
| `Planner` | the planner: filter, tags, savings, order, metadata | |
| `Parallelizer` | the parallelizer: options, order of loops, choice of a technique, modified blocks | `EXTENDS Planner`: it runs on the program that module has annotated |
| `Inliner` | the passes of the inliner up to the fixed point | |
| `NoelleRuntimeProofs`, `DOALLDispatcherProofs`, `HELIXProofs`, `SegmentFrontierProofs`, `DOALLChunkingProofs`, `DSWPProofs`, `ParallelizerProofs`, `InlinerProofs` | theorems about the module they are named after | `EXTENDS` it |
| `MC*` | instances for TLC | |

### How state and actions correspond to the code

**NoelleRuntime.**  `idleCores` is `NOELLE_idleCores`; the two critical sections on
`spinLock` are the atomic actions `ReserveCores` and `ReleaseCores`; the linked loop's
guard (`ChooseVersion`) reads `NOELLE_idleCores` in a step of its own, without the lock,
as the code does.  `Granted` keeps the mixed signed and unsigned comparison of line
1129: `int32_t` is converted to `uint32_t`, modelled by `% UIntModulus`.

**DOALLDispatcher.**  `pc[c]` walks through the statements of the dispatcher.  Each
critical section, each submission, each lock of an `endLock` is an action; code that
touches only memory of its own call is merged into a neighbouring action.  `memory`
holds the three parallel vectors of the runtime (blocks, sizes, availability).  A task
in VIRGIL's queue is a *pointer* to its arguments, which are read when the task starts,
so that a block recycled too early is seen.  `Parent` and `Iteration` say which loop body
makes which call; a nested call happens while the task of its iteration is being
executed, and that task does not end before it has returned.  Profiling and printing
under `#ifdef` are left out.

**HELIX.**  Core `c` executes iterations `c`, `c + numCores`, ...: `round[c]` counts them.
`unlocked[i][s]` is the spin lock of segment `s` in array `i`.  The body is abstracted to
the order in which it reaches the segments, which is free (`ReachEntry`); an iteration
passes through every segment once: `SegmentFrontier` shows that entries and exits cut
every path, and that some placements signal more than once, which `HELIX` leaves out.
`ss[c][s]` is `todo` until the wait (`ssState` is 0), then `in`, then `done`.  The two exit
protocols are both there: induction variable (`Header`, where each core decides for
itself) and preamble (`PreambleWait`, `ExitFlagCheck`, `ExitLoop`, `ExitSignal`).  The exit
block waits for the segments not waited for, larger identifiers first (each `injectWait`
splits the block in front of the previous one), stores the live-outs and signals every
segment, also those already signalled.  Cores are already reserved: `numCores` is a
constant.  `LIO = FALSE` is the dispatcher for critical sections, which the compiler
declares but never links (`HELIX_linker.cpp:65`).

**SegmentFrontier.**  A loop is a graph of instructions `1 .. N` (`succ`), the header first
and the latch last, acyclic but for nested loops of one block.  The traversals of
`determineEntryAndExitFrontier` are the actions `VisitForEntry`, `VisitForExit` and
`Extend`; `queue` and `visited` are the code's.  The code's sets are `unordered_set`s of
pointers, so that every order of traversal is explored.  `Execute` then walks one
iteration over the placement of `addSynchronizations`; `SignalsBefore` and `SignalsAfter`
say where `injectSignal` puts the calls, also when the exit is a conditional branch and
when the successor's wait is already there.  `signals` is counted up to `Many`.  Loops
have no critical edges: `gino-pre` runs `noelle-simplification` before the
parallelizer, and with critical edges (an `if` without an `else` around the segment) the
frontier would not cut every path.  PHIs, unconditional branches and exits from the
middle of the loop are left out.

**DOALLChunking.**  Each task walks through entry, header, body with latch, last block.
`iv` is the loop-governing induction variable, in two's complement of `Modulus` values;
`chunk` and `iterCounter` are `chunkPHI` and the counter of periodic variables.  The
reduction variable is the bag of what headers and bodies added to it: `phi` is its header
PHI, `acc` its last intermediate value, `slot` the private copies in the environment,
which hold garbage until the task's entry.  `guarded` is
`requiresConditionBeforeEnteringHeader`, `headerLogic` says that the header adds to the
reduction variable.  NOELLE's helpers that compute "the value of an iteration ago" are
external; the loop compares the header's PHI, for which they all subtract one step.

**DSWPPipeline.**  A loop is a sequence of `N` SCCs, each before the ones that depend on
it: what kind of instructions it holds (`kind`, from which `canBeCloned` decides as
`getClonableSCCs` does), whether it holds a branch, the branch it is control dependent on
(`parent`), the SCC a branch's condition comes from (`cond`) and the data dependences.  SCC 1
holds the exit test in the header: everything else in a loop is control dependent on it,
so that it is sequential and comes first.  NOELLE's partitioner and the merging heuristic are any
partition whose sets are in depth order.  Each function of `apply` is an action; `uses` is the table of queues, one
element per consumer, so that a queue is a producer and two stages as in `registerQueue`.
Loops with the exit test at the end, branches with two regions, nested loops and memory
dependences between stages (an assertion excludes them) are left out.

**DSWP.**  `Dispatch`, `Submit`, `Join` and `FreeQueues` are the dispatcher; `Start` is a worker of
VIRGIL.  The task of a stage is at a `position` in the loop and has its own `value` of each
SCC, which is the number of the iteration that produced it.  `Pop` pops what the code
pops at the start of a block, in any order; if a value arrives over two queues the stage
uses the load inserted last, which is executed first, and relays it to later stages if it
has to.  `Execute` executes one SCC, pushes, and follows the branch by the value the stage
has; a branch that the stage does not have is a jump to the end of its region.

**Planner.**  A program is a nest of loops, each with what NOELLE's profiles and analyses
say of it: invocations, iterations and instructions executed, exit blocks, live-outs,
SCCs, induction variables.  `removeLoopsNotWorthParallelizing` is one action; the body of
the loop over the trees is the action `selectTheOrderOfLoopsToParallelize`, which tags the
loops, adds up the savings and embeds the indices.  Trees come in any order, and so do
loops that `std::sort` finds equal.  `evaluateSavings` is a recursive function over the
nest with the code's early return for loops that are not considered.

**Parallelizer.**  `doInitialization` starts the pass on the planned program with any of the
white and black lists and techniques; `DetermineOrder` builds the map from indices to
loops, in which equal indices replace each other; `ParallelizeNext` is one iteration of
the main loop.  The blocks of a loop are stood for by the loops in which they are
innermost, so that overlap can be told in both directions.  `HELIX` and `DSWP` may give up in
`apply` (a segment spanning the loop, a pipeline of one stage): this is a choice, except
when parallelization is forced.  DOALL's tags from the planner are believed, as the
code does.

**Inliner.**  A function is the sequence of its calls, its hot and cold loops and its size.
`collectInDepthOrderFns` is the traversal with deferred functions: a recursive function over
the states of its loops (`OrderingStates`), one step for a child, a deferred function or
the head of the queue (`OrderingStep`).  The two walks are actions per function (`AvoidFunction`,
`inlineCallsInvolvedInLoopCarriedDataDependences`, `NothingToInline`) and per child and
parent (`TakeChild`, `SkipParent`, `InlineIntoParent`, `AvoidParent`, `LeaveChild`).  Which
calls are in a sequential SCC is up to NOELLE and thus free, within the conditions the
code checks itself.  `InlineFunction` is LLVM's; it refuses a callee (`opaque`) or not, so that
a parent in which the first call of a child is refused and the second one accepted
(`Inliner.cpp:342-361`) is not distinguished; `via` records the functions a call was
copied from, only for `RecursionNotUnrolled`.  `RunAgain` and `FixedPoint` are
noelle-fixedpoint, which repeats the pass until the program stays the same; the tables are
built anew in each pass, the file survives.

## 3. Runs

| Run | Question | Bounds and why they are enough |
|---|---|---|
| `noelle_runtime` | `CoresConserved` under races between the guard and the reservations | 3 calls, 4 cores, requests of 2 and 4: a third call can find idle cores zero or negative; 8-bit `uint32_t`, which is far above the cores |
| `noelle_runtime_grant` | `GrantWithinAvailable`, the comment of `reserveCores` | same; **violated** (see Findings) |
| `doall` | `BlocksNotShared`, `NoStaleArgs`, `JoinedMeansExecutedOnce`, `ImplementsCoreAccounting`, `EveryCallReturns` | 6 calls, concurrent and nested up to 5 deep, on 3 cores: blocks of different sizes, reuse of a larger block, tasks that start late; without the guard all workers end up in joins (this is a mutant) |
| `helix` | `SegmentOrder`, `LiveOutsAreFinal`, `NoIterationPastTheLast`, `ImplementsSequentialSegments`, `LoopReturns`, for loops governed by an induction variable and loops with a preamble | 3 cores, 3 segments, 0 to 5 iterations: fewer iterations than cores, a full round, a partial second round; the preamble is the middle segment, so that segments come before and after it in the exit block |
| `segment_frontier` | `Protected`, `EveryPathSignals`, `SignalWaited` on every path of an iteration | all loops of 7 instructions (branches in branches, a nested loop beside the segment or in it), all segments of 1 or 2 instructions: with two, one can be before, after or beside the other |
| `segment_frontier_once` | `OneSignal`, the comment of `isReachableFromOtherExit` | 6 instructions; **violated** (see Findings) |
| `doall_chunking` | `OnlySequentialIterations`, `ReductionIsSequential`, `LiveOutIsSequential`, `IterCounterInStep`, `LoopEnds` | 1 to 3 tasks, chunks of 1 to 3, 0 to 8 iterations: empty loops, tasks without an iteration, ends in the middle and at the border of a chunk, two rounds of chunks |
| `dswp_pipeline_liveout` | `LiveOutsStored`, the comment of `collectLiveOutEnvInfo` | 3 SCCs; **violated** |
| `dswp` | of every pipeline `QueuesGoForward`, `OperandsAvailable`, `ControlAvailable`; of those that run `RightIteration`, `QueuesDrained`, `EverythingExecuted`, `PipelineReturns` | all loops of 4 SCCs and all their partitions: four stages, a condition relayed over a middle stage, clones behind SCCs of other stages, branches in branches.  Of the data dependences on SCC 1, which controls all others anyway, only the one of the last SCC is varied.  Branches that are not clonable decide on values that are not (`SendableConditions`, see section 4).  The loops of `SampleLoops` are executed as well, on 2 workers, so that stages wait for a worker while others wait for values; 0 to 3 iterations with every outcome of every branch |
| `parallelizer` | `SavingsAreMaximal`, `ParallelizedLoopsAreDisjoint`, `NoLoopForgotten` | every nest of 4 loops, each of one of four kinds (see `MCParallelizer`): two trees, siblings, a chain, a loop removed from the middle; all white and black lists of `MCLoopLists`.  Thresholds are scaled down with the profiles; each can be met or missed |
| `planner_doall_savings` | `DOALLSavingsAreMaximal`, the comment in `LoopEvaluation.cpp` | same; **violated** |
| `inliner` | `TablesMatchTheProgram`, `DepthOrderIsTopological`, `RecursionNotUnrolled`, `FileNamesTheRemaining`, `HoistingIsComplete` | 4 functions, main and the second with up to two calls, the others with one, of any functions, so with any recursion (see `MCInliner`), up to the fixed point: a function with two parents, a chain through a recursive one, two calls of one function, functions LLVM refuses, functions and programs at their size limits |

Deadlock is checked in every run; a `Terminated` disjunct
marks the states in which the program has really finished.  No symmetry is used.

### Fairness

`FairSpec` (`FairRunSpec` in `DSWP`) assumes weak fairness of every thread: the
operating system does not stop a thread that can run for ever, and VIRGIL's workers
take tasks while there are any.  A spin lock with one waiter (every `endLock`, and every
segment lock in iteration order) needs no more than that.  The passes of the compiler
are sequential; no fairness is assumed of them.  `HELIX` starts a submitted task without counting workers:
all tasks of a call run at the same time, which the reservation provides when calls do
not race.

## 4. Findings

`reserveCores` says "Reserve the number of cores available."  `NOELLE_idleCores` is an
`int32_t` that becomes negative when calls that passed the guard together reserve one
core each on an exhausted machine; compared with the `uint32_t` request it is then a huge
number, and the next call is granted every core it asks for.  Run
`noelle_runtime_grant` shows the sequence.  The accounting stays consistent
(`CoresConserved`), so that the effect is over-subscription.

`SequentialSegment::determineEntryAndExitFrontier` refuses an exit that is reachable from
an exit found before, "to prevent exit synchronization from being triggered more than
once. This is for correctness."  An exit that *reaches* one found before is accepted, and
the extension of the frontier does not leave out nested loops.  Which of two blocks on a
path around the segment is looked at first depends on the order of an `unordered_set`; in
the wrong order both become exits.  Run `segment_frontier_once` shows an iteration that
signals once before a nested loop and again in each of its iterations.

`getClonableSCCs` makes every SCC of compares and terminators clonable, also one that
nothing in the loop depends on.  `addClonableSCCsToStages` then puts it into no stage, and
`collectLiveOutEnvInfo` finds no task to store it: a compare that is only used after the
loop is lost.  Run `dswp_pipeline_liveout` shows it.

`evaluateSavings` reports "the maximum time saved by any combination of loops [...] when we
only have DOALL technique".  For a loop that is not DOALL its visitor returns before it adds
up the children, and a child without an entry counts as zero, so that DOALL loops below a
loop that is not are lost.  Run `planner_doall_savings` shows it; `SavingsAreMaximal`, the
same claim for all techniques, holds.

Two limits of the code that the passing runs stay within:

* `rewireLoopToIterateChunks` makes the exit condition non-strict "to catch iterating past
  it".  The step to the next chunk is added in the induction variable's own type: with an
  exit value within `(tasks - 1) * chunkSize` steps of the type's maximum it wraps around,
  and the condition does not catch it.  `Modulus = 32` in `DOALLChunking.cfg`, with 13
  iterations, shows a task that goes on with iterations the loop does not have.
* `collectControlQueueInfo` asserts that a conditional branch has one condition.
  Conditions from clonable SCCs are skipped, which is right for branches that are cloned
  as well.  A branch can be part of a sequential SCC through control dependences alone, as
  in `c = y[i] > 0; ... if (s) { if (c) s = g(s); }`: the compare is clonable, the inner
  branch is not, and no condition is left.  `Loops <- AllLoops` in `DSWP.cfg` shows
  that the stages are then without a branch they need (`ControlAvailable`).

Differences between comments and code that the models follow the code in:

* `Pass.cpp:92` of the planner announces the order "starting from the outermost"; loops are
  sorted by the time they save, and by nesting level only among equals.
* The parallelizer tries only the first technique that applies to a loop: if it gives up in
  `apply`, the loop stays sequential although another one could take it.  A loop is refused
  with "one of its parent has been parallelized already" also if it is a child.
* `Parallelizer_loops.cpp:187` searches basic blocks for calls of intrinsics and finds none,
  so that lifetime intrinsics stay.
* `HELIX_parallelization.cpp:390` decides from the *entries* of a segment whether its exit is
  at the latch.
* `DSWP.cpp:157-166` computes the fraction of the SCCs that can be cloned where the comment
  at line 143 speaks of the sequential ones.
* In `Inliner.cpp` a non-recursive function that is only called from a recursive chain is
  marked as an entrance of a recursive chain like the chain itself (line 710), and is never
  inlined.  A child counts as inlined in its parents although a parent was skipped or has
  further calls of it (line 388); later passes find it again, which is what
  `HoistingIsComplete` shows.
* `NOTE(joe)` at `Inliner.cpp:528-532` says that `adjustFnGraphAfterInline` "doesn't correctly
  adjust Function Graph", since `collectFnGraph` and `collectInDepthOrderFns` do not take
  into account functions "that never got an order", which "causes the number to be out
  between successive iterations of this inliner".  Three things have to be told apart:
  * The adjusted tables are indeed not those that `collectFnGraph` would collect from the
    changed program.  When the last call of a function is inlined, main may not reach the
    function any more; it keeps its entries, stays in `Collected`, and still counts as a
    parent of what it calls.  If `main -> 2 -> 3 -> 4` and the call of 3 is inlined into
    2, the parents of 4 are 2 and 3, where `collectFnGraph` would find 2 alone.
    `TablesMatchTheProgram` says that this is the only difference: the tables describe the calls
    of all functions that had an order when the pass began, reached or not, and without
    the callers that are not reached they are what `collectFnGraph` would collect.  The
    walks of the pass only compare orders assigned at its beginning, which such a parent has.
  * An order computed from these tables would be wrong in the way of the note: a parent that
    is not reached never gets an order, so that its callees are deferred and
    taken for entrances of recursive chains.  If main calls 4 and 3, 4 calls 2, and 4 has
    been inlined into main, 2 still waits for 4 and 3 is numbered before 2, where the next
    pass has 2 before 3.  This is the mutant of `FileNamesTheRemaining`
    (`OrderAfterHoisting_ByAdjustedTables`).  The code does not do this: lines 173-181
    refresh the call graph, clear `parentFns`, `childrenFns`, `orderedCalled` and
    `orderedCalls` and collect graph and order anew before any index is written, and
    `collectInDepthOrderFns` starts from empty orders.  So the indices that a
    hoisting pass writes are those of the next pass, as `FileNamesTheRemaining` claims; for them
    the note does not apply.
  * A pass that inlines for loop-carried dependences returns at line 137, before all of this.
    There the note still applies, as the next item says.
* A pass that inlines for loop-carried dependences leaves `dgsimplify_loop_hoisting.txt` as
  it was.  If an earlier pass had written indices, and NOELLE finds such a call only
  later, the next hoisting pass reads indices of another order: it may take other
  functions, or fail the assertion at `Inliner.cpp:247`.  The run `inliner` reaches this as
  `assertFailed`; no property claims that it cannot happen, and `FileNamesTheRemaining` only
  speaks of indices written by the pass that has just ended.
* `disableSubLoop` (`Inliner_loopCarried.cpp:94-127`) compares `LoopStructure` objects of
  different analyses and does not shrink the vector after `std::remove`; which loop of a
  function is tried is free in the model.

## 5. Theorems

Proved with TLAPS for every value of the constants.  Each inductive invariant was first
checked by TLC, as an invariant of the specification it is about (the exception is
`RecursionInv` of the inliner).

**Core accounting** (`NoelleRuntimeProofs`).  `TypeCorrect` and `ConservationOfCores`: idle
and reserved cores add up to `maxCores`, for any finite set of calls.  The inductive
invariant `CoresInv` is the type invariant with `CoresConserved` and the finiteness of the
set of reserved cores, without which its cardinality says nothing.

**DOALL dispatcher** (`DOALLDispatcherProofs`).  `DispatcherTypes`, `BlocksAreNotShared`,
`ArgumentsAreNotStale` and `JoinIsExact` state the four invariants of the run `doall` for any
finite set of calls, nested in any way, any numbers of cores and any interleaving.  None of
them is inductive: that arguments are not overwritten depends on which slots VIRGIL still
points to.  `DispatcherInv` says that pointers in the queue and in running tasks lead to
slots of *pending* tasks only (submitted, not joined), each once (`PointersArePending`,
`PointersOnce`); that the slot of a pending task has what its call wrote and is locked
exactly as long as VIRGIL has its pointer (`PendingTasks`); that all other slots are locked
and numbered (`Slots`), which is what allows a block to be reused without being initialized
again; and how often each task has been executed (`Executions`).
`DispatchersAccountForCores` proves the refinement of `NoelleRuntime`, action by action.
Checked by TLC with 4 nested calls on 3 cores (2 162 states) and 4 calls on 6 cores
(2.4 million states).

**HELIX.**  `HELIXProofs!TypeCorrect`: types, for both exit protocols and both dispatchers.
The others are for loops in iteration order (`LIO`), with either exit protocol:

* `SegmentsInOrder` (`SegmentOrder`), `LoopStopsAtTheLast` (`NoIterationPastTheLast`) and, if
  there is a segment, `LiveOutsFinal` (`LiveOutsAreFinal`), for any number of cores,
  segments and iterations.  `SegmentOrder` says nothing of the locks.  `ChainInv`, for loops
  governed by an induction variable, adds that each segment has one *baton* (`OneBaton`): a
  core `g` and a round `r` such that the cores before `g` have signalled `r + 1` times and
  the others `r` times; only `g` can be inside the segment; the only unlocked lock is
  `g`'s, and only while `g` is not inside.
* With a preamble this is false: a core that finds the loop over signals every segment
  without having waited, and the exit block signals what was signalled before, so that a
  lock can be unlocked twice and out of turn.  `PreambleInv` counts only the signals of
  iterations up to the last one (`Passed`, `LoopBaton`) and says of every other unlocked
  lock that its core has no wait on that segment left, and that the preamble's lock is
  never unlocked in this way before `loopIsOverFlag` is set (`LockInv`).  `ExitStates` and
  `FlagInv` relate a task's place to the flag.  Checked by TLC with 3 cores and 3 segments
  (210 923 states) and with 1, 2 and 4 cores and 2 segments.
* `SegmentsAreSequential`: the refinement of `SequentialSegments`, as far as it concerns
  safety (`Spec => Abstract!Spec`), action by action.

**Placement of waits and signals** (`SegmentFrontierProofs`).  `FrontierTypes` (`TypeOK`),
`SegmentIsProtected` (`Protected`), `NoPathForgetsTheSignal` (`EveryPathSignals`) and
`SignalsAfterTheWait` (`SignalWaited`), for loops of any number of instructions (the graphs
in `Loops`), any segment and any order of traversal.  `FrontierInv` has four parts:

* `GraphInv`: what `Loops` says of a control-flow graph.  The functions behind `Reachable` and
  `Dominates` exist because edges lead forward; paths have first and last steps, and what
  follows a conditional branch has no other way in, since no edge is critical.
* `SearchInv`: the visited instructions are closed.  A visited instruction is an entry, or
  all its predecessors are visited; it is an exit, or no boundary of the segment and its
  successors are visited.  `Boundary` is needed because an instruction may be refused as an
  exit only for being reachable from another one, and which that is depends on the order:
  it says of which instructions this cannot happen (`NoExit` is before them).  It follows that everything between two
  instructions of the segment has been visited by both searches.
* `ExtensionInv`: a block around the segment has been given an entry and an exit, or is
  dominated by an entry and reachable from an exit.
* `IterationInv`: an iteration that has not waited is at the header or comes from an
  instruction above all entries (`Early`) and has passed no entry; one that has signalled
  cannot reach the segment any more (`Late`); one that has not will come to an exit, or has
  just left one whose signal was moved behind its branch.  The step that matters is
  `LeavingIsExit`: an edge from where the segment can be reached to where it cannot leads to
  an exit or leaves one.

Checked by TLC on all loops of 6 instructions with all segments (857 104 states).  That an
iteration signals only once is false (section 4).

**DOALL tasks** (`DOALLChunkingProofs`).  `CountersInStep` (`IterCounterInStep`),
`NoIterationTwice` (`OnlySequentialIterations`), `LiveOutStoredOnce` (`LiveOutIsSequential`)
and `ReductionOfTheLoop` (`ReductionIsSequential`), for any number of tasks, any chunk size,
trip count, start and step.  Hypothesis `Fits`: the type of the induction variable holds
one step before the start and the first iteration of a task's chunk after the last one.  The code does not
check this; for a loop that ends within a chunk stride of the limit of its type the
non-strict exit test wraps around and nothing is claimed.  The lemmas on chunks say that
task, round and place in the chunk determine an iteration and are determined by it
(`ChunksApart`, `ChunksCover`), and that the latch leads to the task's next iteration
(`NextAt`).  `ChunkingInv` adds to the invariants that a task is in its own chunks, which
headers and bodies are behind it (`Done`), and that the task owning iteration `tripCount`
stops exactly there.  `ReductionInv` says that a task's private value is the set of what
its headers and bodies before `iterCounter` add, and that what it stores is its share of
the loop; the shares are disjoint and make up the loop (`SharesAreTheLoop`), and the fold over
the launched tasks is their sum (`FoldOfSets`).  Both were checked by TLC with the run's
constants (39 348 states).

**DSWP compiler** (`DSWPProofs`).  `PipelineTypes`, `QueuesAreForward`
(`QueuesGoForward`), `OperandsAreAvailable` (`OperandsAvailable`) and `ControlIsAvailable`
(`ControlAvailable`), for any loop of any number of SCCs and any partition in depth order.
The theorems are about the compile steps (`DSWPPipeline!Spec`); the run `dswp` checks the
same invariants together with the execution.  `ControlIsAvailable` has the hypothesis
`SendableConditions`, the one under which the run checks it: without it the property is
false (section 4).  `PipelineInv` says what the tables hold after each step of `apply`.
Checked by TLC on all loops of 3 SCCs, forced and not (1 406 and 1 064 states).

**Execution of a pipeline** (`DSWPProofs`).  `PipelineRunTypes` (`RunTypeOK`),
`StagesKeepInStep` (`RightIteration`), `QueuesAreDrained` (`QueuesDrained`) and
`PipelineExecutesTheLoop` (`EverythingExecuted`), for any loop, partition, number of workers,
trip count, outcome of the branches and schedule, again for loops with
`SendableConditions`.  None of them speaks of what is in the queues.  `RunInv` does: the
contents of a queue are, in order, the iterations in which its producer has pushed and
its consumer has not popped yet (`InFlight`, `QueueInv`); the value that a stage has of an
SCC is the one of the last iteration in which it got it (`StageInv`); and what has been
executed is what the sequential loop executes up to the place of each stage
(`ExecutedInv`).  That a stage pops in the same iterations in which another pushes rests on
regions: a stage that has an SCC has the branches around it (`ControlAvailable`) and so
leaves a region exactly when the sequential loop does.  Checked by TLC on all
loops of 3 SCCs with `SendableConditions`, 3 workers and 2 iterations (430 111 states), and with the constants of
the run (255 226 states).

**Planner and parallelizer** (`ParallelizerProofs`), for any number of loops, any nest, plan,
lists of loops and outcomes of the techniques:

* `LoopsAreDisjoint`: `ParallelizedLoopsAreDisjoint`.  Disjointness says nothing of
  `modifiedBBs`; `DisjointInv` adds that the blocks of every parallelized loop are remembered
  and that the plan has natural indices and loops of the program, without which
  `Min(Pending)` need not be a pending index.  Two loops that overlap share the blocks of
  the inner one, so a loop that passes `isSafe` overlaps none before it.
* `EveryLoopIsTried`: `NoLoopForgotten`.  `OrderInv` adds that the planner's indices are
  distinct and follow the savings within a tree (`PlannedInv`), that loops are tried by
  their index (`TriedInv`), and that a loop found unsafe overlaps a parallelized one that
  saves at least as much (`UnsafeInv`).  Checked by TLC with 3 loops (21 246 states).
* `SavingsMaximal`: `SavingsAreMaximal`.  `SavingsInv` says that what has been saved so far is
  the sum of `evaluateSavings` over the trees worked on.  The rest is about
  `evaluateSavings` alone: from the inner loops out, the larger of a loop's own saving and
  the sum over its children is the maximum over the sets of disjoint loops in its tree
  (`BestIsMaximal`), because such a set either holds the root alone or is split by the children's
  trees (`MaximalRoot`, `MaximalUnion`).  It holds for every profile, also one in which SCCs
  execute more than their loop.
* `PlanTypes`: `TypeOK`; indices are counted (`TypesInv`), so that they are below the number
  of loops.  Both were checked by TLC with the constants of the run (444 776 states).

**Inliner** (`InlinerProofs`), for any program of any number of functions with any recursion,
any answers of NOELLE and LLVM, and any number of passes: `OrderIsTopological`
(`DepthOrderIsTopological`), `TablesAreKept` (`TablesMatchTheProgram`), `FileNamesWhatRemains`
(`FileNamesTheRemaining`), `LoopsAreHoisted` (`HoistingIsComplete`) and `RecursionIsNotUnrolled`
(`RecursionNotUnrolled`).  The argument has three layers:

* The depth order.  The traversal ends because each step leads to a `Nearer` state: it
  orders a function, or takes one from the queue, from the deferred ones or from the
  children of the current one; only then is its result what the recursive function says.
  `OrderInv` holds along it: functions are ordered once, after their parents unless they
  became entrances (`AfterParents`), and what is reachable and not ordered is still to be
  visited or deferred (`NoneForgotten`).
* The passes.  `InlinerInv` has the tables of a pass (`TablesInv`): they describe the
  functions in the order, which is closed under calls, so that splicing the calls of a
  callee into its caller needs no function outside it.  `Changes` ties `inlined` and
  `fnsAffected` to the difference from the program before the pass, on which
  noelle-fixedpoint decides; as long as nothing has been inlined the order is the one that the
  next pass would compute (`WalkInv`).  `HoistInv` says that every function with loops is
  ahead in the walk, or has been put into all of its parents that it should go to.
  `HoistingIsComplete` is false if something is in the way, and `Blocked` follows this
  through the passes: the hypotheses of the property speak of the last program only, and
  inlining never makes a function smaller or less opaque, nor drops one that blocks
  without its caller taking over.  Checked by TLC with the run's constants (161 818 states).
* Recursion.  That a function is not copied into a copy of itself within one pass follows from the
  order; across passes it does not, because each pass orders the functions anew and could
  choose other entrances.  It cannot: the traversal proceeds in rounds
  (`RoundsSoFar`, `RoundInv`), a round orders all that has only ordered parents, and the
  next one starts with everything deferred, so that the rounds and the entrances depend on
  the calls alone (`EntrancesAreUnique`) and not on the order in which they are visited.
  Inlining a function that is no entrance keeps both (`InliningKeepsRounds`).  Hence every
  pass agrees on the entrances with the first one (`Agreed`), and the functions along
  `via` stand in the order of that pass (`Chain`), so none occurs twice.  `RecursionInv`
  quantifies over rounds and places and was not checked by TLC.

Assumptions are those named in the modules: natural numbers, finite sets, at least one
core.  Beyond that, `PlannerAssumption` says that a loop comes after the loop around it and
has finitely many SCCs, `FrontierAssumption` that a segment is a set of instructions that is not empty, and `WellFormed` in `PipelineAssumption` that an SCC comes after the
branch it is control dependent on; the first and the last only fix how loops and SCCs are numbered.

What the recursive functions (`Ancestors` and `evaluateSavings` in `Planner`, `Controllers` in
`DSWPPipeline`, `Reachable`, `Dominates` and `Loops` in `SegmentFrontier`, the traversal of `DepthOrder` in `Inliner`) and the folds of
`Reduce` and of the savings compute is proved by taking a smallest counterexample, since induction theorems
with an operator as a parameter cannot be used.

Only model-checked: liveness and everything under fairness (`EveryCallReturns`,
`LoopReturns`, `LoopEnds`, `PipelineReturns`, the fairness part of
`ImplementsSequentialSegments`), which is out of the prover's reach.

## 6. Not modelled, and plan

Left out for good: LLVM IR and its rewriting as such (cloning, PHI wiring, HELIX's spilling,
scheduling and inlining), NOELLE's analyses (PDG, SCCDAG, induction variables), the drivers,
scripts and tests, reports of the input/output and autotuner passes, memory allocation
failure (the runtime aborts or ignores it).  The heuristic that merges DSWP's stages
estimates costs in floating point and promises nothing that the partitions of `dswp` do not
cover; the enablers are a loop around transformations of NOELLE.

Next, in this order:

1. `HELIXGangs`: several HELIX calls over one pool of workers; a HELIX in which a path
   may signal twice, as `SegmentFrontier` allows.
2. `Environment`: live-ins, live-outs and exit blocks of all techniques.
3. Grouping of SCCs into sequential segments.
