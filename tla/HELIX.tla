-------------------------------- MODULE HELIX --------------------------------
(***************************************************************************)
(* One execution of a loop parallelized by HELIX: the runtime's dispatcher *)
(* (NOELLE_HELIX_dispatcher, HELIX_wait, HELIX_signal) and the tasks with  *)
(* the synchronization HELIX::addSynchronizations put into them.           *)
(*                                                                         *)
(* Core c executes the iterations c, c + numCores, c + 2*numCores, ... and *)
(* the sequential segments make the iterations pass through every segment  *)
(* in order: iteration i waits on the lock its predecessor unlocks.        *)
(*                                                                         *)
(* A loop is left in one of two ways.  When an induction variable governs  *)
(* it, every core computes for itself that its iteration is the last one or*)
(* past it.  Otherwise the exit is decided in a sequential segment that    *)
(* every iteration starts with, the preamble, and the core that decides    *)
(* tells the others through loopIsOverFlag.                                *)
(***************************************************************************)
EXTENDS Integers, FiniteSets

CONSTANTS
  numCores,        \* cores the dispatcher reserved
  numSS,           \* number of sequential segments
  PreambleChoices, \* the segments that may be the preamble, or NoPreamble
  NoPreamble,
  LIO,             \* whether the segments keep the loop-iteration order
  TripCounts       \* how many iterations the body may be executed for

Cores == 0 .. numCores - 1
Segments == 0 .. numSS - 1

ASSUME HELIXAssumption ==
  /\ numCores \in Nat \ {0}
  /\ numSS \in Nat
  /\ NoPreamble \notin Segments
  /\ PreambleChoices \subseteq Segments \cup {NoPreamble}
  /\ LIO \in BOOLEAN
  /\ TripCounts \subseteq Nat

VARIABLES
  tripCount,      \* the iteration whose header leaves the loop
  preambleSS,     \* the segment of the preamble, or NoPreamble
  pc,             \* where each task is
  round,          \* core c executes iteration c + numCores * round[c]
  ss,             \* state of each segment in the current iteration of a task
  at,             \* the segment a task waits for or signals next
  unlocked,       \* unlocked[i][s]: lock s of sequential segment array i
  loopIsOverFlag,
  dpc,            \* where the dispatcher is
  submitted,      \* tasks handed to VIRGIL, which are tasks 0 .. submitted - 1
  ended           \* endLock of each submitted task is unlocked

loopVars == <<tripCount, preambleSS>>
taskVars == <<pc, round, ss, at>>
vars == <<loopVars, pc, round, ss, at, unlocked, loopIsOverFlag, dpc, submitted,
          ended>>

-----------------------------------------------------------------------------

HasPreamble == preambleSS # NoPreamble

\* The sequential segment arrays a task waits on and signals.
numOfSSArrays == IF LIO THEN numCores ELSE 1
ssArrayPast(c) == c % numOfSSArrays
ssArrayFuture(c) == (c + 1) % numOfSSArrays

\* The iteration of core c is the last one (its header leaves the loop), or is
\* past the last one.
LastRound == tripCount \div numCores
LastCore == tripCount % numCores
IsLastIteration(c) == round[c] = LastRound /\ c = LastCore
IsPastLastIteration(c) ==
  \/ round[c] > LastRound
  \/ round[c] = LastRound /\ c > LastCore

\* The state of every segment when an iteration starts: ssState is 0.
NotWaited == [s \in Segments |-> "todo"]

\* Mutant: no lock is taken when the arrays are initialized.
InitiallyUnlocked_All(i) == TRUE

\* The dispatcher takes the locks of every array but the one of core 0.
InitiallyUnlocked(i) == i = 0

\* HELIX_signal and HELIX_wait of task c on segment s.  What ssState tells is
\* ss[c][s] # "todo".
Signal(c, s) == unlocked' = [unlocked EXCEPT ![ssArrayFuture(c)][s] = TRUE]

Wait(c, s) ==
  /\ unlocked[ssArrayPast(c)][s]
  /\ unlocked' = [unlocked EXCEPT ![ssArrayPast(c)][s] = FALSE]

-----------------------------------------------------------------------------

Init ==
  /\ tripCount \in TripCounts /\ preambleSS \in PreambleChoices
  /\ pc = [c \in Cores |-> "notStarted"]
  /\ round = [c \in Cores |-> 0]
  /\ ss = [c \in Cores |-> NotWaited]
  /\ at = [c \in Cores |-> 0]
  /\ unlocked = [i \in 0 .. numOfSSArrays - 1 |-> [s \in Segments |-> InitiallyUnlocked(i)]]
  /\ loopIsOverFlag = FALSE
  /\ dpc = "fork"
  /\ submitted = 0
  /\ ended = [c \in Cores |-> FALSE]

-----------------------------------------------------------------------------
(* The dispatcher.                                                         *)

\* One iteration of the loop that launches the tasks.
SubmitTask ==
  /\ dpc = "fork" /\ submitted < numCores - 1
  /\ submitted' = submitted + 1
  /\ UNCHANGED <<loopVars, taskVars, unlocked, loopIsOverFlag, dpc, ended>>

\* The dispatcher runs the task of the last core.
RunOwnTask ==
  /\ dpc = "fork" /\ submitted = numCores - 1
  /\ dpc' = "run"
  /\ pc' = [pc EXCEPT ![numCores - 1] = "header"]
  /\ UNCHANGED <<loopVars, round, ss, at, unlocked, loopIsOverFlag, submitted, ended>>

\* The locks on endLock are taken in turn once each has been unlocked.
Join ==
  /\ dpc = "run" /\ pc[numCores - 1] = "finished"
  /\ \A c \in Cores \ {numCores - 1} : ended[c]
  /\ dpc' = "joined"
  /\ UNCHANGED <<loopVars, taskVars, unlocked, loopIsOverFlag, submitted, ended>>

\* The cores are released and the arrays of arguments and locks are freed.
Free ==
  /\ dpc = "joined"
  /\ dpc' = "freed"
  /\ UNCHANGED <<loopVars, taskVars, unlocked, loopIsOverFlag, submitted, ended>>

-----------------------------------------------------------------------------
(* The tasks.                                                              *)

\* VIRGIL starts submitted tasks in order; a worker is idle for each of them.
StartTask(c) ==
  /\ pc[c] = "notStarted" /\ c < submitted
  /\ \A d \in Cores : d < c => pc[d] # "notStarted"
  /\ pc' = [pc EXCEPT ![c] = "header"]
  /\ UNCHANGED <<loopVars, round, ss, at, unlocked, loopIsOverFlag, dpc, submitted,
                 ended>>

\* Mutant: the exit condition is not made to catch iterations past the exit
\* value.
Header_Equality(c) ==
  /\ pc[c] = "header" /\ ~ HasPreamble
  /\ pc' = [pc EXCEPT ![c] = IF IsLastIteration(c) THEN "leaving" ELSE "body"]
  /\ UNCHANGED <<loopVars, round, ss, at, unlocked, loopIsOverFlag, dpc, submitted,
                 ended>>

\* The header of a loop governed by an induction variable.
Header(c) ==
  /\ pc[c] = "header" /\ ~ HasPreamble
  /\ pc' = [pc EXCEPT ![c] = IF IsLastIteration(c) \/ IsPastLastIteration(c)
                             THEN "leaving" ELSE "body"]
  /\ UNCHANGED <<loopVars, round, ss, at, unlocked, loopIsOverFlag, dpc, submitted,
                 ended>>

\* The header of a loop with a preamble: wait for it, then check the flag.
PreambleWait(c) ==
  /\ pc[c] = "header" /\ HasPreamble
  /\ Wait(c, preambleSS)
  /\ ss' = [ss EXCEPT ![c][preambleSS] = "in"]
  /\ pc' = [pc EXCEPT ![c] = "checkExit"]
  /\ UNCHANGED <<loopVars, round, at, loopIsOverFlag, dpc, submitted, ended>>

\* The check of the flag, synchronized by the wait before it.
ExitFlagCheck(c) ==
  /\ pc[c] = "checkExit"
  /\ at' = [at EXCEPT ![c] = 0]
  /\ pc' = [pc EXCEPT ![c] = IF loopIsOverFlag THEN "failedCheck" ELSE "body"]
  /\ UNCHANGED <<loopVars, round, ss, unlocked, loopIsOverFlag, dpc, submitted, ended>>

\* The path an iteration takes through the body decides in which order it
\* reaches the entries of the segments.
ReachEntry(c, s) ==
  /\ pc[c] = "body" /\ ss[c][s] = "todo"
  /\ at' = [at EXCEPT ![c] = s]
  /\ pc' = [pc EXCEPT ![c] = "waiting"]
  /\ UNCHANGED <<loopVars, round, ss, unlocked, loopIsOverFlag, dpc, submitted, ended>>

\* The wait at the entry of a segment.
EnterSS(c) ==
  /\ pc[c] = "waiting"
  /\ Wait(c, at[c])
  /\ ss' = [ss EXCEPT ![c][at[c]] = "in"]
  /\ pc' = [pc EXCEPT ![c] = "body"]
  /\ UNCHANGED <<loopVars, round, at, loopIsOverFlag, dpc, submitted, ended>>

\* The signal at the exit of a segment.  The exits of the loop belong to the
\* preamble, so an iteration that signals the preamble does not leave the loop.
LeaveSS(c, s) ==
  /\ pc[c] = "body" /\ ss[c][s] = "in"
  /\ s = preambleSS => ~ IsLastIteration(c)
  /\ Signal(c, s)
  /\ ss' = [ss EXCEPT ![c][s] = "done"]
  /\ UNCHANGED <<loopVars, pc, round, at, loopIsOverFlag, dpc, submitted, ended>>

\* The latch: the induction variables step over the other cores' iterations,
\* and the header resets ssState.
NextIteration(c) ==
  /\ pc[c] = "body"
  /\ \A s \in Segments : ss[c][s] = "done"
  /\ round' = [round EXCEPT ![c] = @ + 1]
  /\ ss' = [ss EXCEPT ![c] = NotWaited]
  /\ pc' = [pc EXCEPT ![c] = "header"]
  /\ UNCHANGED <<loopVars, at, unlocked, loopIsOverFlag, dpc, submitted, ended>>

\* Mutant: the core that leaves the loop signals the preamble and sets the
\* flag afterwards.
ExitLoop_FlagNotSet(c) ==
  /\ pc[c] = "body" /\ HasPreamble /\ ss[c][preambleSS] = "in"
  /\ IsLastIteration(c)
  /\ pc' = [pc EXCEPT ![c] = "exiting"]
  /\ UNCHANGED <<loopVars, round, ss, at, unlocked, loopIsOverFlag, dpc, submitted,
                 ended>>

\* The preamble leaves the loop: the flag is set before the signal.
ExitLoop(c) ==
  /\ pc[c] = "body" /\ HasPreamble /\ ss[c][preambleSS] = "in"
  /\ IsLastIteration(c)
  /\ loopIsOverFlag' = TRUE
  /\ pc' = [pc EXCEPT ![c] = "exiting"]
  /\ UNCHANGED <<loopVars, round, ss, at, unlocked, dpc, submitted, ended>>

\* The signal of the preamble at the beginning of the exit block.
ExitSignal(c) ==
  /\ pc[c] = "exiting"
  /\ Signal(c, preambleSS)
  /\ ss' = [ss EXCEPT ![c][preambleSS] = "done"]
  /\ pc' = [pc EXCEPT ![c] = "leaving"]
  /\ UNCHANGED <<loopVars, round, at, loopIsOverFlag, dpc, submitted, ended>>

\* The exit block waits for the segments this iteration has not waited for,
\* the ones with the larger identifiers first.
LastWait(c, s) ==
  /\ pc[c] = "leaving" /\ ss[c][s] = "todo"
  /\ \A t \in Segments : t > s => ss[c][t] # "todo"
  /\ Wait(c, s)
  /\ ss' = [ss EXCEPT ![c][s] = "in"]
  /\ UNCHANGED <<loopVars, pc, round, at, loopIsOverFlag, dpc, submitted, ended>>

\* Mutant: the exit block does not wait for the segments.
StoreLiveOuts_Unsynchronized(c) ==
  /\ pc[c] = "leaving"
  /\ at' = [at EXCEPT ![c] = 0]
  /\ pc' = [pc EXCEPT ![c] = "lastSignals"]
  /\ UNCHANGED <<loopVars, round, ss, unlocked, loopIsOverFlag, dpc, submitted, ended>>

\* The rest of the exit block: the instructions of the last iteration's header
\* and the stores of the live-out variables.
StoreLiveOuts(c) ==
  /\ pc[c] = "leaving"
  /\ \A s \in Segments : ss[c][s] # "todo"
  /\ at' = [at EXCEPT ![c] = 0]
  /\ pc' = [pc EXCEPT ![c] = "lastSignals"]
  /\ UNCHANGED <<loopVars, round, ss, unlocked, loopIsOverFlag, dpc, submitted, ended>>

\* Mutant: the exit block signals nothing.
LastSignal_None(c) ==
  /\ pc[c] \in {"lastSignals", "failedCheck"} /\ at[c] < numSS
  /\ at' = [at EXCEPT ![c] = numSS]
  /\ UNCHANGED <<loopVars, pc, round, ss, unlocked, loopIsOverFlag, dpc, submitted,
                 ended>>

\* Mutant: one signal too many.
LastSignal_OffByOne(c) ==
  /\ pc[c] \in {"lastSignals", "failedCheck"} /\ at[c] <= numSS
  /\ Signal(c, at[c])
  /\ at' = [at EXCEPT ![c] = @ + 1]
  /\ UNCHANGED <<loopVars, pc, round, ss, loopIsOverFlag, dpc, submitted, ended>>

\* The signals of the exit block, and those of a core that finds the loop over:
\* every segment in turn, whatever was signalled before.
LastSignal(c) ==
  /\ pc[c] \in {"lastSignals", "failedCheck"} /\ at[c] < numSS
  /\ Signal(c, at[c])
  /\ ss' = [ss EXCEPT ![c][at[c]] = "done"]
  /\ at' = [at EXCEPT ![c] = @ + 1]
  /\ UNCHANGED <<loopVars, pc, round, loopIsOverFlag, dpc, submitted, ended>>

\* The task returns; the trampoline of a submitted task unlocks endLock.
EndTask(c) ==
  /\ pc[c] \in {"lastSignals", "failedCheck"} /\ at[c] = numSS
  /\ pc' = [pc EXCEPT ![c] = "finished"]
  /\ ended' = [ended EXCEPT ![c] = TRUE]
  /\ UNCHANGED <<loopVars, round, ss, at, unlocked, loopIsOverFlag, dpc, submitted>>

Task(c) ==
  \/ StartTask(c) \/ Header(c) \/ PreambleWait(c) \/ ExitFlagCheck(c)
  \/ \E s \in Segments : ReachEntry(c, s) \/ LeaveSS(c, s) \/ LastWait(c, s)
  \/ EnterSS(c) \/ NextIteration(c) \/ ExitLoop(c) \/ ExitSignal(c)
  \/ StoreLiveOuts(c) \/ LastSignal(c) \/ EndTask(c)

Dispatcher == SubmitTask \/ RunOwnTask \/ Join \/ Free

\* The dispatcher has returned.
Terminated == dpc = "freed" /\ UNCHANGED vars

Next == Dispatcher \/ (\E c \in Cores : Task(c)) \/ Terminated

Spec == Init /\ [][Next]_vars

\* A worker runs each task and the operating system runs each worker.  In
\* iteration order a lock has one task that waits on it, so weak fairness is
\* enough for the wait.
FairSpec ==
  Spec /\ WF_vars(Dispatcher) /\ \A c \in Cores : WF_vars(Task(c))

-----------------------------------------------------------------------------
(* Properties.                                                             *)

\* Every variable has the type of its counterpart in the runtime or the task.
TypeOK ==
  /\ tripCount \in Nat /\ preambleSS \in PreambleChoices
  /\ pc \in [Cores -> {"notStarted", "header", "checkExit", "failedCheck", "body",
                       "waiting", "exiting", "leaving", "lastSignals", "finished"}]
  /\ round \in [Cores -> Nat]
  /\ ss \in [Cores -> [Segments -> {"todo", "in", "done"}]]
  /\ at \in [Cores -> 0 .. numSS]
  /\ unlocked \in [0 .. numOfSSArrays - 1 -> [Segments -> BOOLEAN]]
  /\ loopIsOverFlag \in BOOLEAN
  /\ dpc \in {"fork", "run", "joined", "freed"}
  /\ submitted \in 0 .. numCores - 1
  /\ ended \in [Cores -> BOOLEAN]

\* Task c executes segment s of an iteration of the loop.  The waits and
\* signals of a core that finds its iteration past the last one, or the loop
\* over, execute no segment.
Inside(c, s) ==
  /\ ss[c][s] = "in"
  /\ \/ pc[c] \in {"body", "waiting"}
     \/ pc[c] \in {"exiting", "leaving", "lastSignals"} /\ IsLastIteration(c)

\* The iteration of core c comes before the one of core d.
Earlier(c, d) == round[c] < round[d] \/ (round[c] = round[d] /\ c < d)

\* While an iteration is inside a segment, every earlier iteration has left it
\* and no later one has entered it: the segment is executed in the order of the
\* original loop, although each core only looks at its own locks.
SegmentOrder ==
  \A s \in Segments : \A c, d \in Cores :
    Inside(c, s) /\ c # d =>
      /\ Earlier(d, c) => ss[d][s] = "done"
      /\ Earlier(c, d) => ss[d][s] = "todo" \/ pc[d] \in {"checkExit", "failedCheck",
                                                        "finished"}

\* When the core of the last iteration reads the live-out values, every
\* iteration before it has left every segment, and no core executes the body of
\* an iteration after it.
LiveOutsAreFinal ==
  \A c \in Cores :
    pc[c] = "lastSignals" /\ IsLastIteration(c) =>
      \A d \in Cores \ {c} :
        \/ Earlier(d, c) /\ pc[d] = "body" /\ \A s \in Segments : ss[d][s] = "done"
        \/ Earlier(c, d) /\ pc[d] \notin {"body", "waiting"}

\* No iteration past the last one executes the body, however the flag, the
\* signals and the cores' progress interleave.
NoIterationPastTheLast ==
  \A c \in Cores : pc[c] \in {"body", "waiting"} => ~ IsPastLastIteration(c)

\* Iteration i has completed segment s.
Completed(i, s) ==
  LET c == i % numCores IN
  \/ i \div numCores < round[c]
  \/ i \div numCores = round[c] /\ ss[c][s] = "done" /\ pc[c] # "failedCheck"

\* The next iteration that completes segment s, and those that execute it.
Turn(s) == Cardinality({i \in 0 .. tripCount : Completed(i, s)})
InsideIterations(s) ==
  {c + numCores * round[c] : c \in {d \in Cores : Inside(d, s)}}

Abstract == INSTANCE SequentialSegments WITH
  lastIteration <- tripCount,
  turn <- [s \in Segments |-> Turn(s)],
  inside <- [s \in Segments |-> InsideIterations(s)]

\* The locks, the flag and the redundant signals implement the execution of the
\* segments by the iterations in their order, up to the last one.
ImplementsSequentialSegments == Abstract!FairSpec

\* Every task ends and the dispatcher returns: no signal is lost and no core
\* waits for an iteration nobody executes.
LoopReturns == <>(dpc = "freed")
=============================================================================
