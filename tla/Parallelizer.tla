----------------------------- MODULE Parallelizer -----------------------------
(***************************************************************************)
(* The parallelizer on a program the planner has annotated: it takes the   *)
(* loops in the order of the metadata and parallelizes each with the first *)
(* technique that applies, unless its blocks have been modified already.   *)
(*                                                                         *)
(* The blocks of a loop are stood for by the loops around which they are   *)
(* innermost: a loop and the ones nested in it.                            *)
(***************************************************************************)
EXTENDS Planner

CONSTANTS
  LoopLists,                 \* white lists and black lists of loop indices
  Enablings,                 \* sets of techniques that may be enabled
  InstsPerIterationThreshold \* averageInstructionThreshold, 20

Techniques == <<"DOALL", "HELIX", "DSWP">>
NotParallelized == "notParallelized"
Unsafe == "unsafe"

ASSUME ParallelizerAssumption ==
  /\ \A lists \in LoopLists : lists.white \subseteq Nat /\ lists.black \subseteq Nat
  /\ \A e \in Enablings : e \subseteq {"DOALL", "HELIX", "DSWP"}
  /\ InstsPerIterationThreshold \in Nat

VARIABLES
  lists,                    \* loopIndexesWhiteList and loopIndexesBlackList
  enabled,                  \* the techniques that are enabled
  runtimeLinked,            \* the program declares the queues of the runtime
  stage,                    \* "load", "start", "parallelize", "exit" or
                            \* "abort"
  loopParallelizationOrder, \* the loops to try, by their index
  modifiedBBs,
  outcome                   \* what became of each loop tried

parallelizerVars == <<lists, enabled, runtimeLinked, stage,
                      loopParallelizationOrder, modifiedBBs, outcome>>

-----------------------------------------------------------------------------
(* The techniques.                                                         *)

BasicBlocks(l) == {k \in Loops : k = l \/ l \in Ancestors(k)}

\* What HELIX and DSWP both need.
HandlesExits(l) == program[l].exits > 0 /\ ~program[l].invokes

hasLittleExecution(l) ==
  program[l].insts < InstsPerIterationThreshold * program[l].iterations

Size(sccs) == MapThenSumSet(LAMBDA s : s.size, sccs)

HELIXCanBeAppliedToLoop(l) ==
  LET sccs == program[l].sccs
      sequential == {s \in sccs : s.kind = "unknown"}
  IN  /\ HandlesExits(l)
      /\ \/ forceParallelization
         \/ ~hasLittleExecution(l)
         \/ 5 * Size(sequential) < Size(sccs)

\* The fraction DSWP computes is the one of the SCCs that can be cloned.
DSWPCanBeAppliedToLoop(l) ==
  LET sccs == program[l].sccs
      clonable == {s \in sccs : s.clonable}
      biggestSCC == Max({0} \cup {s.insts : s \in sccs})
  IN  /\ HandlesExits(l)
      /\ sccs # clonable
      /\ \/ forceParallelization
         \/ /\ 10 * biggestSCC < 8 * program[l].insts
            /\ ~hasLittleExecution(l) \/ 2 * Size(clonable) >= Size(sccs)

canBeAppliedToLoop(technique, l) ==
  \/ technique = "DOALL" /\ DOALLCanBeAppliedToLoop(l)
  \/ technique = "HELIX" /\ HELIXCanBeAppliedToLoop(l)
  \/ technique = "DSWP" /\ DSWPCanBeAppliedToLoop(l)

\* What apply may return: HELIX gives up on a segment that spans the loop, DSWP
\* on a pipeline of one stage.
apply(technique) ==
  IF technique = "DOALL" \/ forceParallelization THEN {TRUE} ELSE BOOLEAN

Applicable(l) ==
  {i \in 1 .. 3 : Techniques[i] \in enabled /\ canBeAppliedToLoop(Techniques[i], l)}

\* parallelizeLoop: the first technique that applies is the only one tried.
parallelizeLoop(l) ==
  IF Applicable(l) = {} THEN {NotParallelized}
  ELSE LET used == Techniques[Min(Applicable(l))]
       IN  {IF modified THEN used ELSE NotParallelized : modified \in apply(used)}

-----------------------------------------------------------------------------

ParallelizerInit ==
  /\ Init
  /\ lists = [white |-> {}, black |-> {}]
  /\ enabled = {}
  /\ runtimeLinked = FALSE
  /\ stage = "load"
  /\ loopParallelizationOrder = <<>>
  /\ modifiedBBs = {}
  /\ outcome = <<>>

\* The pass is started on the planned program with the user's options.
doInitialization ==
  /\ phase = "planned" /\ stage = "load"
  /\ lists' \in LoopLists
  /\ enabled' \in Enablings
  /\ runtimeLinked' \in BOOLEAN
  /\ stage' = "start"
  /\ UNCHANGED <<loopParallelizationOrder, modifiedBBs, outcome>>

\* A white list wins over a black list; without any every loop is selected.
isSelected(i) ==
  IF lists.white # {} THEN i \in lists.white ELSE i \notin lists.black

\* collectThreadPoolHelperFunctionsAndTypes aborts without the runtime.
collectThreadPoolHelperFunctionsAndTypes ==
  /\ stage = "start" /\ ~runtimeLinked
  /\ stage' = "abort"
  /\ UNCHANGED <<lists, enabled, runtimeLinked, loopParallelizationOrder,
                 modifiedBBs, outcome>>

\* Loops with the same index replace each other in the map.
DetermineOrder ==
  LET candidates == {l \in DOMAIN looporder : isSelected(looporder[l])}
  IN  /\ stage = "start" /\ runtimeLinked
      /\ \E o \in [{looporder[l] : l \in candidates} -> candidates] :
           /\ \A i \in DOMAIN o : looporder[o[i]] = i
           /\ loopParallelizationOrder' = o
      /\ stage' = "parallelize"
      /\ UNCHANGED <<lists, enabled, runtimeLinked, modifiedBBs, outcome>>

Pending == {i \in DOMAIN loopParallelizationOrder :
              loopParallelizationOrder[i] \notin DOMAIN outcome}

\* Mutant: only the header of the loop is checked.
isSafe_Header(l) == l \notin modifiedBBs

isSafe(l) == BasicBlocks(l) \cap modifiedBBs = {}

Modifies(result) == result \notin {NotParallelized, Unsafe}

\* The loop with the smallest index that was not tried yet.
ParallelizeNext ==
  /\ stage = "parallelize" /\ Pending # {}
  /\ LET l == loopParallelizationOrder[Min(Pending)]
     IN  \E result \in IF isSafe(l) THEN parallelizeLoop(l) ELSE {Unsafe} :
           /\ outcome' = [k \in DOMAIN outcome \cup {l} |->
                            IF k = l THEN result ELSE outcome[k]]
           /\ modifiedBBs' = IF Modifies(result)
                             THEN modifiedBBs \cup BasicBlocks(l) ELSE modifiedBBs
  /\ UNCHANGED <<lists, enabled, runtimeLinked, stage, loopParallelizationOrder>>

\* What follows the loop over the loops changes nothing: the search for calls
\* of intrinsics goes through blocks and finds no call.
ParallelizerExit ==
  /\ stage = "parallelize" /\ Pending = {}
  /\ stage' = "exit"
  /\ UNCHANGED <<lists, enabled, runtimeLinked, loopParallelizationOrder,
                 modifiedBBs, outcome>>

Parallelize ==
  \/ doInitialization
  \/ collectThreadPoolHelperFunctionsAndTypes
  \/ DetermineOrder
  \/ ParallelizeNext
  \/ ParallelizerExit

Terminated ==
  stage \in {"exit", "abort"} /\ UNCHANGED <<plannerVars, parallelizerVars>>

Next ==
  \/ Plan /\ UNCHANGED parallelizerVars
  \/ Parallelize /\ UNCHANGED plannerVars
  \/ Terminated

Spec == ParallelizerInit /\ [][Next]_<<plannerVars, parallelizerVars>>

-----------------------------------------------------------------------------
(* Properties.                                                             *)

\* The types of the metadata and of the parallelizer's tables.
TypeOK ==
  /\ phase \in {"filter", "select", "planned"}
  /\ forest \subseteq Loops /\ trees \subseteq forest
  /\ DOMAIN looporder \subseteq forest
  /\ \A l \in DOMAIN looporder : looporder[l] \in 0 .. N - 1
  /\ doallTag \in [Loops -> {"none", "yes", "no"}]
  /\ programMaxTimeSaved \in Nat /\ programMaxTimeSavedWithDOALLOnly \in Nat
  /\ stage \in {"load", "start", "parallelize", "exit", "abort"}
  /\ modifiedBBs \subseteq Loops /\ DOMAIN outcome \subseteq Loops

Parallelized == {l \in DOMAIN outcome : Modifies(outcome[l])}

\* A loop is never parallelized when code of it already is, whichever of the two
\* comes first in the order: the later one would transform blocks that are only
\* the sequential version of the earlier one.
ParallelizedLoopsAreDisjoint ==
  \A k, l \in Parallelized : k # l => ~Overlap(k, l)

\* In the end every loop the planner chose and the lists select has been
\* parallelized, or no technique took it, or it overlaps a loop that was
\* parallelized and saves at least as much: the order survives the metadata,
\* and no loop is forgotten on the way.
NoLoopForgotten ==
  stage = "exit" =>
    \A l \in {k \in DOMAIN looporder : isSelected(looporder[k])} :
      /\ l \in DOMAIN outcome
      /\ outcome[l] = Unsafe =>
           \E k \in Parallelized :
             /\ Overlap(k, l)
             /\ TimeSavedByParallelizingLoop(k) >= TimeSavedByParallelizingLoop(l)
=============================================================================
