------------------------------- MODULE Planner -------------------------------
(***************************************************************************)
(* The planner: which loops of a program are worth parallelizing, and in   *)
(* which order the parallelizer shall try them (parallelization_planner).  *)
(* What it decides is embedded into the program: the order of a loop as    *)
(* "noelle.parallelizer.looporder" and whether DOALL applies to it as      *)
(* "gino.doall".                                                           *)
(*                                                                         *)
(* A loop is what NOELLE's profiles and analyses say about it.  The loops  *)
(* are numbered from the outside to the inside.                            *)
(***************************************************************************)
EXTENDS Integers, FiniteSets, FiniteSetsExt, Functions

CONSTANTS
  N,                           \* number of loops
  Programs,                    \* the programs to plan
  forceParallelization,
  InstsPerInvocationThreshold, \* averageInstsPerInvocationThreshold, 2000
  IterationThreshold,          \* averageIterationThreshold, 12
  SavedTimeThreshold           \* percentage of the program's time, 2

Loops == 1 .. N
NoParent == 0

SCCKinds == {"unknown",           \* LoopCarriedUnknownSCC
             "unknownClosedForm", \* UnknownClosedFormSCC
             "handled"}           \* without state, reducible, induction variable

\* insts are executed instructions, size is instructions in the code; disjoint:
\* all its loop-carried dependences are through memory and do not overlap.
SCCType == [kind : SCCKinds, insts : Nat, size : Nat, disjoint : BOOLEAN,
            clonable : BOOLEAN]

\* A loop: its place in the nest, its profile, its exit blocks and the ones that
\* end with a call of exit, live-outs that are neither reducible nor induction
\* variables, and its induction variables.
LoopType ==
  [parent : Loops \cup {NoParent},
   invocations : Nat, iterations : Nat, insts : Nat,
   exits : Nat, exitCalls : Nat, invokes : BOOLEAN,
   liveOutsToSync : BOOLEAN, sccs : SUBSET SCCType,
   governingIV : BOOLEAN, invariantSteps : BOOLEAN, invariantBound : BOOLEAN]

ASSUME PlannerAssumption ==
  /\ N \in Nat \ {0}
  /\ Programs \subseteq [Loops -> LoopType]
  /\ \A p \in Programs : \A l \in Loops :
       p[l].parent < l /\ IsFiniteSet(p[l].sccs)
  /\ forceParallelization \in BOOLEAN
  /\ InstsPerInvocationThreshold \in Nat /\ IterationThreshold \in Nat
  /\ SavedTimeThreshold \in Nat

VARIABLES
  program,                          \* function from the loops
  phase,                            \* "filter", "select" or "planned"
  forest,                           \* the loops that are considered
  trees,                            \* roots of the trees to select loops of
  looporder,                        \* metadata of the loops that have it
  doallTag,                         \* metadata: "none", "yes" or "no"
  parallelizationOrderIndex,
  programMaxTimeSaved,
  programMaxTimeSavedWithDOALLOnly

plannerVars == <<program, phase, forest, trees, looporder, doallTag,
                 parallelizationOrderIndex, programMaxTimeSaved,
                 programMaxTimeSavedWithDOALLOnly>>

-----------------------------------------------------------------------------
(* Nesting.                                                                *)

Ancestors(l) ==
  LET up[n \in Loops] == LET p == program[n].parent
                         IN  IF p = NoParent THEN {} ELSE {p} \cup up[p]
  IN  up[l]

NestingLevel(l) == 1 + Cardinality(Ancestors(l))

\* A loop that is removed from a forest leaves its children to its parent.
Roots(f) == {l \in f : Ancestors(l) \cap f = {}}
Tree(f, root) == {l \in f : l = root \/ root \in Ancestors(l)}
Children(f, n) == {l \in f : Ancestors(l) \cap f # {} /\ Max(Ancestors(l) \cap f) = n}

\* One loop contains the other, or is the other.
Overlap(k, l) == k = l \/ k \in Ancestors(l) \/ l \in Ancestors(k)

TotalInstructions == MapThenSumSet(LAMBDA l : program[l].insts, Roots(Loops))

-----------------------------------------------------------------------------
(* DOALL's view of a loop.                                                 *)

getSCCsThatBlockDOALLToBeApplicable(l) ==
  {s \in program[l].sccs : s.kind # "handled" /\ ~s.disjoint}

\* The checks of a loop without the tag.
DOALLConditions(l) ==
  LET p == program[l] IN
  /\ p.exits - p.exitCalls = 1
  /\ ~p.liveOutsToSync
  /\ getSCCsThatBlockDOALLToBeApplicable(l) = {}
  /\ p.governingIV /\ p.invariantSteps /\ p.invariantBound

\* DOALL::canBeAppliedToLoop believes the tag if there is one.
DOALLCanBeAppliedToLoop(l) ==
  \/ doallTag[l] = "yes"
  \/ doallTag[l] = "none" /\ DOALLConditions(l)

-----------------------------------------------------------------------------
(* Time saved.                                                             *)

\* The biggest SCC that must be sequential, over all iterations.
TimeSpentInCriticalPath(l) ==
  Max({0} \cup {s.insts : s \in getSCCsThatBlockDOALLToBeApplicable(l)})

TimeSavedByParallelizingLoop(l) ==
  IF program[l].iterations = 0 THEN 0
  ELSE program[l].insts - TimeSpentInCriticalPath(l)

\* Mutant: the children compete instead of being combined.
evaluateSavings_BestChild(f, root, considered) ==
  LET max[n \in Loops] ==
        Max({TimeSavedByParallelizingLoop(n)} \cup
            {max[c] : c \in Children(f, n) \cap considered})
  IN  IF root \in considered THEN max[root] ELSE 0

\* The maximum time saved by the loops of a tree, from the leaves to the root:
\* by the loop alone or by its children.  A loop that is not considered has no
\* entry, and is not looked through.
evaluateSavings(f, root, considered) ==
  LET max[n \in Loops] ==
        LET children == MapThenSumSet(LAMBDA c : max[c], Children(f, n) \cap considered)
        IN  Max({TimeSavedByParallelizingLoop(n), children})
  IN  IF root \in considered THEN max[root] ELSE 0

-----------------------------------------------------------------------------

Init ==
  /\ program \in Programs
  /\ phase = "filter"
  /\ forest = Loops
  /\ trees = {}
  /\ looporder = <<>>
  /\ doallTag = [l \in Loops |-> "none"]
  /\ parallelizationOrderIndex = 0
  /\ programMaxTimeSaved = 0
  /\ programMaxTimeSavedWithDOALLOnly = 0

\* A loop that did not execute, or too little per invocation; the minimum of
\* the hotness is zero.
NotWorthParallelizing(l) ==
  LET p == program[l] IN
  \/ p.iterations = 0
  \/ p.insts < InstsPerInvocationThreshold * p.invocations
  \/ p.iterations < IterationThreshold * p.invocations

removeLoopsNotWorthParallelizing ==
  /\ phase = "filter"
  /\ forest' = IF forceParallelization THEN forest
               ELSE {l \in forest : ~NotWorthParallelizing(l)}
  /\ trees' = Roots(forest')
  /\ phase' = "select"
  /\ UNCHANGED <<program, looporder, doallTag, parallelizationOrderIndex,
                 programMaxTimeSaved, programMaxTimeSavedWithDOALLOnly>>

\* The loops of a tree that save enough of the program's time.
Selected(t) ==
  {l \in t : \/ forceParallelization
             \/ TimeSavedByParallelizingLoop(l) * 100
                  >= SavedTimeThreshold * TotalInstructions}

\* The order of the loops: by the time they save, outer loops first among equals.
compareOperator(k, l) ==
  LET s == TimeSavedByParallelizingLoop(k)
      t == TimeSavedByParallelizingLoop(l)
  IN  s > t \/ (s = t /\ NestingLevel(k) < NestingLevel(l))

\* Mutant: the indices start again in each tree.
Order_PerTree(selected) ==
  {o \in Bijection(selected, 0 .. Cardinality(selected) - 1) :
     \A k, l \in selected : compareOperator(k, l) => o[k] < o[l]}

\* Mutant: the index is increased before it is embedded.
Order_FromOne(selected) ==
  LET first == parallelizationOrderIndex + 1
  IN  {o \in Bijection(selected, first .. first + Cardinality(selected) - 1) :
         \A k, l \in selected : compareOperator(k, l) => o[k] < o[l]}

\* The indices a sorted vector of the selected loops gets.
Order(selected) ==
  LET first == parallelizationOrderIndex
  IN  {o \in Bijection(selected, first .. first + Cardinality(selected) - 1) :
         \A k, l \in selected : compareOperator(k, l) => o[k] < o[l]}

\* selectTheOrderOfLoopsToParallelize and the rest of the loop over the trees.
\* Trees are in a set, so that they come in any order.
selectTheOrderOfLoopsToParallelize(root) ==
  LET tree == Tree(forest, root)
      doall == {l \in tree : DOALLCanBeAppliedToLoop(l)}
      selected == Selected(tree)
  IN  /\ phase = "select" /\ root \in trees
      /\ doallTag' = [l \in Loops |-> IF l \notin tree THEN doallTag[l]
                                      ELSE IF l \in doall THEN "yes" ELSE "no"]
      /\ IF selected = {}
         THEN UNCHANGED <<programMaxTimeSaved, programMaxTimeSavedWithDOALLOnly>>
         ELSE /\ programMaxTimeSaved' =
                   programMaxTimeSaved + evaluateSavings(forest, root, tree)
              /\ programMaxTimeSavedWithDOALLOnly' =
                   programMaxTimeSavedWithDOALLOnly
                     + evaluateSavings(forest, root, doall)
      /\ \E o \in Order(selected) :
           looporder' = [l \in DOMAIN looporder \cup selected |->
                           IF l \in selected THEN o[l] ELSE looporder[l]]
      /\ parallelizationOrderIndex' =
           parallelizationOrderIndex + Cardinality(selected)
      /\ trees' = trees \ {root}
      /\ UNCHANGED <<program, phase, forest>>

\* The statistics are printed and the program with its metadata is written.
PlannerExit ==
  /\ phase = "select" /\ trees = {}
  /\ phase' = "planned"
  /\ UNCHANGED <<program, forest, trees, looporder, doallTag,
                 parallelizationOrderIndex, programMaxTimeSaved,
                 programMaxTimeSavedWithDOALLOnly>>

Plan ==
  \/ removeLoopsNotWorthParallelizing
  \/ \E root \in Loops : selectTheOrderOfLoopsToParallelize(root)
  \/ PlannerExit

-----------------------------------------------------------------------------
(* Properties.                                                             *)

\* Sets of loops none of which contains another: what can be parallelized
\* together.
Combinations(s) ==
  {c \in SUBSET s : \A k, l \in c : k # l => ~Overlap(k, l)}

Saved(c) == MapThenSumSet(TimeSavedByParallelizingLoop, c)

\* evaluateSavings reports "the maximum time saved by any combination of loops":
\* the post-order over the trees finds the best of all sets of disjoint loops.
SavingsAreMaximal ==
  phase = "planned" =>
    programMaxTimeSaved =
      LET planned == UNION {Tree(forest, r) : r \in
                              {q \in Roots(forest) : Selected(Tree(forest, q)) # {}}}
      IN  Max({Saved(c) : c \in Combinations(planned)})

\* The same claim for DOALL: "the maximum time saved by any combination of loops
\* nested from @tree (including @tree) when we only have DOALL technique".
DOALLSavingsAreMaximal ==
  phase = "planned" =>
    programMaxTimeSavedWithDOALLOnly =
      LET planned == UNION {Tree(forest, r) : r \in
                              {q \in Roots(forest) : Selected(Tree(forest, q)) # {}}}
      IN  Max({Saved(c) : c \in Combinations({l \in planned : doallTag[l] = "yes"})})
=============================================================================
