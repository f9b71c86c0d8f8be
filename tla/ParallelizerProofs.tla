-------------------------- MODULE ParallelizerProofs --------------------------
(***************************************************************************)
(* Proofs about the planner and the parallelizer, for every program, plan, *)
(* list of loops and choice of techniques: no two loops that were          *)
(* parallelized overlap, every loop of the plan is tried, and what the     *)
(* planner says is saved is the best any combination of loops can save.    *)
(***************************************************************************)
EXTENDS Parallelizer, FiniteSetTheorems, WellFoundedInduction, TLAPS

\* What the plan must look like for the parallelizer: it orders loops of the
\* program by natural numbers.
PlanInv ==
  /\ forest \subseteq Loops
  /\ parallelizationOrderIndex \in Nat
  /\ DOMAIN looporder \subseteq Loops
  /\ \A l \in DOMAIN looporder : looporder[l] \in Nat
  /\ DOMAIN loopParallelizationOrder \subseteq Nat
  /\ \A i \in DOMAIN loopParallelizationOrder : loopParallelizationOrder[i] \in Loops

\* The blocks of the parallelized loops are remembered as modified.
BlocksRemembered ==
  /\ DOMAIN outcome \subseteq Loops
  /\ \A k \in Parallelized : BasicBlocks(k) \subseteq modifiedBBs

DisjointInv == PlanInv /\ BlocksRemembered /\ ParallelizedLoopsAreDisjoint

allVars == <<plannerVars, parallelizerVars>>

-----------------------------------------------------------------------------

\* A set of natural numbers that is not empty has a smallest element.  Proofs by
\* induction are about the smallest counterexample.
LEMMA SmallestOf ==
  ASSUME NEW S, S \subseteq Nat, S # {}
  PROVE  \E x \in S : \A y \in S : x <= y
<1>1. \A x, y \in Nat : <<x, y>> \in OpToRel(<, Nat) <=> x < y
  BY DEF OpToRel
<1>2. IsWellFoundedOn(OpToRel(<, Nat), Nat)
  BY NatLessThanWellFounded
<1>3. PICK x \in S : \A y \in S : ~(<<y, x>> \in OpToRel(<, Nat))
  BY <1>2, WFMin
<1>4. ASSUME NEW y \in S PROVE x <= y
  <2>1. x \in Nat /\ y \in Nat
    OBVIOUS
  <2>2. ~(y < x)
    BY <1>1, <1>3, <2>1, Zenon
  <2> QED BY <2>1, <2>2
<1> QED BY <1>4

\* Min, with which the next index is found, is one of the pending ones.
LEMMA MinIsElement ==
  ASSUME NEW S, S \subseteq Nat, S # {}
  PROVE  Min(S) \in S /\ \A y \in S : Min(S) <= y
<1>1. \E x \in S : \A y \in S : x <= y
  BY SmallestOf
<1> QED BY <1>1 DEF Min

\* The nest of the loops does not change while the program is only annotated.
LEMMA AncestorsUnchanged ==
  ASSUME program' = program, NEW l
  PROVE  Ancestors(l)' = Ancestors(l)
BY DEF Ancestors, Loops, NoParent

\* Nor do the blocks of a loop, as isSafe sees them.
LEMMA BasicBlocksUnchanged ==
  ASSUME program' = program, NEW l
  PROVE  BasicBlocks(l)' = BasicBlocks(l)
BY AncestorsUnchanged DEF BasicBlocks, Loops

\* Loops that overlap share a block: the innermost of the two is in both.
LEMMA OverlapSharesBlocks ==
  ASSUME NEW k \in Loops, NEW l \in Loops, Overlap(k, l)
  PROVE  BasicBlocks(k) \cap BasicBlocks(l) # {}
BY DEF Overlap, BasicBlocks

\* The indices that the selected loops of a tree get are natural numbers.
LEMMA OrderIsNatural ==
  ASSUME NEW S, S \subseteq Loops, parallelizationOrderIndex \in Nat,
         NEW o \in Order(S)
  PROVE  /\ Cardinality(S) \in Nat
         /\ \A l \in S : o[l] \in Nat
<1>1. IsFiniteSet(Loops)
  BY PlannerAssumption, FS_Interval DEF Loops
<1>2. Cardinality(S) \in Nat
  BY <1>1, FS_Subset, FS_CardinalityType
<1>3. o \in [S -> parallelizationOrderIndex ..
                   parallelizationOrderIndex + Cardinality(S) - 1]
  BY DEF Order, Bijection, Injection
<1> QED BY <1>2, <1>3

-----------------------------------------------------------------------------

\* A step of the planner only adds loops with natural indices to the metadata.
LEMMA PlanStep ==
  ASSUME PlanInv, Plan, UNCHANGED parallelizerVars
  PROVE  PlanInv' /\ program' = program
<1>1. CASE removeLoopsNotWorthParallelizing
  BY <1>1 DEF PlanInv, removeLoopsNotWorthParallelizing, parallelizerVars, Loops
<1>2. CASE \E root \in Loops : selectTheOrderOfLoopsToParallelize(root)
  <2>1. PICK root \in Loops : selectTheOrderOfLoopsToParallelize(root)
    BY <1>2
  <2> DEFINE selected == Selected(Tree(forest, root))
  <2>2. selected \subseteq Loops
    BY DEF PlanInv, Selected, Tree
  <2>3. PICK o \in Order(selected) :
          looporder' = [l \in DOMAIN looporder \cup selected |->
                          IF l \in selected THEN o[l] ELSE looporder[l]]
    BY <2>1 DEF selectTheOrderOfLoopsToParallelize
  <2>4. Cardinality(selected) \in Nat /\ \A l \in selected : o[l] \in Nat
    BY <2>2, OrderIsNatural DEF PlanInv
  <2>5. parallelizationOrderIndex' = parallelizationOrderIndex + Cardinality(selected)
    BY <2>1 DEF selectTheOrderOfLoopsToParallelize
  <2>6. /\ DOMAIN looporder' \subseteq Loops
        /\ \A l \in DOMAIN looporder' : looporder'[l] \in Nat
    <3> HIDE DEF selected
    <3> QED BY <2>2, <2>3, <2>4 DEF PlanInv
  <2>7. forest' = forest /\ program' = program
    BY <2>1 DEF selectTheOrderOfLoopsToParallelize
  <2>8. parallelizationOrderIndex' \in Nat
    BY <2>4, <2>5 DEF PlanInv
  <2> QED BY <2>6, <2>7, <2>8 DEF PlanInv, parallelizerVars, Loops
<1>3. CASE PlannerExit
  BY <1>3 DEF PlanInv, PlannerExit, parallelizerVars, Loops
<1> QED BY <1>1, <1>2, <1>3 DEF Plan

\* The map of the loops to try keeps natural indices and loops of the program.
LEMMA DetermineOrderStep ==
  ASSUME PlanInv, DetermineOrder, UNCHANGED plannerVars
  PROVE  PlanInv'
<1> DEFINE candidates == {l \in DOMAIN looporder : isSelected(looporder[l])}
<1>1. PICK o \in [{looporder[l] : l \in candidates} -> candidates] :
        loopParallelizationOrder' = o
  BY DEF DetermineOrder
<1>2. candidates \subseteq Loops /\ \A l \in candidates : looporder[l] \in Nat
  BY DEF PlanInv
<1>3. /\ DOMAIN loopParallelizationOrder' \subseteq Nat
      /\ \A i \in DOMAIN loopParallelizationOrder' : loopParallelizationOrder'[i] \in Loops
  <2> HIDE DEF candidates
  <2> QED BY <1>1, <1>2
<1> QED BY <1>3 DEF PlanInv, plannerVars, Loops

\* Whatever else happens, the tables of the parallelized loops stay as they are.
LEMMA TablesUnchanged ==
  ASSUME BlocksRemembered, ParallelizedLoopsAreDisjoint,
         program' = program, outcome' = outcome, modifiedBBs' = modifiedBBs
  PROVE  BlocksRemembered' /\ ParallelizedLoopsAreDisjoint'
<1>1. Parallelized' = Parallelized
  BY DEF Parallelized, Modifies
<1>2. \A k, l : Overlap(k, l)' <=> Overlap(k, l)
  BY AncestorsUnchanged DEF Overlap
<1>3. \A k : BasicBlocks(k)' = BasicBlocks(k)
  BY BasicBlocksUnchanged
<1>4. BlocksRemembered'
  BY <1>1, <1>3 DEF BlocksRemembered, Loops
<1>5. ParallelizedLoopsAreDisjoint'
  BY <1>1, <1>2 DEF ParallelizedLoopsAreDisjoint
<1> QED BY <1>4, <1>5

\* A loop is parallelized only if none of its blocks was modified, so that it
\* overlaps none of the loops parallelized before.
LEMMA ParallelizeNextStep ==
  ASSUME DisjointInv, ParallelizeNext, UNCHANGED plannerVars
  PROVE  BlocksRemembered' /\ ParallelizedLoopsAreDisjoint'
<1> DEFINE l == loopParallelizationOrder[Min(Pending)]
<1>1. Min(Pending) \in Pending
  BY MinIsElement DEF DisjointInv, PlanInv, Pending, ParallelizeNext
<1>2. l \in Loops /\ l \notin DOMAIN outcome
  BY <1>1 DEF DisjointInv, PlanInv, Pending
<1>3. PICK result \in IF isSafe(l) THEN parallelizeLoop(l) ELSE {Unsafe} :
        /\ outcome' = [k \in DOMAIN outcome \cup {l} |->
                         IF k = l THEN result ELSE outcome[k]]
        /\ modifiedBBs' = IF Modifies(result)
                          THEN modifiedBBs \cup BasicBlocks(l) ELSE modifiedBBs
  BY DEF ParallelizeNext
<1> HIDE DEF l
<1>4. program' = program
  BY DEF plannerVars
<1>5. \A k, m : Overlap(k, m)' <=> Overlap(k, m)
  BY <1>4, AncestorsUnchanged DEF Overlap
<1>6. \A k : BasicBlocks(k)' = BasicBlocks(k)
  BY <1>4, BasicBlocksUnchanged
<1>7. Parallelized' = IF Modifies(result) THEN Parallelized \cup {l} ELSE Parallelized
  BY <1>2, <1>3 DEF Parallelized, Modifies
<1>8. Modifies(result) => isSafe(l)
  BY <1>3 DEF Modifies, Unsafe, NotParallelized
<1>9. BlocksRemembered'
  <2>1. DOMAIN outcome' \subseteq Loops
    BY <1>2, <1>3 DEF DisjointInv, BlocksRemembered
  <2>2. \A k \in Parallelized' : BasicBlocks(k) \subseteq modifiedBBs'
    BY <1>3, <1>7 DEF DisjointInv, BlocksRemembered
  <2> QED BY <2>1, <2>2, <1>6 DEF BlocksRemembered, Loops
<1>10. ParallelizedLoopsAreDisjoint'
  <2>1. ASSUME NEW k \in Parallelized, isSafe(l)
        PROVE  ~Overlap(k, l) /\ ~Overlap(l, k)
    <3>1. k \in Loops /\ BasicBlocks(k) \cap BasicBlocks(l) = {}
      BY <2>1 DEF DisjointInv, BlocksRemembered, Parallelized, isSafe
    <3> QED BY <3>1, <1>2, OverlapSharesBlocks DEF Overlap
  <2> QED BY <2>1, <1>5, <1>7, <1>8 DEF DisjointInv, ParallelizedLoopsAreDisjoint
<1> QED BY <1>9, <1>10

-----------------------------------------------------------------------------

\* Nothing is planned or parallelized when the planner starts.
LEMMA DisjointInit ==
  ASSUME ParallelizerInit
  PROVE  DisjointInv
<1>1. DOMAIN outcome = {} /\ DOMAIN looporder = {} /\ DOMAIN loopParallelizationOrder = {}
  BY DEF Init, ParallelizerInit
<1>2. PlanInv
  BY <1>1 DEF Init, ParallelizerInit, PlanInv
<1>3. Parallelized = {}
  BY <1>1 DEF Parallelized
<1> QED BY <1>1, <1>2, <1>3 DEF DisjointInv, BlocksRemembered, ParallelizedLoopsAreDisjoint

\* Every step of the planner and of the parallelizer keeps the invariant.
LEMMA DisjointStep ==
  ASSUME DisjointInv, [Next]_allVars
  PROVE  DisjointInv'
<1>1. CASE Plan /\ UNCHANGED parallelizerVars
  <2>1. PlanInv' /\ program' = program
    BY <1>1, PlanStep DEF DisjointInv
  <2> QED BY <1>1, <2>1, TablesUnchanged DEF DisjointInv, parallelizerVars
<1>2. CASE Parallelize /\ UNCHANGED plannerVars
  <2>1. CASE doInitialization
    BY <1>2, <2>1, TablesUnchanged
       DEF DisjointInv, PlanInv, doInitialization, plannerVars, Loops
  <2>2. CASE collectThreadPoolHelperFunctionsAndTypes
    BY <1>2, <2>2, TablesUnchanged
       DEF DisjointInv, PlanInv, collectThreadPoolHelperFunctionsAndTypes,
           plannerVars, Loops
  <2>3. CASE DetermineOrder
    BY <1>2, <2>3, TablesUnchanged, DetermineOrderStep
       DEF DisjointInv, DetermineOrder, plannerVars
  <2>4. CASE ParallelizeNext
    <3>1. PlanInv'
      BY <1>2, <2>4 DEF DisjointInv, PlanInv, ParallelizeNext, plannerVars, Loops
    <3> QED BY <1>2, <2>4, <3>1, ParallelizeNextStep DEF DisjointInv
  <2>5. CASE ParallelizerExit
    BY <1>2, <2>5, TablesUnchanged
       DEF DisjointInv, PlanInv, ParallelizerExit, plannerVars, Loops
  <2> QED BY <1>2, <2>1, <2>2, <2>3, <2>4, <2>5 DEF Parallelize
<1>3. CASE UNCHANGED allVars
  BY <1>3, TablesUnchanged
     DEF allVars, DisjointInv, PlanInv, plannerVars, parallelizerVars, Loops
<1> QED BY <1>1, <1>2, <1>3 DEF Next, Terminated, allVars

\* For every program, every order the planner may embed, every list of loops and
\* every technique that applies or gives up, the loops that are parallelized do
\* not overlap: isSafe finds an overlap in both directions.
THEOREM LoopsAreDisjoint == Spec => []ParallelizedLoopsAreDisjoint
<1>1. ParallelizerInit => DisjointInv
  BY DisjointInit
<1>2. DisjointInv /\ [Next]_allVars => DisjointInv'
  BY DisjointStep
<1>3. DisjointInv => ParallelizedLoopsAreDisjoint
  BY DEF DisjointInv
<1> QED BY <1>1, <1>2, <1>3, PTL DEF Spec, allVars

-----------------------------------------------------------------------------
(* The nest of the loops.                                                  *)

\* The ancestors of a loop as a function of all loops.
Nesting(up) ==
  up = [n \in Loops |-> IF program[n].parent = NoParent THEN {}
                        ELSE {program[n].parent} \cup up[program[n].parent]]

\* Parents come before their children.
LEMMA Parents ==
  ASSUME program \in Programs, NEW l \in Loops
  PROVE  /\ program[l].parent \in Nat /\ program[l].parent < l
         /\ program[l].parent # NoParent => program[l].parent \in Loops
<1>1. /\ N \in Nat \ {0} /\ program[l].parent \in Loops \cup {NoParent}
      /\ program[l].parent < l
  BY PlannerAssumption DEF PlannerAssumption, LoopType
<1> QED BY <1>1 DEF Loops, NoParent

\* Ancestors is defined: the nest of the first m loops is, for every m.
LEMMA NestingExists ==
  ASSUME program \in Programs
  PROVE  \E up : Nesting(up)
<1> DEFINE P(n) == program[n].parent
           Upto(m, up) == up = [n \in 1 .. m |-> IF P(n) = NoParent THEN {}
                                                ELSE {P(n)} \cup up[P(n)]]
           Bad == {m \in Nat : m <= N /\ ~ \E up : Upto(m, up)}
<1>1. N \in Nat
  BY PlannerAssumption DEF PlannerAssumption
<1> HIDE DEF Upto
<1>2. ASSUME Bad # {} PROVE FALSE
  <2>1. PICK m \in Bad : \A k \in Bad : m <= k
    BY <1>2, SmallestOf
  <2>2. m \in Nat /\ m <= N /\ ~ \E up : Upto(m, up)
    OBVIOUS
  <2>3. m # 0
    <3>1. Upto(0, [n \in 1 .. 0 |-> {}])
      BY DEF Upto
    <3> QED BY <2>2, <3>1
  <2>4. m - 1 \in Nat /\ m - 1 <= N /\ m - 1 \notin Bad
    <3> HIDE DEF Bad
    <3> QED BY <1>1, <2>1, <2>2, <2>3
  <2>5. PICK f : Upto(m - 1, f)
    BY <2>4
  <2> HIDE DEF Bad
  <2> DEFINE g == [n \in 1 .. m |-> IF P(n) = NoParent THEN {} ELSE {P(n)} \cup f[P(n)]]
  <2>6. \A n \in 1 .. m : P(n) \in Nat /\ P(n) < n
    <3>1. \A n \in 1 .. m : n \in Loops
      BY <1>1, <2>2 DEF Loops
    <3> QED BY <3>1, Parents
  <2>7. \A n \in 1 .. m : P(n) # NoParent => P(n) \in 1 .. m - 1
    BY <2>2, <2>6 DEF NoParent
  <2>8. ASSUME NEW k \in 1 .. m - 1 PROVE g[k] = f[k]
    <3>1. k \in 1 .. m
      BY <2>2
    <3>2. f[k] = IF P(k) = NoParent THEN {} ELSE {P(k)} \cup f[P(k)]
      BY <2>5, Zenon DEF Upto
    <3> QED BY <3>1, <3>2
  <2>9. \A n \in 1 .. m : P(n) # NoParent => f[P(n)] = g[P(n)]
    BY <2>7, <2>8
  <2>10. Upto(m, g)
    BY <2>9, Zenon DEF Upto
  <2> QED BY <2>2, <2>10
<1>3. \E up : Upto(N, up)
  BY <1>1, <1>2
<1> QED BY <1>3 DEF Nesting, Loops, Upto

\* The ancestors of a loop are its parent and the ancestors of its parent.
LEMMA AncestorsAre ==
  ASSUME program \in Programs, NEW l \in Loops
  PROVE  Ancestors(l) = IF program[l].parent = NoParent THEN {}
                        ELSE {program[l].parent} \cup Ancestors(program[l].parent)
<1> DEFINE up == CHOOSE f : Nesting(f)
<1>1. Nesting(up)
  BY NestingExists
<1>2. \A n : Ancestors(n) = up[n]
  BY DEF Ancestors, Nesting
<1> HIDE DEF up
<1> QED BY <1>1, <1>2 DEF Nesting

\* Induction over the nest, from the outside to the inside.
LEMMA NestInduction ==
  ASSUME program \in Programs, NEW S, S \subseteq Loops,
         \A l \in Loops :
           (program[l].parent # NoParent => program[l].parent \in S) => l \in S
  PROVE  S = Loops
<1> DEFINE Bad == Loops \ S
<1>1. Bad \subseteq Nat
  BY PlannerAssumption DEF PlannerAssumption, Loops
<1>2. ASSUME Bad # {} PROVE FALSE
  <2>1. PICK l \in Bad : \A k \in Bad : l <= k
    BY <1>1, <1>2, SmallestOf
  <2>2. /\ program[l].parent \in Nat /\ program[l].parent < l
        /\ program[l].parent # NoParent => program[l].parent \in Loops
    BY Parents
  <2>3. program[l].parent \notin Bad
    BY <1>1, <2>1, <2>2
  <2> QED BY <2>2, <2>3
<1> QED BY <1>2

\* Ancestors are loops outside of the loop.
LEMMA AncestorsType ==
  ASSUME program \in Programs, NEW l \in Loops
  PROVE  /\ Ancestors(l) \subseteq Loops /\ l \notin Ancestors(l)
         /\ \A k \in Ancestors(l) : k < l
<1> DEFINE S == {n \in Loops : Ancestors(n) \subseteq 1 .. n - 1}
<1>1. N \in Nat
  BY PlannerAssumption DEF PlannerAssumption
<1>2. ASSUME NEW n \in Loops, program[n].parent # NoParent => program[n].parent \in S
      PROVE  n \in S
  <2>1. /\ program[n].parent \in Nat /\ program[n].parent < n /\ n \in Nat
        /\ program[n].parent # NoParent => program[n].parent \in 1 .. n - 1
    BY <1>1, Parents DEF Loops
  <2>2. CASE program[n].parent = NoParent
    BY <2>2, AncestorsAre
  <2>3. CASE program[n].parent # NoParent
    <3>1. Ancestors(program[n].parent) \subseteq 1 .. program[n].parent - 1
      BY <1>2, <2>3
    <3>2. Ancestors(n) = {program[n].parent} \cup Ancestors(program[n].parent)
      BY <2>3, AncestorsAre
    <3>3. 1 .. program[n].parent - 1 \subseteq 1 .. n - 1
      BY <2>1
    <3>4. Ancestors(n) \subseteq 1 .. n - 1
      BY <2>1, <2>3, <3>1, <3>2, <3>3
    <3> QED BY <3>4
  <2> QED BY <2>2, <2>3
<1>3. S = Loops
  <2> HIDE DEF S
  <2>1. S \subseteq Loops
    BY DEF S
  <2> QED BY <1>2, <2>1, NestInduction
<1>4. Ancestors(l) \subseteq 1 .. l - 1 /\ l \in Nat /\ l <= N
  BY <1>1, <1>3 DEF Loops
<1> QED BY <1>1, <1>4 DEF Loops

\* An ancestor of an ancestor is an ancestor.
LEMMA AncestorsTransitive ==
  ASSUME program \in Programs, NEW l \in Loops, NEW k \in Ancestors(l)
  PROVE  Ancestors(k) \subseteq Ancestors(l)
<1> DEFINE S == {n \in Loops : \A j \in Ancestors(n) : Ancestors(j) \subseteq Ancestors(n)}
<1>1. ASSUME NEW n \in Loops, program[n].parent # NoParent => program[n].parent \in S
      PROVE  n \in S
  <2>1. CASE program[n].parent = NoParent
    BY <2>1, AncestorsAre
  <2>2. CASE program[n].parent # NoParent
    <3>1. Ancestors(n) = {program[n].parent} \cup Ancestors(program[n].parent)
      BY <2>2, AncestorsAre
    <3> QED BY <1>1, <2>2, <3>1
  <2> QED BY <2>1, <2>2
<1>2. S = Loops
  <2> HIDE DEF S
  <2>1. S \subseteq Loops
    BY DEF S
  <2> QED BY <1>1, <2>1, NestInduction
<1> QED BY <1>2

\* Two loops around the same loop are nested in each other.
LEMMA AncestorsChain ==
  ASSUME program \in Programs, NEW l \in Loops, NEW j \in Ancestors(l),
         NEW k \in Ancestors(l)
  PROVE  Overlap(j, k)
<1> DEFINE S == {n \in Loops : \A x, y \in Ancestors(n) : Overlap(x, y)}
<1>1. ASSUME NEW n \in Loops, program[n].parent # NoParent => program[n].parent \in S
      PROVE  n \in S
  <2>1. CASE program[n].parent = NoParent
    BY <2>1, AncestorsAre
  <2>2. CASE program[n].parent # NoParent
    <3>1. Ancestors(n) = {program[n].parent} \cup Ancestors(program[n].parent)
      BY <2>2, AncestorsAre
    <3>2. \A x, y \in Ancestors(program[n].parent) : Overlap(x, y)
      BY <1>1, <2>2
    <3>3. \A x, y \in Ancestors(n) : Overlap(x, y)
      BY <3>1, <3>2 DEF Overlap
    <3> QED BY <3>3
  <2> QED BY <2>1, <2>2
<1>2. S = Loops
  <2> HIDE DEF S
  <2>1. S \subseteq Loops
    BY DEF S
  <2> QED BY <1>1, <2>1, NestInduction
<1> QED BY <1>2

\* Loops that share a block overlap: the converse of OverlapSharesBlocks.
LEMMA SharedBlocksOverlap ==
  ASSUME program \in Programs, NEW k \in Loops, NEW l \in Loops,
         BasicBlocks(k) \cap BasicBlocks(l) # {}
  PROVE  Overlap(k, l)
<1>1. PICK b \in Loops : /\ b = k \/ k \in Ancestors(b)
                         /\ b = l \/ l \in Ancestors(b)
  BY DEF BasicBlocks
<1> QED BY <1>1, AncestorsChain DEF Overlap

\* Loops of different trees of a forest do not overlap.
LEMMA TreesAreApart ==
  ASSUME program \in Programs, NEW f, f \subseteq Loops,
         NEW q \in Roots(f), NEW r \in Roots(f),
         NEW k \in Tree(f, q), NEW l \in Tree(f, r), Overlap(k, l)
  PROVE  q = r
<1>1. /\ k \in f /\ l \in f /\ q \in f /\ r \in f
      /\ Ancestors(q) \cap f = {} /\ Ancestors(r) \cap f = {}
      /\ k = q \/ q \in Ancestors(k)
      /\ l = r \/ r \in Ancestors(l)
  BY DEF Roots, Tree
<1>2. ASSUME NEW x \in f, x = q \/ q \in Ancestors(x), x = r \/ r \in Ancestors(x)
      PROVE  q = r
  <2>1. x = q => q = r
    BY <1>1, <1>2
  <2>2. x = r => q = r
    BY <1>1, <1>2
  <2>3. q \in Ancestors(x) /\ r \in Ancestors(x) => Overlap(q, r)
    BY AncestorsChain
  <2> QED BY <1>1, <1>2, <2>1, <2>2, <2>3 DEF Overlap
<1>3. CASE k = l
  BY <1>1, <1>2, <1>3
<1>4. CASE k \in Ancestors(l)
  <2>1. Ancestors(k) \subseteq Ancestors(l)
    BY <1>1, <1>4, AncestorsTransitive
  <2> QED BY <1>1, <1>2, <1>4, <2>1
<1>5. CASE l \in Ancestors(k)
  <2>1. Ancestors(l) \subseteq Ancestors(k)
    BY <1>1, <1>5, AncestorsTransitive
  <2> QED BY <1>1, <1>2, <1>5, <2>1
<1> QED BY <1>3, <1>4, <1>5 DEF Overlap

-----------------------------------------------------------------------------
(* The time that a loop saves.                                             *)

\* A finite set of natural numbers that is not empty has a largest element.
LEMMA MaxIsElement ==
  ASSUME NEW S, S \subseteq Nat, S # {}, IsFiniteSet(S)
  PROVE  Max(S) \in S /\ \A y \in S : Max(S) >= y
<1> DEFINE HasMax(T) == \E x \in T : \A y \in T : x >= y
           Bad == {n \in Nat : \E T \in SUBSET Nat :
                     T # {} /\ IsFiniteSet(T) /\ Cardinality(T) = n /\ ~ HasMax(T)}
<1>1. ASSUME Bad # {} PROVE FALSE
  <2>1. PICK n \in Bad : \A k \in Bad : n <= k
    <3>1. Bad \subseteq Nat
      OBVIOUS
    <3> HIDE DEF Bad
    <3> QED BY <1>1, <3>1, SmallestOf
  <2>2. PICK T \in SUBSET Nat :
          T # {} /\ IsFiniteSet(T) /\ Cardinality(T) = n /\ ~ HasMax(T)
    BY <2>1
  <2>3. PICK x \in T : x \in Nat
    BY <2>2
  <2> DEFINE U == T \ {x}
  <2>4. U \in SUBSET Nat /\ IsFiniteSet(U) /\ Cardinality(U) = n - 1 /\ Cardinality(U) \in Nat
    BY <2>2, <2>3, FS_RemoveElement, FS_CardinalityType
  <2>5. n - 1 \in Nat /\ n \in Nat /\ n - 1 \notin Bad
    <3>1. n \in Nat
      BY <2>1
    <3> HIDE DEF Bad
    <3> QED BY <2>1, <2>4, <3>1
  <2>6. CASE U = {}
    <3>1. T = {x}
      BY <2>3, <2>6
    <3> QED BY <2>2, <2>3, <3>1
  <2>7. CASE U # {}
    <3>1. HasMax(U)
      <4> HIDE DEF HasMax, U
      <4> QED BY <2>4, <2>5, <2>7
    <3>2. PICK m \in U : \A y \in U : m >= y
      BY <3>1
    <3>3. m \in Nat /\ m \in T
      BY <2>4
    <3>4. CASE m >= x
      BY <2>2, <3>2, <3>3, <3>4
    <3>5. CASE ~ (m >= x)
      <4>1. \A y \in T : y \in Nat /\ (y = x \/ m >= y)
        BY <2>2, <3>2
      <4> QED BY <2>2, <2>3, <3>3, <3>5, <4>1
    <3> QED BY <3>4, <3>5
  <2> QED BY <2>6, <2>7
<1>2. HasMax(S)
  <2> HIDE DEF HasMax
  <2> QED BY <1>1, FS_CardinalityType
<1> QED BY <1>2 DEF Max

LEMMA SavedType ==
  ASSUME program \in Programs, NEW l \in Loops
  PROVE  TimeSavedByParallelizingLoop(l) \in Int
<1> DEFINE B == getSCCsThatBlockDOALLToBeApplicable(l)
           I == {s.insts : s \in B}
           f == [s \in B |-> s.insts]
<1>1. /\ IsFiniteSet(program[l].sccs) /\ program[l].sccs \subseteq SCCType
      /\ program[l].insts \in Nat
  BY PlannerAssumption DEF PlannerAssumption, LoopType
<1>2. B \subseteq program[l].sccs
  BY DEF getSCCsThatBlockDOALLToBeApplicable
<1>3. IsFiniteSet(B)
  <2> HIDE DEF B
  <2> QED BY <1>1, <1>2, FS_Subset
<1>4. I \subseteq Nat
  <2> HIDE DEF B
  <2> QED BY <1>1, <1>2 DEF SCCType
<1>5. IsFiniteSet(I)
  <2> HIDE DEF B
  <2>1. f \in Surjection(B, I)
    BY DEF Surjection
  <2> HIDE DEF I, f
  <2> QED BY <1>3, <2>1, FS_Surjection
<1>6. Max({0} \cup I) \in Nat
  <2> HIDE DEF I
  <2>1. IsFiniteSet(I \cup {0}) /\ I \cup {0} = {0} \cup I
    BY <1>5, FS_AddElement
  <2>2. {0} \cup I \subseteq Nat
    BY <1>4
  <2> QED BY <2>1, <2>2, MaxIsElement
<1> HIDE DEF B
<1>7. TimeSpentInCriticalPath(l) \in Nat
  BY <1>6 DEF TimeSpentInCriticalPath, B
<1> QED BY <1>1, <1>7 DEF TimeSavedByParallelizingLoop

LEMMA SavedUnchanged ==
  ASSUME program' = program, NEW l
  PROVE  TimeSavedByParallelizingLoop(l)' = TimeSavedByParallelizingLoop(l)
BY DEF TimeSavedByParallelizingLoop, TimeSpentInCriticalPath,
       getSCCsThatBlockDOALLToBeApplicable

-----------------------------------------------------------------------------
(* The plan: one index for each loop, and by the time it saves where loops *)
(* overlap.                                                                *)

PlannedInv ==
  /\ program \in Programs
  /\ forest \subseteq Loops /\ trees \subseteq Roots(forest)
  /\ parallelizationOrderIndex \in Nat
  /\ phase = "filter" => DOMAIN looporder = {}
  /\ \A l \in DOMAIN looporder :
       /\ looporder[l] \in Nat /\ looporder[l] < parallelizationOrderIndex
       /\ \E r \in Roots(forest) \ trees : l \in Tree(forest, r)
  /\ \A k, l \in DOMAIN looporder :
       /\ looporder[k] = looporder[l] => k = l
       /\ Overlap(k, l) /\ looporder[k] < looporder[l] =>
            TimeSavedByParallelizingLoop(k) >= TimeSavedByParallelizingLoop(l)

\* The shape of a forest depends on the program only.
LEMMA ForestUnchanged ==
  ASSUME program' = program
  PROVE  /\ \A k, l : Overlap(k, l)' <=> Overlap(k, l)
         /\ forest' = forest => /\ Roots(forest)' = Roots(forest)
                               /\ \A r : Tree(forest, r)' = Tree(forest, r)
<1>1. \A l : Ancestors(l)' = Ancestors(l)
  BY AncestorsUnchanged
<1> QED BY <1>1 DEF Overlap, Roots, Tree

\* The steps that do not touch the plan.
LEMMA PlannedKept ==
  ASSUME PlannedInv, program' = program, forest' = forest, trees' = trees,
         looporder' = looporder, parallelizationOrderIndex' = parallelizationOrderIndex,
         phase' = phase \/ phase' # "filter"
  PROVE  PlannedInv'
<1>1. /\ \A k, l : Overlap(k, l)' <=> Overlap(k, l)
      /\ Roots(forest)' = Roots(forest)
      /\ \A r : Tree(forest, r)' = Tree(forest, r)
  BY ForestUnchanged
<1>2. \A l : TimeSavedByParallelizingLoop(l)' = TimeSavedByParallelizingLoop(l)
  BY SavedUnchanged
<1>3. trees' \subseteq Roots(forest)'
  BY <1>1 DEF PlannedInv
<1>4. \A l \in DOMAIN looporder : \E r \in Roots(forest)' \ trees' : l \in Tree(forest, r)'
  BY <1>1 DEF PlannedInv
<1>5. \A k, l \in DOMAIN looporder : Overlap(k, l)' /\ looporder[k] < looporder[l] =>
        TimeSavedByParallelizingLoop(k)' >= TimeSavedByParallelizingLoop(l)'
  BY <1>1, <1>2 DEF PlannedInv
<1> QED BY <1>3, <1>4, <1>5 DEF PlannedInv, Loops

\* The loops of one tree are sorted by the time they save.
LEMMA OrderIsSorted ==
  ASSUME program \in Programs, parallelizationOrderIndex \in Nat,
         NEW S, S \subseteq Loops, NEW o \in Order(S)
  PROVE  /\ Cardinality(S) \in Nat
         /\ \A l \in S : /\ o[l] \in Nat /\ parallelizationOrderIndex <= o[l]
                         /\ o[l] < parallelizationOrderIndex + Cardinality(S)
         /\ \A k, l \in S :
              /\ o[k] = o[l] => k = l
              /\ o[k] < o[l] =>
                   TimeSavedByParallelizingLoop(k) >= TimeSavedByParallelizingLoop(l)
<1>1. Cardinality(S) \in Nat
  BY OrderIsNatural
<1>2. /\ o \in [S -> parallelizationOrderIndex ..
                      parallelizationOrderIndex + Cardinality(S) - 1]
      /\ \A k, l \in S : o[k] = o[l] => k = l
      /\ \A k, l \in S : compareOperator(k, l) => o[k] < o[l]
  BY DEF Order, Bijection, Injection, IsInjective
<1>3. \A l \in S : /\ o[l] \in Nat /\ parallelizationOrderIndex <= o[l]
                   /\ o[l] < parallelizationOrderIndex + Cardinality(S)
  BY <1>1, <1>2
<1>4. ASSUME NEW k \in S, NEW l \in S, o[k] < o[l]
      PROVE  TimeSavedByParallelizingLoop(k) >= TimeSavedByParallelizingLoop(l)
  <2>1. ~ compareOperator(l, k)
    BY <1>2, <1>3, <1>4
  <2>2. TimeSavedByParallelizingLoop(k) \in Int /\ TimeSavedByParallelizingLoop(l) \in Int
    BY SavedType
  <2> QED BY <2>1, <2>2 DEF compareOperator
<1> QED BY <1>1, <1>2, <1>3, <1>4

\* The indices of a tree follow those of the trees before it.
LEMMA SelectStep ==
  ASSUME PlannedInv, NEW root \in Loops, selectTheOrderOfLoopsToParallelize(root)
  PROVE  PlannedInv'
<1> DEFINE S == Selected(Tree(forest, root))
           n == parallelizationOrderIndex
<1>1. S \subseteq Tree(forest, root) /\ S \subseteq Loops /\ root \in Roots(forest)
  BY DEF PlannedInv, Selected, Tree, selectTheOrderOfLoopsToParallelize
<1>2. PICK o \in Order(S) :
        looporder' = [l \in DOMAIN looporder \cup S |->
                        IF l \in S THEN o[l] ELSE looporder[l]]
  BY DEF selectTheOrderOfLoopsToParallelize
<1>3. /\ program' = program /\ forest' = forest /\ trees' = trees \ {root}
      /\ n' = n + Cardinality(S) /\ phase' = "select" /\ root \in trees
  BY DEF selectTheOrderOfLoopsToParallelize
<1> HIDE DEF S
<1>4. program \in Programs /\ n \in Nat /\ Cardinality(S) \in Nat /\ forest \subseteq Loops
  BY <1>1, OrderIsSorted DEF PlannedInv
<1>5. /\ \A l \in S : o[l] \in Nat /\ n <= o[l] /\ o[l] < n + Cardinality(S)
      /\ \A k, l \in S :
           /\ o[k] = o[l] => k = l
           /\ o[k] < o[l] =>
                TimeSavedByParallelizingLoop(k) >= TimeSavedByParallelizingLoop(l)
  BY <1>1, <1>4, OrderIsSorted
<1>6. \A l \in DOMAIN looporder : looporder[l] \in Nat /\ looporder[l] < n
  BY DEF PlannedInv
<1>7. DOMAIN looporder' = DOMAIN looporder \cup S
  BY <1>2
<1>8. \A l \in DOMAIN looporder' : looporder'[l] = IF l \in S THEN o[l] ELSE looporder[l]
  BY <1>2
<1>9. /\ \A k, l : Overlap(k, l)' <=> Overlap(k, l)
      /\ Roots(forest)' = Roots(forest)
      /\ \A r : Tree(forest, r)' = Tree(forest, r)
      /\ \A l : TimeSavedByParallelizingLoop(l)' = TimeSavedByParallelizingLoop(l)
  BY <1>3, ForestUnchanged, SavedUnchanged
<1>10. \A l \in DOMAIN looporder' : looporder'[l] \in Nat /\ looporder'[l] < n'
  BY <1>3, <1>4, <1>5, <1>6, <1>7, <1>8
<1>11. ASSUME NEW l \in DOMAIN looporder'
       PROVE  \E r \in Roots(forest) \ trees' : l \in Tree(forest, r)
  <2>1. CASE l \in S
    BY <1>1, <1>3, <2>1
  <2>2. CASE l \in DOMAIN looporder
    BY <1>3, <2>2 DEF PlannedInv
  <2> QED BY <1>7, <2>1, <2>2
<1>12. ASSUME NEW k \in DOMAIN looporder', NEW l \in DOMAIN looporder',
              looporder'[k] = looporder'[l]
       PROVE  k = l
  <2>1. CASE k \in S /\ l \in S
    BY <1>5, <1>8, <1>12, <2>1
  <2>2. CASE k \notin S /\ l \notin S
    BY <1>7, <1>8, <1>12, <2>2 DEF PlannedInv
  <2>3. CASE k \in S /\ l \notin S
    BY <1>4, <1>5, <1>6, <1>7, <1>8, <1>12, <2>3
  <2>4. CASE k \notin S /\ l \in S
    BY <1>4, <1>5, <1>6, <1>7, <1>8, <1>12, <2>4
  <2> QED BY <2>1, <2>2, <2>3, <2>4
<1>13. ASSUME NEW k \in S, NEW l \in DOMAIN looporder PROVE ~ Overlap(k, l) /\ ~ Overlap(l, k)
  <2>1. PICK r \in Roots(forest) \ trees : l \in Tree(forest, r)
    BY DEF PlannedInv
  <2>2. k \in Tree(forest, root) /\ r # root
    BY <1>1, <1>3
  <2>3. ~ Overlap(k, l)
    BY <1>1, <1>4, <2>1, <2>2, TreesAreApart
  <2> QED BY <2>3 DEF Overlap
<1>14. ASSUME NEW k \in DOMAIN looporder', NEW l \in DOMAIN looporder',
              Overlap(k, l), looporder'[k] < looporder'[l]
       PROVE  TimeSavedByParallelizingLoop(k) >= TimeSavedByParallelizingLoop(l)
  <2>1. CASE k \in S /\ l \in S
    BY <1>5, <1>8, <1>14, <2>1
  <2>2. CASE k \notin S /\ l \notin S
    BY <1>7, <1>8, <1>14, <2>2 DEF PlannedInv
  <2>3. CASE k \in S /\ l \notin S
    BY <1>7, <1>13, <1>14, <2>3
  <2>4. CASE k \notin S /\ l \in S
    BY <1>7, <1>13, <1>14, <2>4
  <2> QED BY <2>1, <2>2, <2>3, <2>4
<1>15. /\ program' \in Programs /\ forest' \subseteq Loops /\ trees' \subseteq Roots(forest)
       /\ n' \in Nat /\ phase' # "filter"
  BY <1>3, <1>4 DEF PlannedInv
<1>16. \A k, l \in DOMAIN looporder' :
         /\ looporder'[k] = looporder'[l] => k = l
         /\ Overlap(k, l)' /\ looporder'[k] < looporder'[l] =>
              TimeSavedByParallelizingLoop(k)' >= TimeSavedByParallelizingLoop(l)'
  BY <1>9, <1>12, <1>14
<1>17. \A l \in DOMAIN looporder' : \E r \in Roots(forest)' \ trees' : l \in Tree(forest, r)'
  BY <1>9, <1>11
<1> QED BY <1>9, <1>10, <1>15, <1>16, <1>17 DEF PlannedInv, Loops

LEMMA PlannedStep ==
  ASSUME PlannedInv, Plan
  PROVE  PlannedInv'
<1>1. CASE removeLoopsNotWorthParallelizing
  <2>1. /\ program' = program /\ looporder' = looporder /\ DOMAIN looporder = {}
        /\ parallelizationOrderIndex' = parallelizationOrderIndex
        /\ forest' \subseteq forest /\ trees' = Roots(forest') /\ phase' = "select"
    BY <1>1 DEF removeLoopsNotWorthParallelizing, PlannedInv
  <2>2. Roots(forest)' = Roots(forest')
    BY <2>1, AncestorsUnchanged DEF Roots
  <2> QED BY <2>1, <2>2 DEF PlannedInv, Loops
<1>2. CASE \E root \in Loops : selectTheOrderOfLoopsToParallelize(root)
  BY <1>2, SelectStep
<1>3. CASE PlannerExit
  BY <1>3, PlannedKept DEF PlannerExit
<1> QED BY <1>1, <1>2, <1>3 DEF Plan

-----------------------------------------------------------------------------
(* The parallelizer tries the loops that the lists select by their index.  *)

Candidates == {l \in DOMAIN looporder : isSelected(looporder[l])}

TriedInv ==
  /\ stage # "load" => phase = "planned"
  /\ stage \in {"load", "start", "abort"} => DOMAIN outcome = {} /\ modifiedBBs = {}
  /\ stage \in {"parallelize", "exit"} =>
       /\ DOMAIN outcome \subseteq Candidates
       /\ \A i \in DOMAIN loopParallelizationOrder :
            /\ loopParallelizationOrder[i] \in Candidates
            /\ looporder[loopParallelizationOrder[i]] = i
       /\ \A l \in Candidates : looporder[l] \in DOMAIN loopParallelizationOrder
       /\ \A k \in DOMAIN outcome, l \in Candidates \ DOMAIN outcome :
            looporder[k] < looporder[l]
  /\ stage = "exit" => Candidates \subseteq DOMAIN outcome

\* A loop that was not safe overlaps a parallelized one that saves as much.
Excused(l) ==
  \E k \in Parallelized :
    /\ Overlap(k, l)
    /\ TimeSavedByParallelizingLoop(k) >= TimeSavedByParallelizingLoop(l)

\* Only the blocks of parallelized loops are modified.
UnsafeInv ==
  /\ \A b \in modifiedBBs : \E k \in Parallelized : b \in BasicBlocks(k)
  /\ \A l \in DOMAIN outcome : outcome[l] = Unsafe => Excused(l)

OrderInv == DisjointInv /\ PlannedInv /\ TriedInv /\ UnsafeInv

\* The steps that try no loop.
LEMMA UnsafeKept ==
  ASSUME UnsafeInv, program' = program, outcome' = outcome, modifiedBBs' = modifiedBBs
  PROVE  UnsafeInv'
<1>1. Parallelized' = Parallelized
  BY DEF Parallelized, Modifies
<1>2. /\ \A k, l : Overlap(k, l)' <=> Overlap(k, l)
      /\ \A k : BasicBlocks(k)' = BasicBlocks(k)
      /\ \A l : TimeSavedByParallelizingLoop(l)' = TimeSavedByParallelizingLoop(l)
  BY ForestUnchanged, BasicBlocksUnchanged, SavedUnchanged
<1>3. \A l : Excused(l)' <=> Excused(l)
  BY <1>1, <1>2 DEF Excused
<1> QED BY <1>1, <1>2, <1>3 DEF UnsafeInv, Unsafe

\* The planner works before the parallelizer is loaded.
LEMMA TriedInvPlan ==
  ASSUME TriedInv, Plan, UNCHANGED parallelizerVars
  PROVE  TriedInv'
<1>1. phase # "planned"
  BY DEF Plan, removeLoopsNotWorthParallelizing, selectTheOrderOfLoopsToParallelize,
         PlannerExit
<1>2. stage = "load" /\ UNCHANGED <<stage, outcome, modifiedBBs>>
  BY <1>1 DEF TriedInv, parallelizerVars
<1> QED BY <1>2 DEF TriedInv

LEMMA TriedInvOrder ==
  ASSUME PlannedInv, TriedInv, DetermineOrder, UNCHANGED plannerVars
  PROVE  TriedInv'
<1>1. Candidates' = Candidates /\ looporder' = looporder /\ phase' = phase
  BY DEF DetermineOrder, plannerVars, Candidates, isSelected
<1>2. PICK o \in [{looporder[l] : l \in Candidates} -> Candidates] :
        /\ \A i \in DOMAIN o : looporder[o[i]] = i
        /\ loopParallelizationOrder' = o
  BY DEF DetermineOrder, Candidates
<1>3. /\ stage = "start" /\ stage' = "parallelize" /\ outcome' = outcome
      /\ DOMAIN outcome = {} /\ phase = "planned"
  BY DEF DetermineOrder, TriedInv
<1> HIDE DEF Candidates
<1>4. /\ \A i \in DOMAIN o : o[i] \in Candidates /\ looporder[o[i]] = i
      /\ \A l \in Candidates : looporder[l] \in DOMAIN o
  BY <1>2
<1> QED BY <1>1, <1>2, <1>3, <1>4 DEF TriedInv

\* No loop replaces another in the map: the indices are different.
LEMMA OrderFindsLoops ==
  ASSUME PlannedInv, TriedInv, stage \in {"parallelize", "exit"}, NEW l \in Candidates
  PROVE  /\ looporder[l] \in DOMAIN loopParallelizationOrder
         /\ loopParallelizationOrder[looporder[l]] = l
<1>1. looporder[l] \in DOMAIN loopParallelizationOrder
  BY DEF TriedInv
<1> DEFINE k == loopParallelizationOrder[looporder[l]]
<1>2. k \in Candidates /\ looporder[k] = looporder[l]
  BY <1>1 DEF TriedInv
<1>3. k \in DOMAIN looporder /\ l \in DOMAIN looporder
  BY <1>2 DEF Candidates
<1> QED BY <1>1, <1>2, <1>3 DEF PlannedInv

LEMMA TriedInvOthers ==
  ASSUME PlannedInv, TriedInv, UNCHANGED plannerVars,
         \/ doInitialization \/ collectThreadPoolHelperFunctionsAndTypes
         \/ ParallelizerExit \/ UNCHANGED parallelizerVars
  PROVE  TriedInv'
<1>1. CASE doInitialization
  BY <1>1 DEF TriedInv, doInitialization, plannerVars
<1>2. CASE collectThreadPoolHelperFunctionsAndTypes
  BY <1>2 DEF TriedInv, collectThreadPoolHelperFunctionsAndTypes, plannerVars
<1>3. CASE ParallelizerExit
  <2>1. /\ Candidates' = Candidates /\ stage = "parallelize" /\ stage' = "exit"
        /\ UNCHANGED <<outcome, loopParallelizationOrder, looporder, phase>>
        /\ Pending = {}
    BY <1>3 DEF ParallelizerExit, plannerVars, Candidates, isSelected
  <2> HIDE DEF Candidates
  <2>2. Candidates \subseteq DOMAIN outcome
    BY <2>1, OrderFindsLoops DEF Pending
  <2> QED BY <2>1, <2>2 DEF TriedInv
<1>4. CASE UNCHANGED parallelizerVars
  <2>1. Candidates' = Candidates
    BY <1>4 DEF parallelizerVars, plannerVars, Candidates, isSelected
  <2> QED BY <1>4, <2>1 DEF TriedInv, parallelizerVars, plannerVars
<1> QED BY <1>1, <1>2, <1>3, <1>4

\* The next loop: no loop that is still to be tried has a smaller index.
LEMMA TryStep ==
  ASSUME OrderInv, ParallelizeNext, UNCHANGED plannerVars
  PROVE  TriedInv' /\ UnsafeInv'
<1>0. PICK l : l = loopParallelizationOrder[Min(Pending)]
  OBVIOUS
<1>1. Min(Pending) \in Pending /\ \A i \in Pending : Min(Pending) <= i
  BY MinIsElement DEF OrderInv, DisjointInv, PlanInv, Pending, ParallelizeNext
<1>2. PICK result \in IF isSafe(l) THEN parallelizeLoop(l) ELSE {Unsafe} :
        /\ outcome' = [k \in DOMAIN outcome \cup {l} |->
                         IF k = l THEN result ELSE outcome[k]]
        /\ modifiedBBs' = IF Modifies(result)
                          THEN modifiedBBs \cup BasicBlocks(l) ELSE modifiedBBs
  BY <1>0 DEF ParallelizeNext
<1>3. /\ stage = "parallelize" /\ stage' = stage /\ program' = program
      /\ looporder' = looporder /\ phase' = phase
      /\ loopParallelizationOrder' = loopParallelizationOrder
      /\ Candidates' = Candidates
  BY DEF ParallelizeNext, plannerVars, Candidates, isSelected
<1>4. PlannedInv /\ TriedInv /\ UnsafeInv /\ DOMAIN outcome \subseteq Loops
  BY DEF OrderInv, DisjointInv, BlocksRemembered
<1>5. /\ l \in Candidates /\ looporder[l] = Min(Pending) /\ l \notin DOMAIN outcome
  BY <1>0, <1>1, <1>3, <1>4 DEF TriedInv, Pending
<1>6. l \in Loops /\ Candidates \subseteq DOMAIN looporder
  BY <1>5 DEF OrderInv, DisjointInv, PlanInv, Candidates
<1>7. /\ DOMAIN outcome' = DOMAIN outcome \cup {l} /\ outcome'[l] = result
      /\ \A k \in DOMAIN outcome : outcome'[k] = outcome[k]
  BY <1>2, <1>5
<1>8. ASSUME NEW m \in Candidates \ DOMAIN outcome, m # l PROVE looporder[l] < looporder[m]
  <2>1. looporder[m] \in Pending
    BY <1>3, <1>4, OrderFindsLoops DEF Pending
  <2>2. /\ looporder[l] <= looporder[m] /\ looporder[l] # looporder[m]
        /\ looporder[l] \in Nat /\ looporder[m] \in Nat
    BY <1>1, <1>4, <1>5, <1>6, <1>8, <2>1 DEF PlannedInv
  <2> QED BY <2>2
<1>9. TriedInv'
  <2>1. \A k \in DOMAIN outcome', m \in Candidates \ DOMAIN outcome' :
          looporder[k] < looporder[m]
    BY <1>3, <1>4, <1>7, <1>8 DEF TriedInv
  <2>2. DOMAIN outcome' \subseteq Candidates
    BY <1>3, <1>4, <1>5, <1>7 DEF TriedInv
  <2> QED BY <1>3, <1>4, <2>1, <2>2 DEF TriedInv
<1>10. /\ \A k, m : Overlap(k, m)' <=> Overlap(k, m)
       /\ \A k : BasicBlocks(k)' = BasicBlocks(k)
       /\ \A k : TimeSavedByParallelizingLoop(k)' = TimeSavedByParallelizingLoop(k)
  BY <1>3, ForestUnchanged, BasicBlocksUnchanged, SavedUnchanged
<1>11. Parallelized' = IF Modifies(result) THEN Parallelized \cup {l} ELSE Parallelized
  BY <1>5, <1>7 DEF Parallelized, Modifies
<1>12. \A b \in modifiedBBs' : \E k \in Parallelized' : b \in BasicBlocks(k)'
  BY <1>2, <1>4, <1>10, <1>11 DEF UnsafeInv
<1>13. \A k : Excused(k) => Excused(k)'
  BY <1>10, <1>11 DEF Excused
<1>14. ASSUME result = Unsafe PROVE Excused(l)
  <2>1. ~ isSafe(l)
    <3>1. parallelizeLoop(l) \subseteq {"notParallelized", "DOALL", "HELIX", "DSWP"}
      <4>1. Applicable(l) # {} => Min(Applicable(l)) \in 1 .. 3
        BY MinIsElement DEF Applicable
      <4>2. \A i \in 1 .. 3 : Techniques[i] \in {"DOALL", "HELIX", "DSWP"}
        BY DEF Techniques
      <4> QED BY <4>1, <4>2 DEF parallelizeLoop, NotParallelized
    <3> QED BY <1>2, <1>14, <3>1 DEF Unsafe
  <2>2. PICK b \in BasicBlocks(l) : b \in modifiedBBs
    BY <2>1 DEF isSafe
  <2>3. PICK k \in Parallelized : b \in BasicBlocks(k)
    BY <1>4, <2>2 DEF UnsafeInv
  <2>4. k \in DOMAIN outcome /\ k \in Candidates /\ k \in Loops
    BY <1>3, <1>4 DEF Parallelized, TriedInv
  <2>5. Overlap(k, l)
    BY <1>4, <1>6, <2>2, <2>3, <2>4, SharedBlocksOverlap DEF PlannedInv
  <2>6. looporder[k] < looporder[l]
    BY <1>3, <1>4, <1>5, <2>4 DEF TriedInv
  <2>7. TimeSavedByParallelizingLoop(k) >= TimeSavedByParallelizingLoop(l)
    BY <1>4, <1>5, <1>6, <2>4, <2>5, <2>6 DEF PlannedInv
  <2> QED BY <2>5, <2>7 DEF Excused
<1>15. \A k \in DOMAIN outcome' : outcome'[k] = Unsafe => Excused(k)'
  BY <1>4, <1>7, <1>13, <1>14 DEF UnsafeInv
<1>16. UnsafeInv'
  BY <1>12, <1>15 DEF UnsafeInv, Unsafe
<1> QED BY <1>9, <1>16

LEMMA OrderInvInit ==
  ASSUME ParallelizerInit
  PROVE  OrderInv
<1>1. DisjointInv
  BY DisjointInit
<1>2. /\ DOMAIN outcome = {} /\ DOMAIN looporder = {} /\ modifiedBBs = {}
      /\ stage = "load" /\ phase = "filter" /\ program \in Programs
      /\ forest = Loops /\ trees = {} /\ parallelizationOrderIndex = 0
  BY DEF ParallelizerInit, Init
<1>3. PlannedInv
  BY <1>2 DEF PlannedInv
<1>4. TriedInv
  BY <1>2 DEF TriedInv
<1>5. UnsafeInv
  BY <1>2 DEF UnsafeInv
<1> QED BY <1>1, <1>3, <1>4, <1>5 DEF OrderInv

LEMMA OrderInvNext ==
  ASSUME OrderInv, [Next]_allVars
  PROVE  OrderInv'
<1>1. DisjointInv'
  BY DisjointStep DEF OrderInv
<1>2. DisjointInv /\ PlannedInv /\ TriedInv /\ UnsafeInv
  BY DEF OrderInv
<1>3. ASSUME Plan, UNCHANGED parallelizerVars PROVE PlannedInv' /\ TriedInv' /\ UnsafeInv'
  <2>1. program' = program
    BY <1>2, <1>3, PlanStep DEF DisjointInv
  <2>2. outcome' = outcome /\ modifiedBBs' = modifiedBBs
    BY <1>3 DEF parallelizerVars
  <2> QED BY <1>2, <1>3, <2>1, <2>2, PlannedStep, TriedInvPlan, UnsafeKept
<1>4. ASSUME UNCHANGED plannerVars PROVE PlannedInv' /\ program' = program
  <2>1. UNCHANGED <<program, forest, trees, looporder, parallelizationOrderIndex, phase>>
    BY <1>4 DEF plannerVars
  <2> QED BY <1>2, <2>1, PlannedKept
<1>5. ASSUME ParallelizeNext, UNCHANGED plannerVars PROVE TriedInv' /\ UnsafeInv'
  BY <1>5, TryStep
<1>6. ASSUME DetermineOrder, UNCHANGED plannerVars PROVE TriedInv' /\ UnsafeInv'
  <2>1. outcome' = outcome /\ modifiedBBs' = modifiedBBs
    BY <1>6 DEF DetermineOrder
  <2> QED BY <1>2, <1>4, <1>6, <2>1, TriedInvOrder, UnsafeKept
<1>7. ASSUME UNCHANGED plannerVars,
             \/ doInitialization \/ collectThreadPoolHelperFunctionsAndTypes
             \/ ParallelizerExit \/ UNCHANGED parallelizerVars
      PROVE  TriedInv' /\ UnsafeInv'
  <2>1. outcome' = outcome /\ modifiedBBs' = modifiedBBs
    BY <1>7 DEF doInitialization, collectThreadPoolHelperFunctionsAndTypes,
                ParallelizerExit, parallelizerVars
  <2> QED BY <1>2, <1>4, <1>7, <2>1, TriedInvOthers, UnsafeKept
<1>8. \/ Plan /\ UNCHANGED parallelizerVars
      \/ Parallelize /\ UNCHANGED plannerVars
      \/ UNCHANGED plannerVars /\ UNCHANGED parallelizerVars
  BY DEF Next, Terminated, allVars
<1> QED BY <1>1, <1>3, <1>4, <1>5, <1>6, <1>7, <1>8 DEF OrderInv, Parallelize

\* For every program, plan, list and set of techniques, every loop of the
\* metadata that the lists select is tried in the loop over
\* loopParallelizationOrder, and one that isSafe rejects overlaps a loop that
\* was parallelized and saves at least as much.  The indices the planner embeds
\* are unique over all trees, so that no loop replaces another in the map.
THEOREM EveryLoopIsTried == Spec => []NoLoopForgotten
<1>1. ParallelizerInit => OrderInv
  BY OrderInvInit
<1>2. OrderInv /\ [Next]_allVars => OrderInv'
  BY OrderInvNext
<1>3. OrderInv => NoLoopForgotten
  BY DEF OrderInv, TriedInv, UnsafeInv, Excused, NoLoopForgotten, Candidates
<1> QED BY <1>1, <1>2, <1>3, PTL DEF Spec, allVars

-----------------------------------------------------------------------------
(* Sums over finite sets.                                                  *)

\* The sum of F over S, as the planner computes it.
Sum(F, S) == MapThenSumSet(LAMBDA x : F[x], S)

\* Some element of s, the one that is added next.
Pick(s) == CHOOSE x \in s : TRUE

\* g has the sums of F over the subsets of S.
Sums(g, F, S) ==
  g = [s \in SUBSET S |-> IF s = {} THEN 0 ELSE F[Pick(s)] + g[s \ {Pick(s)}]]

Agree(F, G, s) == \A x \in s : F[x] = G[x]

\* Induction over the subsets of a finite set.
LEMMA SubsetInduction ==
  ASSUME NEW S, IsFiniteSet(S), NEW P, P \subseteq SUBSET S, {} \in P,
         \A s \in SUBSET S : s # {} /\ (\A x \in s : s \ {x} \in P) => s \in P
  PROVE  P = SUBSET S
<1> DEFINE Bad == {r \in SUBSET S : r \notin P}
<1>1. FiniteSubsetsOf(S) = SUBSET S
  BY FS_FiniteSubsetsOfFinite
<1>2. IsWellFoundedOn(StrictSubsetOrdering(S), SUBSET S)
  BY <1>1, FS_StrictSubsetOrderingWellFounded
<1>3. ASSUME Bad # {} PROVE FALSE
  <2>1. PICK s \in Bad : \A r \in Bad : ~(<<r, s>> \in StrictSubsetOrdering(S))
    <3>1. Bad \subseteq SUBSET S
      OBVIOUS
    <3> HIDE DEF Bad
    <3> QED BY <1>2, <1>3, <3>1, WFMin
  <2>2. ASSUME NEW x \in s PROVE s \ {x} \in P
    <3>1. s \ {x} \in SUBSET S /\ <<s \ {x}, s>> \in StrictSubsetOrdering(S)
      BY <2>1 DEF StrictSubsetOrdering
    <3> QED BY <2>1, <3>1
  <2> QED BY <2>1, <2>2
<1> QED BY <1>3

\* MapThenSumSet is defined: there are sums over the sets of at most m
\* elements, for every m.
LEMMA SumsExist ==
  ASSUME NEW S, IsFiniteSet(S), NEW F
  PROVE  \E g : Sums(g, F, S)
<1> DEFINE D(m) == {s \in SUBSET S : Cardinality(s) <= m}
           Body(g, s) == IF s = {} THEN 0 ELSE F[Pick(s)] + g[s \ {Pick(s)}]
           Upto(m, g) == g = [s \in D(m) |-> Body(g, s)]
           Bad == {m \in Nat : ~ \E g : Upto(m, g)}
<1>1. \A s \in SUBSET S : IsFiniteSet(s) /\ Cardinality(s) \in Nat
  BY FS_Subset, FS_CardinalityType
<1>2. \A s \in SUBSET S : s # {} =>
        /\ s \ {Pick(s)} \in SUBSET S
        /\ Cardinality(s \ {Pick(s)}) = Cardinality(s) - 1
  <2>1. ASSUME NEW s \in SUBSET S, s # {} PROVE Pick(s) \in s
    BY <2>1 DEF Pick
  <2> QED BY <1>1, <2>1, FS_RemoveElement
<1>3. ASSUME NEW m \in Nat, NEW g, Upto(m, g) PROVE \E h : Upto(m + 1, h)
  <2> DEFINE h == [s \in D(m + 1) |-> Body(g, s)]
  <2>1. ASSUME NEW s \in D(m) PROVE s \in D(m + 1) /\ g[s] = Body(g, s)
    <3>1. s \in D(m + 1)
      BY <1>1
    <3>2. g[s] = Body(g, s)
      BY <1>3, Zenon
    <3> QED BY <3>1, <3>2
  <2>2. ASSUME NEW s \in D(m) PROVE h[s] = g[s]
    <3> HIDE DEF Body, D
    <3> QED BY <2>1
  <2>3. ASSUME NEW s \in D(m + 1), s # {} PROVE s \ {Pick(s)} \in D(m)
    BY <1>1, <1>2, <2>3
  <2>4. ASSUME NEW s \in D(m + 1) PROVE Body(g, s) = Body(h, s)
    <3>1. CASE s = {}
      BY <3>1
    <3>2. CASE s # {}
      <4>1. h[s \ {Pick(s)}] = g[s \ {Pick(s)}]
        BY <2>2, <2>3, <3>2
      <4> HIDE DEF h
      <4> QED BY <3>2, <4>1
    <3> QED BY <3>1, <3>2
  <2>5. Upto(m + 1, h)
    <3> HIDE DEF Body, D
    <3> QED BY <2>4, Zenon
  <2> HIDE DEF Upto, h
  <2> QED BY <2>5
<1>4. ASSUME Bad # {} PROVE FALSE
  <2>1. PICK m \in Bad : \A k \in Bad : m <= k
    BY <1>4, SmallestOf
  <2>2. m \in Nat /\ ~ \E g : Upto(m, g)
    OBVIOUS
  <2>3. m # 0
    <3> DEFINE z == [s \in D(0) |-> 0]
    <3>1. ASSUME NEW s \in D(0) PROVE s = {}
      <4>1. CASE s # {}
        <5>1. s \ {Pick(s)} \in SUBSET S /\ Cardinality(s \ {Pick(s)}) = Cardinality(s) - 1
          BY <1>2, <4>1
        <5>2. Cardinality(s \ {Pick(s)}) \in Nat /\ Cardinality(s) \in Nat
          BY <1>1, <5>1
        <5> QED BY <5>1, <5>2
      <4> QED BY <4>1
    <3>2. \A s \in D(0) : Body(z, s) = 0
      BY <3>1
    <3>3. Upto(0, z)
      <4> HIDE DEF Body, D
      <4> QED BY <3>2, Zenon
    <3> HIDE DEF Upto, z
    <3> QED BY <2>2, <3>3
  <2> HIDE DEF Upto
  <2>4. m - 1 \in Nat /\ m - 1 \notin Bad
    <3> HIDE DEF Bad
    <3> QED BY <2>1, <2>2, <2>3
  <2>5. PICK g : Upto(m - 1, g)
    BY <2>4
  <2>6. \E h : Upto((m - 1) + 1, h)
    BY <1>3, <2>4, <2>5
  <2>7. (m - 1) + 1 = m
    BY <2>2
  <2> QED BY <2>2, <2>6, <2>7
<1>5. Cardinality(S) \in Nat
  BY <1>1
<1>6. PICK g : Upto(Cardinality(S), g)
  <2> HIDE DEF Upto
  <2> QED BY <1>4, <1>5
<1>7. D(Cardinality(S)) = SUBSET S
  BY <1>5, FS_Subset
<1> QED BY <1>6, <1>7, Zenon DEF Sums

\* One sum, whatever the set is a subset of.
LEMMA SumsAgree ==
  ASSUME NEW S, NEW T, IsFiniteSet(S), NEW F, NEW G, NEW g, NEW h,
         Sums(g, F, S), Sums(h, G, T), NEW s, s \subseteq S, s \subseteq T,
         Agree(F, G, s)
  PROVE  g[s] = h[s]
<1> DEFINE P == {r \in SUBSET s : g[r] = h[r]}
<1>1. ASSUME NEW r \in SUBSET s
      PROVE  /\ g[r] = IF r = {} THEN 0 ELSE F[Pick(r)] + g[r \ {Pick(r)}]
             /\ h[r] = IF r = {} THEN 0 ELSE G[Pick(r)] + h[r \ {Pick(r)}]
  <2>1. r \in SUBSET S /\ r \in SUBSET T
    OBVIOUS
  <2> QED BY <2>1, Zenon DEF Sums
<1>2. ASSUME NEW r \in SUBSET s, r # {}, \A x \in r : r \ {x} \in P PROVE r \in P
  <2>1. Pick(r) \in r
    BY <1>2 DEF Pick
  <2>2. g[r \ {Pick(r)}] = h[r \ {Pick(r)}] /\ F[Pick(r)] = G[Pick(r)]
    BY <1>2, <2>1 DEF Agree
  <2>3. g[r] = h[r]
    BY <1>1, <1>2, <2>2
  <2> QED BY <2>3
<1>3. {} \in P
  BY <1>1
<1>4. IsFiniteSet(s)
  BY FS_Subset
<1>5. P = SUBSET s
  <2>1. P \subseteq SUBSET s
    OBVIOUS
  <2> HIDE DEF P
  <2> QED BY <1>2, <1>3, <1>4, <2>1, SubsetInduction
<1> QED BY <1>5

\* MapThenSumSet as its definition wants it.
LEMMA SumChosen ==
  ASSUME NEW S, IsFiniteSet(S), NEW F
  PROVE  \E g : Sums(g, F, S) /\ Sum(F, S) = g[S]
<1> DEFINE g == CHOOSE h : Sums(h, F, S)
<1>1. Sums(g, F, S)
  BY SumsExist, Zenon
<1>2. Sum(F, S) = g[S]
  BY Zenon DEF Sum, MapThenSumSet, MapThenFoldSet, Sums, Pick
<1> HIDE DEF g
<1> QED BY <1>1, <1>2

\* Only the values at the elements of the set count.
LEMMA SumSame ==
  ASSUME NEW S, IsFiniteSet(S), NEW F, NEW G, \A x \in S : F[x] = G[x]
  PROVE  Sum(F, S) = Sum(G, S)
<1>1. PICK g : Sums(g, F, S) /\ Sum(F, S) = g[S]
  BY SumChosen
<1>2. PICK h : Sums(h, G, S) /\ Sum(G, S) = h[S]
  BY SumChosen
<1>3. S \subseteq S
  OBVIOUS
<1>4. g[S] = h[S]
  <2>1. Agree(F, G, S)
    BY DEF Agree
  <2> QED BY <1>1, <1>2, <1>3, <2>1, SumsAgree
<1> QED BY <1>1, <1>2, <1>4

LEMMA SumEmpty ==
  ASSUME NEW F
  PROVE  Sum(F, {}) = 0
<1>1. IsFiniteSet({})
  BY FS_EmptySet
<1>2. PICK g : Sums(g, F, {}) /\ Sum(F, {}) = g[{}]
  BY <1>1, SumChosen
<1> QED BY <1>2, Zenon DEF Sums

LEMMA SumPicked ==
  ASSUME NEW S, IsFiniteSet(S), S # {}, NEW F
  PROVE  Sum(F, S) = F[Pick(S)] + Sum(F, S \ {Pick(S)})
<1> DEFINE T == S \ {Pick(S)}
<1>1. PICK g : Sums(g, F, S) /\ Sum(F, S) = g[S]
  BY SumChosen
<1>2. IsFiniteSet(T)
  BY FS_Subset
<1>3. PICK h : Sums(h, F, T) /\ Sum(F, T) = h[T]
  BY <1>2, SumChosen
<1>4. g[T] = h[T]
  <2>1. Agree(F, F, T) /\ T \subseteq S /\ T \subseteq T
    BY DEF Agree
  <2> HIDE DEF T
  <2> QED BY <1>1, <1>3, <2>1, SumsAgree
<1>5. g[S] = F[Pick(S)] + g[T]
  BY <1>1, Zenon DEF Sums
<1> QED BY <1>1, <1>3, <1>4, <1>5

LEMMA SumType ==
  ASSUME NEW S, IsFiniteSet(S), NEW F, \A x \in S : F[x] \in Int
  PROVE  Sum(F, S) \in Int
<1> DEFINE P == {s \in SUBSET S : Sum(F, s) \in Int}
<1>1. ASSUME NEW s \in SUBSET S, s # {}, \A x \in s : s \ {x} \in P PROVE s \in P
  <2>1. Pick(s) \in s
    BY <1>1 DEF Pick
  <2>2. Sum(F, s) = F[Pick(s)] + Sum(F, s \ {Pick(s)})
    BY <1>1, FS_Subset, SumPicked
  <2>3. Sum(F, s \ {Pick(s)}) \in Int
    BY <1>1, <2>1
  <2> QED BY <2>1, <2>2, <2>3
<1>2. {} \in P
  BY SumEmpty
<1>3. P = SUBSET S
  <2>1. P \subseteq SUBSET S
    OBVIOUS
  <2> HIDE DEF P
  <2> QED BY <1>1, <1>2, <2>1, SubsetInduction
<1> QED BY <1>3

\* The elements can be added in any order.
LEMMA SumRemove ==
  ASSUME NEW S, IsFiniteSet(S), NEW F, \A x \in S : F[x] \in Int, NEW x \in S
  PROVE  Sum(F, S) = F[x] + Sum(F, S \ {x})
<1> DEFINE P == {s \in SUBSET S : \A y \in s : Sum(F, s) = F[y] + Sum(F, s \ {y})}
<1>1. \A s \in SUBSET S : IsFiniteSet(s) /\ Sum(F, s) \in Int
  BY FS_Subset, SumType
<1>2. ASSUME NEW s \in SUBSET S, s # {}, \A y \in s : s \ {y} \in P PROVE s \in P
  <2>1. PICK p \in s : p = Pick(s)
    BY <1>2 DEF Pick
  <2>2. Sum(F, s) = F[p] + Sum(F, s \ {p})
    BY <1>1, <1>2, <2>1, SumPicked
  <2>3. ASSUME NEW y \in s PROVE Sum(F, s) = F[y] + Sum(F, s \ {y})
    <3>1. CASE y = p
      BY <2>2, <3>1
    <3>2. CASE y # p
      <4>1. (s \ {p}) \ {y} = (s \ {y}) \ {p}
        OBVIOUS
      <4>2. Sum(F, s \ {p}) = F[y] + Sum(F, (s \ {p}) \ {y})
        <5>1. s \ {p} \in P /\ y \in s \ {p}
          BY <1>2, <3>2
        <5> QED BY <5>1
      <4>3. Sum(F, s \ {y}) = F[p] + Sum(F, (s \ {y}) \ {p})
        <5>1. s \ {y} \in P /\ p \in s \ {y}
          BY <1>2, <3>2
        <5> QED BY <5>1
      <4>4. PICK z \in Int : z = Sum(F, (s \ {y}) \ {p})
        BY <1>1
      <4>5. PICK a \in Int, b \in Int : a = F[y] /\ b = F[p]
        BY <1>2
      <4>6. Sum(F, s) = b + (a + z) /\ Sum(F, s \ {y}) = b + z
        BY <2>2, <4>1, <4>2, <4>3, <4>4, <4>5
      <4>7. b + (a + z) = a + (b + z)
        OBVIOUS
      <4> QED BY <4>5, <4>6, <4>7
    <3> QED BY <3>1, <3>2
  <2> QED BY <2>3
<1>3. {} \in P
  OBVIOUS
<1>4. P = SUBSET S
  <2>1. P \subseteq SUBSET S
    OBVIOUS
  <2> HIDE DEF P
  <2> QED BY <1>2, <1>3, <2>1, SubsetInduction
<1> QED BY <1>4

LEMMA SumSingle ==
  ASSUME NEW F, NEW x, F[x] \in Int
  PROVE  Sum(F, {x}) = F[x]
<1>1. IsFiniteSet({x})
  BY FS_Singleton
<1>2. x \in {x} /\ {x} \ {x} = {} /\ \A y \in {x} : F[y] \in Int
  OBVIOUS
<1>3. Sum(F, {x}) = F[x] + Sum(F, {x} \ {x})
  BY <1>1, <1>2, SumRemove
<1> QED BY <1>2, <1>3, SumEmpty

LEMMA SumUnion ==
  ASSUME NEW A, NEW B, IsFiniteSet(A), IsFiniteSet(B), A \cap B = {},
         NEW F, \A x \in A \cup B : F[x] \in Int
  PROVE  Sum(F, A \cup B) = Sum(F, A) + Sum(F, B)
<1> DEFINE P == {s \in SUBSET B : Sum(F, A \cup s) = Sum(F, A) + Sum(F, s)}
<1>1. ASSUME NEW s \in SUBSET B
      PROVE  /\ IsFiniteSet(s) /\ IsFiniteSet(A \cup s)
             /\ Sum(F, A) \in Int /\ Sum(F, s) \in Int
  <2>1. IsFiniteSet(s) /\ IsFiniteSet(A \cup s)
    BY FS_Subset, FS_Union
  <2> QED BY <2>1, SumType
<1>2. ASSUME NEW s \in SUBSET B, s # {}, \A x \in s : s \ {x} \in P PROVE s \in P
  <2>1. PICK x \in s : TRUE
    BY <1>2
  <2>2. (A \cup s) \ {x} = A \cup (s \ {x}) /\ x \in A \cup s /\ F[x] \in Int
    BY <2>1
  <2>3. Sum(F, A \cup s) = F[x] + Sum(F, (A \cup s) \ {x})
    BY <1>1, <2>1, SumRemove
  <2>4. Sum(F, s) = F[x] + Sum(F, s \ {x})
    BY <1>1, <2>1, SumRemove
  <2>5. Sum(F, A \cup (s \ {x})) = Sum(F, A) + Sum(F, s \ {x})
    BY <1>2
  <2>6. Sum(F, s \ {x}) \in Int /\ Sum(F, A) \in Int
    BY <1>1
  <2>7. PICK a \in Int, b \in Int, c \in Int :
          a = Sum(F, A) /\ b = Sum(F, s \ {x}) /\ c = F[x]
    BY <2>2, <2>6
  <2>8. Sum(F, A \cup s) = c + (a + b) /\ Sum(F, s) = c + b
    BY <2>2, <2>3, <2>4, <2>5, <2>7
  <2>9. c + (a + b) = a + (c + b)
    OBVIOUS
  <2> QED BY <2>7, <2>8, <2>9
<1>3. {} \in P
  <2>1. A \cup {} = A
    OBVIOUS
  <2>2. Sum(F, A) \in Int
    BY SumType
  <2>3. Sum(F, A) = Sum(F, A) + 0
    BY <2>2
  <2> QED BY <2>1, <2>3, SumEmpty
<1>4. P = SUBSET B
  <2>1. P \subseteq SUBSET B
    OBVIOUS
  <2> HIDE DEF P
  <2> QED BY <1>2, <1>3, <2>1, SubsetInduction
<1> QED BY <1>4

LEMMA SumMonotone ==
  ASSUME NEW S, IsFiniteSet(S), NEW F, NEW G,
         \A x \in S : F[x] \in Int /\ G[x] \in Int /\ F[x] <= G[x]
  PROVE  Sum(F, S) <= Sum(G, S)
<1> DEFINE P == {s \in SUBSET S : Sum(F, s) <= Sum(G, s)}
<1>1. ASSUME NEW s \in SUBSET S
      PROVE  IsFiniteSet(s) /\ Sum(F, s) \in Int /\ Sum(G, s) \in Int
  <2>1. IsFiniteSet(s)
    BY FS_Subset
  <2> QED BY <2>1, SumType
<1>2. ASSUME NEW s \in SUBSET S, s # {}, \A x \in s : s \ {x} \in P PROVE s \in P
  <2>1. PICK x \in s : TRUE
    BY <1>2
  <2>2. Sum(F, s) = F[x] + Sum(F, s \ {x}) /\ Sum(G, s) = G[x] + Sum(G, s \ {x})
    BY <1>1, <2>1, SumRemove
  <2>3. /\ Sum(F, s \ {x}) <= Sum(G, s \ {x})
        /\ Sum(F, s \ {x}) \in Int /\ Sum(G, s \ {x}) \in Int
    BY <1>1, <1>2
  <2>4. PICK a \in Int, b \in Int, c \in Int, d \in Int :
          /\ a = F[x] /\ b = G[x] /\ c = Sum(F, s \ {x}) /\ d = Sum(G, s \ {x})
          /\ a <= b /\ c <= d
    BY <2>1, <2>3
  <2>5. a + c <= b + d
    BY <2>4
  <2> QED BY <2>2, <2>4, <2>5
<1>3. {} \in P
  BY SumEmpty
<1>4. P = SUBSET S
  <2>1. P \subseteq SUBSET S
    OBVIOUS
  <2> HIDE DEF P
  <2> QED BY <1>2, <1>3, <2>1, SubsetInduction
<1> QED BY <1>4

LEMMA SumNatural ==
  ASSUME NEW S, IsFiniteSet(S), NEW F, \A x \in S : F[x] \in Nat
  PROVE  Sum(F, S) \in Nat
<1> DEFINE P == {s \in SUBSET S : Sum(F, s) \in Nat}
<1>1. ASSUME NEW s \in SUBSET S, s # {}, \A x \in s : s \ {x} \in P PROVE s \in P
  <2>1. Pick(s) \in s
    BY <1>1 DEF Pick
  <2>2. Sum(F, s) = F[Pick(s)] + Sum(F, s \ {Pick(s)})
    BY <1>1, FS_Subset, SumPicked
  <2>3. Sum(F, s \ {Pick(s)}) \in Nat
    BY <1>1, <2>1
  <2> QED BY <2>1, <2>2, <2>3
<1>2. {} \in P
  BY SumEmpty
<1>3. P = SUBSET S
  <2>1. P \subseteq SUBSET S
    OBVIOUS
  <2> HIDE DEF P
  <2> QED BY <1>1, <1>2, <2>1, SubsetInduction
<1> QED BY <1>3

\* The sum over disjoint sets T[k] is the sum of their sums.
LEMMA SumOfFamily ==
  ASSUME NEW K, IsFiniteSet(K), NEW T, NEW F, NEW V,
         \A k \in K : /\ IsFiniteSet(T[k]) /\ V[k] = Sum(F, T[k])
                      /\ \A x \in T[k] : F[x] \in Int,
         \A j, k \in K : j # k => T[j] \cap T[k] = {}
  PROVE  Sum(F, UNION {T[k] : k \in K}) = Sum(V, K)
<1> DEFINE U(s) == UNION {T[k] : k \in s}
           P == {s \in SUBSET K : IsFiniteSet(U(s)) /\ Sum(F, U(s)) = Sum(V, s)}
<1>1. \A k \in K : V[k] \in Int
  BY SumType
<1>2. ASSUME NEW s \in SUBSET K, s # {}, \A x \in s : s \ {x} \in P PROVE s \in P
  <2>1. PICK x \in s : x \in K
    BY <1>2
  <2>2. PICK A, W : A = T[x] /\ W = U(s \ {x})
    OBVIOUS
  <2>3. U(s) = A \cup W /\ A \cap W = {}
    BY <2>1, <2>2
  <2>4. \A y \in A \cup W : F[y] \in Int
    BY <2>1, <2>2
  <2>5. /\ IsFiniteSet(A) /\ IsFiniteSet(W) /\ IsFiniteSet(U(s))
        /\ Sum(F, U(s)) = Sum(F, T[x]) + Sum(F, U(s \ {x}))
    <3>1. IsFiniteSet(A) /\ IsFiniteSet(W)
      BY <1>2, <2>1, <2>2
    <3> HIDE DEF U
    <3>2. IsFiniteSet(A \cup W)
      BY <3>1, FS_Union
    <3>3. Sum(F, A \cup W) = Sum(F, A) + Sum(F, W)
      BY <2>3, <2>4, <3>1, SumUnion
    <3> QED BY <2>2, <2>3, <3>1, <3>2, <3>3
  <2>6. Sum(F, U(s \ {x})) = Sum(V, s \ {x}) /\ Sum(F, T[x]) = V[x]
    BY <1>2, <2>1
  <2>7. Sum(V, s) = V[x] + Sum(V, s \ {x})
    <3>1. IsFiniteSet(s) /\ \A k \in s : V[k] \in Int
      BY <1>1, FS_Subset
    <3> QED BY <2>1, <3>1, SumRemove
  <2> HIDE DEF U
  <2> QED BY <2>5, <2>6, <2>7
<1>3. {} \in P
  <2>1. U({}) = {}
    OBVIOUS
  <2> HIDE DEF U
  <2> QED BY <2>1, FS_EmptySet, SumEmpty
<1>4. P = SUBSET K
  <2>1. P \subseteq SUBSET K
    OBVIOUS
  <2> HIDE DEF P
  <2> QED BY <1>2, <1>3, <2>1, SubsetInduction
<1> QED BY <1>4

-----------------------------------------------------------------------------
(* What a set of loops saves.                                              *)

SavedBy == [l \in Loops |-> TimeSavedByParallelizingLoop(l)]

LEMMA LoopsFinite == IsFiniteSet(Loops) /\ \A s \in SUBSET Loops : IsFiniteSet(s)
<1>1. IsFiniteSet(Loops)
  BY PlannerAssumption, FS_Interval DEF Loops
<1> QED BY <1>1, FS_Subset

\* Saved is a sum of integers.
LEMMA SavedIs ==
  ASSUME NEW c, c \subseteq Loops
  PROVE  Saved(c) = Sum(SavedBy, c)
<1> DEFINE Body(g, s) == IF s = {} THEN 0
                         ELSE TimeSavedByParallelizingLoop(Pick(s)) + g[s \ {Pick(s)}]
           Adds(g) == g = [s \in SUBSET c |-> Body(g, s)]
<1>1. IsFiniteSet(c)
  BY LoopsFinite
<1>2. ASSUME NEW g PROVE Sums(g, SavedBy, c) <=> Adds(g)
  <2>1. ASSUME NEW s \in SUBSET c
        PROVE  Body(g, s) = IF s = {} THEN 0 ELSE SavedBy[Pick(s)] + g[s \ {Pick(s)}]
    <3>1. CASE s = {}
      BY <3>1
    <3>2. CASE s # {}
      <4>1. Pick(s) \in Loops
        BY <3>2 DEF Pick
      <4>2. SavedBy[Pick(s)] = TimeSavedByParallelizingLoop(Pick(s))
        BY <4>1 DEF SavedBy
      <4> QED BY <3>2, <4>2
    <3> QED BY <3>1, <3>2
  <2> HIDE DEF Body
  <2>2. [s \in SUBSET c |-> Body(g, s)]
          = [s \in SUBSET c |-> IF s = {} THEN 0 ELSE SavedBy[Pick(s)] + g[s \ {Pick(s)}]]
    BY <2>1, Zenon
  <2> QED BY <2>2, Zenon DEF Sums
<1> DEFINE h == CHOOSE g : Adds(g)
<1>3. PICK g : Sums(g, SavedBy, c) /\ Sum(SavedBy, c) = g[c]
  BY <1>1, SumChosen
<1>4. Saved(c) = h[c]
  BY Zenon DEF Saved, MapThenSumSet, MapThenFoldSet, Pick
<1> HIDE DEF Adds
<1>5. Adds(h)
  BY <1>2, <1>3, Zenon
<1> HIDE DEF h
<1>6. Sums(h, SavedBy, c)
  BY <1>2, <1>5
<1>7. Agree(SavedBy, SavedBy, c) /\ c \subseteq c
  BY DEF Agree
<1>8. h[c] = g[c]
  BY <1>1, <1>3, <1>6, <1>7, SumsAgree
<1> QED BY <1>3, <1>4, <1>8

LEMMA LoopsNatural == Loops \subseteq Nat
BY PlannerAssumption DEF PlannerAssumption, Loops

\* Induction over the loops, from the inside to the outside.
LEMMA InnerFirst ==
  ASSUME NEW S, S \subseteq Loops,
         \A n \in Loops : (\A m \in Loops : n < m => m \in S) => n \in S
  PROVE  S = Loops
<1> DEFINE Bad == {k \in Nat : N - k \in Loops /\ N - k \notin S}
<1>1. N \in Nat /\ Loops \subseteq Nat
  BY PlannerAssumption DEF PlannerAssumption, Loops
<1>2. ASSUME Bad # {} PROVE FALSE
  <2>1. PICK k \in Bad : \A j \in Bad : k <= j
    BY <1>2, SmallestOf
  <2>2. k \in Nat /\ N - k \in Loops /\ N - k \notin S
    OBVIOUS
  <2>3. ASSUME NEW m \in Loops, N - k < m PROVE m \in S
    <3>1. N - m \in Nat /\ N - m < k /\ N - (N - m) = m
      BY <1>1, <2>2, <2>3 DEF Loops
    <3>2. N - m \notin Bad
      <4> HIDE DEF Bad
      <4> QED BY <2>1, <2>2, <3>1
    <3> QED BY <3>1, <3>2
  <2> QED BY <2>2, <2>3
<1>3. ASSUME NEW n \in Loops PROVE n \in S
  <2>1. N - n \in Nat /\ N - (N - n) = n
    BY <1>1 DEF Loops
  <2> QED BY <1>2, <2>1
<1> QED BY <1>3

\* The child of a loop is nested in it, and between the two there is no loop of
\* the forest.
LEMMA ChildrenAre ==
  ASSUME program \in Programs, NEW f, f \subseteq Loops, NEW n, NEW l \in Children(f, n)
  PROVE  /\ l \in f /\ n \in f /\ n \in Ancestors(l) /\ n < l
         /\ \A k \in Ancestors(l) \cap f : k = n \/ k \in Ancestors(n)
<1> DEFINE A == Ancestors(l) \cap f
<1>1. l \in f /\ A # {} /\ n = Max(A)
  BY DEF Children
<1>2. l \in Loops /\ A \subseteq Loops /\ Loops \subseteq Nat
  BY <1>1, LoopsNatural
<1>3. n \in A /\ \A y \in A : n >= y
  <2>1. IsFiniteSet(A)
    BY <1>2, LoopsFinite
  <2> HIDE DEF A
  <2> QED BY <1>1, <1>2, <2>1, MaxIsElement
<1>4. n \in f /\ n \in Ancestors(l) /\ n < l /\ n \in Loops
  BY <1>2, <1>3, AncestorsType
<1>5. ASSUME NEW k \in A PROVE k = n \/ k \in Ancestors(n)
  <2>1. Overlap(k, n)
    BY <1>2, <1>4, AncestorsChain
  <2>2. n \in Ancestors(k) => n < k
    BY <1>2, AncestorsType
  <2>3. n \notin Ancestors(k)
    BY <1>2, <1>3, <1>4, <2>2
  <2> QED BY <2>1, <2>3 DEF Overlap
<1> QED BY <1>1, <1>4, <1>5

\* A tree is its root and the trees of the root's children.
LEMMA TreeSplit ==
  ASSUME program \in Programs, NEW f, f \subseteq Loops, NEW n \in f
  PROVE  /\ Tree(f, n) = {n} \cup UNION {Tree(f, c) : c \in Children(f, n)}
         /\ n \notin UNION {Tree(f, c) : c \in Children(f, n)}
<1>1. ASSUME NEW c \in Children(f, n), NEW l \in Tree(f, c)
      PROVE  l \in f /\ n \in Ancestors(l)
  <2>1. c \in f /\ n \in Ancestors(c)
    BY ChildrenAre
  <2>2. l \in f /\ (l = c \/ c \in Ancestors(l))
    BY DEF Tree
  <2>3. c \in Ancestors(l) => Ancestors(c) \subseteq Ancestors(l)
    BY <2>2, AncestorsTransitive
  <2> QED BY <2>1, <2>2, <2>3
<1>2. n \notin Ancestors(n)
  BY AncestorsType
<1>3. ASSUME NEW l \in f, n \in Ancestors(l)
      PROVE  \E c \in Children(f, n) : l \in Tree(f, c)
  <2> DEFINE S == {k \in f : (k = l \/ k \in Ancestors(l)) /\ n \in Ancestors(k)}
  <2>1. S \subseteq Nat /\ l \in S /\ Loops \subseteq Nat
    BY <1>3, LoopsNatural
  <2>2. PICK c \in S : \A k \in S : c <= k
    <3> HIDE DEF S
    <3> QED BY <2>1, SmallestOf
  <2>3. c \in f /\ (c = l \/ c \in Ancestors(l)) /\ n \in Ancestors(c)
    BY <2>2
  <2> DEFINE A == Ancestors(c) \cap f
  <2>4. n \in A /\ A \subseteq Loops
    BY <2>3
  <2>5. Max(A) \in A /\ Max(A) >= n
    <3>1. IsFiniteSet(A)
      BY <2>4, LoopsFinite
    <3> HIDE DEF A
    <3> QED BY <2>1, <2>4, <3>1, MaxIsElement
  <2>6. PICK m \in A : m = Max(A)
    BY <2>5
  <2>7. m \in Ancestors(c) /\ m \in f /\ m \in Loops /\ m < c /\ m >= n
    BY <2>3, <2>5, <2>6, AncestorsType
  <2>8. m = n
    <3>1. Overlap(m, n)
      BY <2>3, <2>7, AncestorsChain
    <3>2. m \notin Ancestors(n)
      <4>1. m \in Ancestors(n) => m < n
        BY AncestorsType
      <4> QED BY <2>1, <2>7, <4>1
    <3>3. n \notin Ancestors(m)
      <4>1. m = l \/ m \in Ancestors(l)
        <5>1. c \in Ancestors(l) => Ancestors(c) \subseteq Ancestors(l)
          BY AncestorsTransitive
        <5> QED BY <2>3, <2>7, <5>1
      <4>2. n \in Ancestors(m) => m \in S
        BY <2>7, <4>1
      <4>3. m \in S => c <= m
        BY <2>2
      <4>4. c \in Nat /\ m \in Nat
        BY <2>1, <2>3, <2>7
      <4> QED BY <2>7, <4>2, <4>3, <4>4
    <3> QED BY <3>1, <3>2, <3>3 DEF Overlap
  <2>9. c \in Children(f, n)
    BY <2>3, <2>4, <2>6, <2>8 DEF Children
  <2>10. l \in Tree(f, c)
    BY <2>3 DEF Tree
  <2> QED BY <2>9, <2>10
<1>4. n \notin UNION {Tree(f, c) : c \in Children(f, n)}
  BY <1>1, <1>2
<1>5. ASSUME NEW l \in Tree(f, n)
      PROVE  l \in {n} \cup UNION {Tree(f, c) : c \in Children(f, n)}
  <2>1. l \in f /\ (l = n \/ n \in Ancestors(l))
    BY DEF Tree
  <2> QED BY <1>3, <2>1
<1>6. ASSUME NEW l \in {n} \cup UNION {Tree(f, c) : c \in Children(f, n)}
      PROVE  l \in Tree(f, n)
  <2>1. l = n \/ (l \in f /\ n \in Ancestors(l))
    BY <1>1
  <2> QED BY <2>1 DEF Tree
<1> QED BY <1>4, <1>5, <1>6

\* Loops below different children do not overlap.
LEMMA ChildrenAreApart ==
  ASSUME program \in Programs, NEW f, f \subseteq Loops, NEW n,
         NEW c \in Children(f, n), NEW d \in Children(f, n),
         NEW k \in Tree(f, c), NEW l \in Tree(f, d), Overlap(k, l)
  PROVE  c = d
<1> DEFINE g == {x \in f : n \in Ancestors(x)}
<1>1. ASSUME NEW e \in Children(f, n) PROVE e \in Roots(g) /\ Tree(f, e) \subseteq Tree(g, e)
  <2>1. /\ e \in f /\ n \in f /\ n \in Ancestors(e)
        /\ \A j \in Ancestors(e) \cap f : j = n \/ j \in Ancestors(n)
    BY ChildrenAre
  <2>2. ASSUME NEW j \in Ancestors(e) \cap g PROVE FALSE
    <3>1. j \in f /\ n \in Ancestors(j) /\ (j = n \/ j \in Ancestors(n))
      BY <2>1
    <3>2. j \in Ancestors(n) => Ancestors(j) \subseteq Ancestors(n)
      BY <2>1, AncestorsTransitive
    <3>3. n \notin Ancestors(n)
      BY <2>1, AncestorsType
    <3> QED BY <3>1, <3>2, <3>3
  <2>3. e \in Roots(g)
    BY <2>1, <2>2 DEF Roots
  <2>4. ASSUME NEW x \in Tree(f, e) PROVE x \in Tree(g, e)
    <3>1. x \in f /\ (x = e \/ e \in Ancestors(x))
      BY DEF Tree
    <3>2. e \in Ancestors(x) => Ancestors(e) \subseteq Ancestors(x)
      BY <3>1, AncestorsTransitive
    <3>3. n \in Ancestors(x)
      BY <2>1, <3>1, <3>2
    <3> QED BY <3>1, <3>3 DEF Tree
  <2> QED BY <2>3, <2>4
<1>2. g \subseteq Loops
  OBVIOUS
<1> HIDE DEF g
<1>3. c \in Roots(g) /\ d \in Roots(g) /\ k \in Tree(g, c) /\ l \in Tree(g, d)
  BY <1>1
<1> QED BY <1>2, <1>3, TreesAreApart

-----------------------------------------------------------------------------
(* The best combination of loops.                                          *)

\* v is the most that loops of S save together.
Maximal(v, S) ==
  /\ v \in Int
  /\ \E c \in Combinations(S) : v = Saved(c)
  /\ \A c \in Combinations(S) : Saved(c) <= v

LEMMA MaxOfTwo ==
  ASSUME NEW a \in Int, NEW b \in Int
  PROVE  Max({a, b}) = IF a >= b THEN a ELSE b
<1> DEFINE m == IF a >= b THEN a ELSE b
<1>1. m \in {a, b} /\ \A y \in {a, b} : m >= y
  OBVIOUS
<1>2. ASSUME NEW x \in {a, b}, \A y \in {a, b} : x >= y PROVE x = m
  BY <1>2
<1>3. Max({a, b}) \in {a, b} /\ \A y \in {a, b} : Max({a, b}) >= y
  <2> HIDE DEF m
  <2> QED BY <1>1 DEF Max
<1> HIDE DEF m
<1>4. Max({a, b}) = m
  BY <1>2, <1>3
<1> QED BY <1>4 DEF m

\* What combinations save are integers.
LEMMA CombinationType ==
  ASSUME program \in Programs, NEW S, S \subseteq Loops, NEW c \in Combinations(S)
  PROVE  /\ c \subseteq S /\ IsFiniteSet(c) /\ Saved(c) = Sum(SavedBy, c)
         /\ Saved(c) \in Int /\ \A l \in c : SavedBy[l] \in Int
<1>1. c \subseteq S /\ c \subseteq Loops
  BY DEF Combinations
<1>2. \A l \in Loops : SavedBy[l] \in Int
  BY SavedType DEF SavedBy
<1>3. IsFiniteSet(c) /\ Saved(c) = Sum(SavedBy, c)
  BY <1>1, LoopsFinite, SavedIs
<1>4. Sum(SavedBy, c) \in Int
  BY <1>1, <1>2, <1>3, SumType
<1> QED BY <1>1, <1>2, <1>3, <1>4

\* The maximum of the savings of all combinations.
LEMMA MaximalIsMax ==
  ASSUME program \in Programs, NEW S, S \subseteq Loops, NEW v, Maximal(v, S)
  PROVE  Max({Saved(c) : c \in Combinations(S)}) = v
<1> DEFINE M == {Saved(c) : c \in Combinations(S)}
<1>1. v \in M /\ \A y \in M : y <= v
  BY DEF Maximal
<1>2. v \in Int
  BY DEF Maximal
<1> HIDE DEF M
<1>3. \E x \in M : \A y \in M : x >= y
  BY <1>1
<1>4. Max(M) \in M /\ \A y \in M : Max(M) >= y
  BY <1>3 DEF Max
<1>5. Max(M) <= v /\ Max(M) >= v
  BY <1>1, <1>4
<1>6. Max(M) \in Int
  <2>1. ASSUME NEW y \in M PROVE y \in Int
    <3>1. PICK c \in Combinations(S) : y = Saved(c)
      BY DEF M
    <3> QED BY <3>1, CombinationType
  <2> QED BY <1>4, <2>1
<1> QED BY <1>2, <1>5, <1>6 DEF M

\* Where loops of different sets T[k] do not overlap, the best of each are
\* together the best of all.
LEMMA MaximalUnion ==
  ASSUME program \in Programs, NEW K, IsFiniteSet(K), NEW T, NEW V,
         \A k \in K : T[k] \subseteq Loops /\ Maximal(V[k], T[k]),
         \A j, k \in K : \A x \in T[j], y \in T[k] : Overlap(x, y) => j = k
  PROVE  Maximal(Sum(V, K), UNION {T[k] : k \in K})
<1> DEFINE U == UNION {T[k] : k \in K}
<1>1. U \subseteq Loops
  OBVIOUS
<1>2. \A k \in K : V[k] \in Int
  BY DEF Maximal
<1>3. \A j, k \in K : j # k => T[j] \cap T[k] = {}
  BY DEF Overlap
<1>4. Sum(V, K) \in Int
  BY <1>2, SumType
<1>5. ASSUME NEW c \in Combinations(U) PROVE Saved(c) <= Sum(V, K)
  <2> DEFINE P == [k \in K |-> c \cap T[k]]
             W == [k \in K |-> Sum(SavedBy, P[k])]
  <2>1. ASSUME NEW k \in K
        PROVE  /\ P[k] = c \cap T[k] /\ W[k] = Sum(SavedBy, P[k])
               /\ P[k] \in Combinations(T[k])
    <3>1. P[k] = c \cap T[k] /\ W[k] = Sum(SavedBy, P[k])
      OBVIOUS
    <3> QED BY <3>1 DEF Combinations
  <2>2. /\ c \subseteq U /\ Saved(c) = Sum(SavedBy, c)
        /\ \A l \in c : SavedBy[l] \in Int
    BY <1>1, CombinationType
  <2>3. c = UNION {P[k] : k \in K}
    BY <2>2
  <2>4. ASSUME NEW k \in K
        PROVE  /\ IsFiniteSet(P[k]) /\ W[k] = Sum(SavedBy, P[k]) /\ W[k] \in Int
               /\ W[k] <= V[k] /\ \A x \in P[k] : SavedBy[x] \in Int
    <3>1. P[k] \in Combinations(T[k]) /\ T[k] \subseteq Loops
      BY <2>1
    <3>2. /\ IsFiniteSet(P[k]) /\ Saved(P[k]) = Sum(SavedBy, P[k])
          /\ Saved(P[k]) \in Int /\ \A x \in P[k] : SavedBy[x] \in Int
      <4> HIDE DEF P
      <4> QED BY <3>1, CombinationType
    <3>3. Saved(P[k]) <= V[k]
      <4>1. Maximal(V[k], T[k])
        OBVIOUS
      <4> HIDE DEF P
      <4> QED BY <3>1, <4>1 DEF Maximal
    <3>4. W[k] = Sum(SavedBy, P[k])
      BY <2>1
    <3> QED BY <3>2, <3>3, <3>4
  <2>5. \A j, k \in K : j # k => P[j] \cap P[k] = {}
    BY <1>3
  <2> HIDE DEF P, W
  <2>6. Sum(SavedBy, UNION {P[k] : k \in K}) = Sum(W, K)
    <3>1. \A k \in K : /\ IsFiniteSet(P[k]) /\ W[k] = Sum(SavedBy, P[k])
                       /\ \A x \in P[k] : SavedBy[x] \in Int
      BY <2>4
    <3>2. IsFiniteSet(K)
      OBVIOUS
    <3> QED BY ONLY <2>5, <3>1, <3>2, SumOfFamily
  <2>7. Sum(W, K) <= Sum(V, K)
    BY <1>2, <2>4, SumMonotone
  <2> QED BY <2>2, <2>3, <2>6, <2>7
<1>6. \E c \in Combinations(U) : Sum(V, K) = Saved(c)
  <2> DEFINE P == [k \in K |-> CHOOSE c \in Combinations(T[k]) : V[k] = Saved(c)]
             c == UNION {P[k] : k \in K}
  <2>1. ASSUME NEW k \in K PROVE P[k] \in Combinations(T[k]) /\ V[k] = Saved(P[k])
    <3>1. \E d \in Combinations(T[k]) : V[k] = Saved(d)
      BY DEF Maximal
    <3>2. P[k] = CHOOSE d \in Combinations(T[k]) : V[k] = Saved(d)
      OBVIOUS
    <3> HIDE DEF P
    <3> QED BY <3>1, <3>2
  <2> HIDE DEF P
  <2>2. ASSUME NEW k \in K
        PROVE  /\ IsFiniteSet(P[k]) /\ V[k] = Sum(SavedBy, P[k]) /\ P[k] \subseteq T[k]
               /\ \A x \in P[k] : SavedBy[x] \in Int
    <3>1. T[k] \subseteq Loops
      OBVIOUS
    <3> QED BY <2>1, <3>1, CombinationType
  <2>3. \A j, k \in K : j # k => P[j] \cap P[k] = {}
    BY <1>3, <2>2
  <2>4. Sum(SavedBy, c) = Sum(V, K)
    BY <2>2, <2>3, SumOfFamily
  <2>5. c \in SUBSET U
    BY <2>2
  <2>6. ASSUME NEW x \in c, NEW y \in c, x # y PROVE ~ Overlap(x, y)
    <3>1. PICK j \in K, k \in K : x \in P[j] /\ y \in P[k]
      OBVIOUS
    <3>2. x \in T[j] /\ y \in T[k]
      BY <2>2, <3>1
    <3>3. CASE j = k
      BY <2>1, <2>6, <3>1, <3>3 DEF Combinations
    <3>4. CASE j # k
      BY <3>2, <3>4
    <3> QED BY <3>3, <3>4
  <2> HIDE DEF c
  <2>7. c \in Combinations(U)
    BY <2>5, <2>6 DEF Combinations
  <2>8. Saved(c) = Sum(SavedBy, c)
    BY <1>1, <2>7, CombinationType
  <2> QED BY <2>4, <2>7, <2>8
<1> QED BY <1>4, <1>5, <1>6 DEF Maximal

\* A loop around all of U is taken alone or not at all.
LEMMA MaximalRoot ==
  ASSUME program \in Programs, NEW U, U \subseteq Loops, NEW v, Maximal(v, U),
         NEW n \in Loops, \A l \in U : n \in Ancestors(l)
  PROVE  Maximal(Max({TimeSavedByParallelizingLoop(n), v}), {n} \cup U)
<1> DEFINE t == TimeSavedByParallelizingLoop(n)
           m == Max({t, v})
<1>1. t \in Int /\ v \in Int /\ SavedBy[n] = t
  BY SavedType DEF Maximal, SavedBy
<1>2. Saved({n}) = t
  <2>1. {n} \subseteq Loops
    OBVIOUS
  <2>2. Saved({n}) = Sum(SavedBy, {n})
    BY <2>1, SavedIs
  <2> QED BY <1>1, <2>2, SumSingle
<1>3. {n} \in Combinations({n} \cup U)
  BY DEF Combinations
<1>4. \A c \in Combinations(U) : c \in Combinations({n} \cup U)
  BY DEF Combinations
<1>5. ASSUME NEW c \in Combinations({n} \cup U) PROVE c = {n} \/ c \in Combinations(U)
  <2>1. c \subseteq {n} \cup U /\ \A k, l \in c : k # l => ~ Overlap(k, l)
    BY DEF Combinations
  <2>2. CASE n \in c
    <3>1. \A l \in c : l = n
      BY <2>1, <2>2 DEF Overlap
    <3> QED BY <2>2, <3>1
  <2>3. CASE n \notin c
    BY <2>1, <2>3 DEF Combinations
  <2> QED BY <2>2, <2>3
<1>6. m = IF t >= v THEN t ELSE v
  BY <1>1, MaxOfTwo
<1> HIDE DEF m, t
<1>7. \E c \in Combinations({n} \cup U) : m = Saved(c)
  <2>1. PICK c \in Combinations(U) : v = Saved(c)
    BY DEF Maximal
  <2> QED BY <1>2, <1>3, <1>4, <1>6, <2>1
<1>8. ASSUME NEW c \in Combinations({n} \cup U) PROVE Saved(c) <= m
  <2>1. CASE c = {n}
    BY <1>1, <1>2, <1>6, <2>1
  <2>2. CASE c \in Combinations(U)
    <3>1. Saved(c) <= v /\ Saved(c) \in Int
      BY <2>2, CombinationType DEF Maximal
    <3> QED BY <1>1, <1>6, <3>1
  <2> QED BY <1>5, <2>1, <2>2
<1>9. m \in Int
  BY <1>1, <1>6
<1>10. Maximal(m, {n} \cup U)
  BY <1>7, <1>8, <1>9 DEF Maximal
<1> QED BY <1>10 DEF m, t

-----------------------------------------------------------------------------
(* The savings that evaluateSavings finds.                                 *)

\* The entry of loop n, from the entries of its children.
BestOf(max, f, considered, n) ==
  Max({TimeSavedByParallelizingLoop(n), Sum(max, Children(f, n) \cap considered)})

\* max has the entries of all loops.
Best(max, f, considered) == max = [n \in Loops |-> BestOf(max, f, considered, n)]

LEMMA ChildrenFacts ==
  ASSUME program \in Programs, NEW f, f \subseteq Loops, NEW considered, NEW n
  PROVE  /\ IsFiniteSet(Children(f, n) \cap considered)
         /\ \A c \in Children(f, n) \cap considered : c \in Loops /\ n < c
<1>1. \A c \in Children(f, n) : c \in Loops /\ n < c
  BY ChildrenAre
<1>2. Children(f, n) \cap considered \in SUBSET Loops
  BY <1>1
<1> QED BY <1>1, <1>2, LoopsFinite

LEMMA BestOfSame ==
  ASSUME program \in Programs, NEW f, f \subseteq Loops, NEW considered, NEW n, NEW g, NEW h,
         \A c \in Children(f, n) \cap considered : g[c] = h[c]
  PROVE  BestOf(g, f, considered, n) = BestOf(h, f, considered, n)
<1> DEFINE C == Children(f, n) \cap considered
<1>1. IsFiniteSet(C) /\ \A c \in C : g[c] = h[c]
  BY ChildrenFacts
<1> HIDE DEF C
<1>2. Sum(g, C) = Sum(h, C)
  BY <1>1, SumSame
<1> QED BY <1>2 DEF BestOf, C

\* evaluateSavings is defined: there are entries for the last k loops, for
\* every k.
LEMMA BestExists ==
  ASSUME program \in Programs, NEW f, f \subseteq Loops, NEW considered
  PROVE  \E max : Best(max, f, considered)
<1> DEFINE D(k) == {n \in Loops : N - n < k}
           Body(g, n) == BestOf(g, f, considered, n)
           Upto(k, g) == g = [n \in D(k) |-> Body(g, n)]
           Bad == {k \in Nat : ~ \E g : Upto(k, g)}
<1>1. N \in Nat /\ Loops \subseteq Nat /\ \A n \in Loops : n <= N /\ n > 0
  BY PlannerAssumption DEF PlannerAssumption, Loops
<1>2. ASSUME NEW n \in Loops, NEW g, NEW h,
             \A c \in Loops : n < c => g[c] = h[c]
      PROVE  Body(g, n) = Body(h, n)
  <2>1. \A c \in Children(f, n) \cap considered : g[c] = h[c]
    BY <1>2, ChildrenFacts
  <2> QED BY <2>1, BestOfSame
<1>3. ASSUME NEW k \in Nat, NEW g, Upto(k, g) PROVE \E h : Upto(k + 1, h)
  <2> DEFINE h == [n \in D(k + 1) |-> Body(g, n)]
  <2>1. ASSUME NEW n \in D(k) PROVE h[n] = g[n]
    <3>1. n \in D(k + 1)
      BY <1>1
    <3>2. g[n] = Body(g, n)
      BY <1>3, Zenon
    <3> HIDE DEF Body, D
    <3> QED BY <3>1, <3>2
  <2>2. ASSUME NEW n \in D(k + 1) PROVE Body(g, n) = Body(h, n)
    <3>1. ASSUME NEW c \in Loops, n < c PROVE c \in D(k)
      BY <1>1, <3>1
    <3>2. \A c \in Loops : n < c => g[c] = h[c]
      BY <2>1, <3>1
    <3>3. n \in Loops
      OBVIOUS
    <3> HIDE DEF Body, D, h
    <3> QED BY <1>2, <3>2, <3>3
  <2>3. Upto(k + 1, h)
    <3> HIDE DEF Body, D
    <3> QED BY <2>2, Zenon
  <2> HIDE DEF Upto, h
  <2> QED BY <2>3
<1>4. ASSUME Bad # {} PROVE FALSE
  <2>1. PICK m \in Bad : \A j \in Bad : m <= j
    BY <1>4, SmallestOf
  <2>2. m \in Nat /\ ~ \E g : Upto(m, g)
    OBVIOUS
  <2>3. m # 0
    <3> DEFINE z == [n \in D(0) |-> 0]
    <3>1. \A n \in D(0) : FALSE
      BY <1>1
    <3>2. Upto(0, z)
      <4> HIDE DEF Body, D
      <4> QED BY <3>1, Zenon
    <3> HIDE DEF Upto, z
    <3> QED BY <2>2, <3>2
  <2> HIDE DEF Upto
  <2>4. m - 1 \in Nat /\ m - 1 \notin Bad
    <3> HIDE DEF Bad
    <3> QED BY <2>1, <2>2, <2>3
  <2>5. PICK g : Upto(m - 1, g)
    BY <2>4
  <2>6. \E h : Upto((m - 1) + 1, h)
    BY <1>3, <2>4, <2>5
  <2>7. (m - 1) + 1 = m
    BY <2>2
  <2> QED BY <2>2, <2>6, <2>7
<1>5. PICK g : Upto(N, g)
  <2> HIDE DEF Upto
  <2> QED BY <1>1, <1>4
<1>6. D(N) = Loops
  <2>1. \A n \in Loops : N - n < N
    BY <1>1
  <2> QED BY <2>1, Zenon
<1> QED BY <1>5, <1>6, Zenon DEF Best

LEMMA EvaluateIs ==
  ASSUME program \in Programs, NEW f, f \subseteq Loops, NEW considered, NEW root
  PROVE  \E max : /\ Best(max, f, considered)
                  /\ evaluateSavings(f, root, considered)
                       = IF root \in considered THEN max[root] ELSE 0
<1> DEFINE max == CHOOSE m : Best(m, f, considered)
<1>1. Best(max, f, considered)
  BY BestExists, Zenon
<1>2. evaluateSavings(f, root, considered) = IF root \in considered THEN max[root] ELSE 0
  BY Zenon DEF evaluateSavings, Best, BestOf, Sum
<1> HIDE DEF max
<1> QED BY <1>1, <1>2

\* An entry is a natural number: the children save at least nothing.
LEMMA BestNatural ==
  ASSUME program \in Programs, NEW f, f \subseteq Loops, NEW considered, NEW max,
         Best(max, f, considered), NEW n \in Loops
  PROVE  max[n] \in Nat
<1> DEFINE S == {l \in Loops : max[l] \in Nat}
<1>1. ASSUME NEW l \in Loops, \A m \in Loops : l < m => m \in S PROVE l \in S
  <2> DEFINE C == Children(f, l) \cap considered
             a == TimeSavedByParallelizingLoop(l)
             b == Sum(max, C)
  <2>1. IsFiniteSet(C) /\ \A c \in C : max[c] \in Nat
    BY <1>1, ChildrenFacts
  <2>2. b \in Nat
    <3> HIDE DEF C
    <3> QED BY <2>1, SumNatural
  <2>3. a \in Int
    BY SavedType
  <2>4. max[l] = Max({a, b})
    BY Zenon DEF Best, BestOf
  <2> HIDE DEF a, b
  <2>5. Max({a, b}) = IF a >= b THEN a ELSE b
    BY <2>2, <2>3, MaxOfTwo
  <2>6. max[l] \in Nat
    BY <2>2, <2>3, <2>4, <2>5
  <2> QED BY <2>6
<1>2. S = Loops
  <2>1. S \subseteq Loops
    OBVIOUS
  <2> HIDE DEF S
  <2> QED BY <1>1, <2>1, InnerFirst
<1> QED BY <1>2

LEMMA EvaluateNatural ==
  ASSUME program \in Programs, NEW f, f \subseteq Loops, NEW considered, NEW root \in Loops
  PROVE  evaluateSavings(f, root, considered) \in Nat
<1>1. PICK max : /\ Best(max, f, considered)
                 /\ evaluateSavings(f, root, considered)
                      = IF root \in considered THEN max[root] ELSE 0
  BY EvaluateIs
<1>2. max[root] \in Nat
  BY <1>1, BestNatural
<1> QED BY <1>1, <1>2

\* The entry of a loop is the most that loops of its tree save together, when
\* the whole tree is considered.
LEMMA BestIsMaximal ==
  ASSUME program \in Programs, NEW f, f \subseteq Loops, NEW considered, NEW max,
         Best(max, f, considered), NEW n \in f, Tree(f, n) \subseteq considered
  PROVE  Maximal(max[n], Tree(f, n))
<1> DEFINE S == {l \in Loops : l \in f /\ Tree(f, l) \subseteq considered =>
                                 Maximal(max[l], Tree(f, l))}
<1>1. ASSUME NEW l \in Loops, \A m \in Loops : l < m => m \in S,
             l \in f, Tree(f, l) \subseteq considered
      PROVE  Maximal(max[l], Tree(f, l))
  <2> DEFINE K == Children(f, l)
             T == [c \in K |-> Tree(f, c)]
             U == UNION {T[c] : c \in K}
  <2>1. /\ Tree(f, l) = {l} \cup UNION {Tree(f, c) : c \in K}
        /\ l \notin UNION {Tree(f, c) : c \in K}
    BY <1>1, TreeSplit
  <2>2. U = UNION {Tree(f, c) : c \in K}
    BY Zenon
  <2>3. ASSUME NEW c \in K
        PROVE  c \in f /\ c \in Loops /\ l < c /\ c \in Tree(f, c) /\ Tree(f, c) \subseteq Tree(f, l)
    <3>1. c \in f /\ l < c
      BY ChildrenAre
    <3>2. Tree(f, c) \subseteq Tree(f, l)
      BY <2>1
    <3> QED BY <3>1, <3>2 DEF Tree
  <2>4. K \cap considered = K /\ IsFiniteSet(K)
    <3>1. K \subseteq considered /\ K \subseteq Loops
      BY <1>1, <2>3
    <3> HIDE DEF K
    <3> QED BY <3>1, LoopsFinite
  <2>5. ASSUME NEW c \in K PROVE T[c] \subseteq Loops /\ Maximal(max[c], T[c])
    <3>1. T[c] = Tree(f, c)
      OBVIOUS
    <3>2. c \in S /\ Tree(f, c) \subseteq considered /\ c \in f /\ c \in Loops
      BY <1>1, <2>3
    <3>3. Tree(f, c) \subseteq Loops
      BY DEF Tree
    <3> HIDE DEF T, K
    <3> QED BY <3>1, <3>2, <3>3
  <2>6. ASSUME NEW j \in K, NEW k \in K, NEW x \in T[j], NEW y \in T[k], Overlap(x, y)
        PROVE  j = k
    <3>1. x \in Tree(f, j) /\ y \in Tree(f, k)
      OBVIOUS
    <3> QED BY <2>6, <3>1, ChildrenAreApart
  <2>7. Maximal(Sum(max, K), U)
    <3> HIDE DEF T, K
    <3> QED BY <2>4, <2>5, <2>6, MaximalUnion
  <2>8. U \subseteq Loops /\ \A x \in U : l \in Ancestors(x)
    <3>1. U \subseteq Tree(f, l) /\ l \notin U
      BY <2>1, <2>2
    <3> HIDE DEF U
    <3> QED BY <3>1 DEF Tree
  <2> HIDE DEF U
  <2>9. Maximal(Max({TimeSavedByParallelizingLoop(l), Sum(max, K)}), {l} \cup U)
    BY <1>1, <2>7, <2>8, MaximalRoot
  <2>10. max[l] = Max({TimeSavedByParallelizingLoop(l), Sum(max, K \cap considered)})
    BY Zenon DEF Best, BestOf
  <2> QED BY <2>1, <2>2, <2>4, <2>9, <2>10
<1>2. S = Loops
  <2>1. S \subseteq Loops /\ \A l \in Loops : (\A m \in Loops : l < m => m \in S) => l \in S
    BY <1>1
  <2> HIDE DEF S
  <2> QED BY <2>1, InnerFirst
<1> QED BY <1>2

-----------------------------------------------------------------------------
(* What the planner reports.                                              *)

\* The roots of the trees that the planner is done with and that have loops
\* worth parallelizing.
Worked == {r \in Roots(forest) \ trees : Selected(Tree(forest, r)) # {}}

SavedInTrees == [r \in Loops |-> evaluateSavings(forest, r, Tree(forest, r))]

\* What has been saved so far is the sum over the trees of Worked.
SavingsInv ==
  /\ phase = "filter" => programMaxTimeSaved = 0
  /\ phase # "filter" => programMaxTimeSaved = Sum(SavedInTrees, Worked)
  /\ phase = "planned" => trees = {}

\* The indices are counted: as many have been given as there are loops with one.
TypesInv ==
  /\ phase \in {"filter", "select", "planned"}
  /\ parallelizationOrderIndex = Cardinality(DOMAIN looporder)
  /\ doallTag \in [Loops -> {"none", "yes", "no"}]
  /\ programMaxTimeSaved \in Nat /\ programMaxTimeSavedWithDOALLOnly \in Nat
  /\ stage \in {"load", "start", "parallelize", "exit", "abort"}
  /\ modifiedBBs \subseteq Loops

\* What the trees save and which loops are selected depend on the program only.
LEMMA TreesUnchanged ==
  ASSUME program' = program, forest' = forest
  PROVE  /\ SavedInTrees' = SavedInTrees /\ Roots(forest)' = Roots(forest)
         /\ \A r : Selected(Tree(forest, r))' = Selected(Tree(forest, r))
<1>1. \A l : Ancestors(l)' = Ancestors(l)
  BY AncestorsUnchanged
<1>2. \A l : TimeSavedByParallelizingLoop(l)' = TimeSavedByParallelizingLoop(l)
  BY SavedUnchanged
<1>3. Roots(forest)' = Roots(forest) /\ \A r : Tree(forest, r)' = Tree(forest, r)
  BY ForestUnchanged
<1>4. TotalInstructions' = TotalInstructions
  BY DEF TotalInstructions, Roots, Ancestors, Loops, NoParent, MapThenSumSet, MapThenFoldSet
<1>5. SavedInTrees' = SavedInTrees
  BY DEF SavedInTrees, evaluateSavings, Children, Tree, TimeSavedByParallelizingLoop,
         TimeSpentInCriticalPath, getSCCsThatBlockDOALLToBeApplicable, Ancestors, Loops,
         NoParent, MapThenSumSet, MapThenFoldSet, Max
<1>6. \A r : Selected(Tree(forest, r))' = Selected(Tree(forest, r))
  BY <1>2, <1>3, <1>4 DEF Selected
<1> QED BY <1>3, <1>5, <1>6

LEMMA SavingsKept ==
  ASSUME SavingsInv, program' = program, forest' = forest, trees' = trees,
         programMaxTimeSaved' = programMaxTimeSaved,
         phase' = phase \/ (phase = "select" /\ phase' = "planned" /\ trees = {})
  PROVE  SavingsInv'
<1>1. SavedInTrees' = SavedInTrees /\ Worked' = Worked
  BY TreesUnchanged DEF Worked
<1>2. Sum(SavedInTrees, Worked)' = Sum(SavedInTrees, Worked)
  BY <1>1, Zenon DEF Sum, MapThenSumSet, MapThenFoldSet
<1> QED BY <1>2 DEF SavingsInv

\* A tree with loops to parallelize adds what it saves.
LEMMA SavingsSelect ==
  ASSUME PlannedInv, SavingsInv, NEW root \in Loops, selectTheOrderOfLoopsToParallelize(root)
  PROVE  SavingsInv'
<1> DEFINE S == Selected(Tree(forest, root))
<1>1. /\ program' = program /\ forest' = forest /\ trees' = trees \ {root} /\ root \in trees
      /\ phase = "select" /\ phase' = phase
      /\ programMaxTimeSaved' = IF S = {} THEN programMaxTimeSaved
                                ELSE programMaxTimeSaved
                                       + evaluateSavings(forest, root, Tree(forest, root))
  BY DEF selectTheOrderOfLoopsToParallelize
<1>2. /\ program \in Programs /\ forest \subseteq Loops /\ trees \subseteq Roots(forest)
      /\ programMaxTimeSaved = Sum(SavedInTrees, Worked)
  BY <1>1 DEF PlannedInv, SavingsInv
<1>3. SavedInTrees' = SavedInTrees
  BY <1>1, TreesUnchanged
<1>4. Worked' = IF S = {} THEN Worked ELSE Worked \cup {root}
  <2>1. /\ Roots(forest)' = Roots(forest)
        /\ \A r : Selected(Tree(forest, r))' = Selected(Tree(forest, r))
    BY <1>1, TreesUnchanged
  <2>2. Worked' = {r \in Roots(forest) \ (trees \ {root}) : Selected(Tree(forest, r)) # {}}
    BY <1>1, <2>1 DEF Worked
  <2> QED BY <1>1, <1>2, <2>2 DEF Worked
<1>5. root \notin Worked /\ Worked \subseteq Loops
  BY <1>1, <1>2 DEF Worked, Roots
<1>6. ASSUME S # {}
      PROVE  Sum(SavedInTrees, Worked \cup {root})
               = Sum(SavedInTrees, Worked) + evaluateSavings(forest, root, Tree(forest, root))
  <2> DEFINE W == Worked \cup {root}
  <2>1. IsFiniteSet(W) /\ IsFiniteSet(Worked) /\ W \ {root} = Worked /\ root \in W
    BY <1>5, LoopsFinite
  <2>2. \A r \in Loops : SavedInTrees[r] \in Nat
    BY <1>2, EvaluateNatural DEF SavedInTrees
  <2>3. \A r \in W : SavedInTrees[r] \in Int
    BY <1>5, <2>2
  <2>4. Sum(SavedInTrees, Worked) \in Int
    BY <1>5, <2>1, <2>2, SumType
  <2> HIDE DEF W
  <2>5. Sum(SavedInTrees, W) = SavedInTrees[root] + Sum(SavedInTrees, W \ {root})
    BY <2>1, <2>3, SumRemove
  <2>6. SavedInTrees[root] = evaluateSavings(forest, root, Tree(forest, root))
    BY DEF SavedInTrees
  <2>7. PICK a \in Int, b \in Int : a = SavedInTrees[root] /\ b = Sum(SavedInTrees, Worked)
    BY <2>1, <2>3, <2>4
  <2>8. a + b = b + a
    OBVIOUS
  <2> QED BY <2>1, <2>5, <2>6, <2>7, <2>8 DEF W
<1>7. programMaxTimeSaved' = Sum(SavedInTrees, Worked')
  <2> HIDE DEF S
  <2> QED BY <1>1, <1>2, <1>4, <1>6 DEF S
<1>8. programMaxTimeSaved' = Sum(SavedInTrees, Worked)'
  BY <1>3, <1>7, Zenon DEF Sum, MapThenSumSet, MapThenFoldSet
<1> QED BY <1>1, <1>8 DEF SavingsInv

LEMMA SavingsStep ==
  ASSUME PlannedInv, SavingsInv, Plan
  PROVE  SavingsInv'
<1>1. CASE removeLoopsNotWorthParallelizing
  <2>1. /\ program' = program /\ trees' = Roots(forest') /\ phase' = "select"
        /\ programMaxTimeSaved' = 0
    BY <1>1 DEF removeLoopsNotWorthParallelizing, SavingsInv
  <2>2. Roots(forest)' = Roots(forest')
    BY <2>1, AncestorsUnchanged DEF Roots
  <2>3. Worked' = {}
    BY <2>1, <2>2 DEF Worked
  <2>4. PICK F : F = SavedInTrees'
    OBVIOUS
  <2>5. Sum(F, {}) = 0
    BY SumEmpty
  <2>6. Sum(SavedInTrees, Worked)' = 0
    BY <2>3, <2>4, <2>5, Zenon DEF Sum, MapThenSumSet, MapThenFoldSet
  <2> QED BY <2>1, <2>6 DEF SavingsInv
<1>2. CASE \E root \in Loops : selectTheOrderOfLoopsToParallelize(root)
  BY <1>2, SavingsSelect
<1>3. CASE PlannerExit
  BY <1>3, SavingsKept DEF PlannerExit
<1> QED BY <1>1, <1>2, <1>3 DEF Plan

LEMMA SavingsImply ==
  ASSUME PlannedInv, SavingsInv
  PROVE  SavingsAreMaximal
<1> DEFINE planned == UNION {Tree(forest, r) : r \in
                              {q \in Roots(forest) : Selected(Tree(forest, q)) # {}}}
           T == [r \in Worked |-> Tree(forest, r)]
<1> SUFFICES ASSUME phase = "planned"
             PROVE  programMaxTimeSaved = Max({Saved(c) : c \in Combinations(planned)})
  BY Zenon DEF SavingsAreMaximal
<1>1. /\ program \in Programs /\ forest \subseteq Loops
      /\ Worked = {q \in Roots(forest) : Selected(Tree(forest, q)) # {}}
      /\ programMaxTimeSaved = Sum(SavedInTrees, Worked)
  BY DEF PlannedInv, SavingsInv, Worked
<1>2. planned = UNION {T[r] : r \in Worked}
  BY <1>1, Zenon
<1>3. \A r \in Worked : r \in forest /\ r \in Roots(forest) /\ r \in Tree(forest, r) /\ T[r] = Tree(forest, r)
  BY <1>1 DEF Roots, Tree
<1>4. ASSUME NEW r \in Worked PROVE T[r] \subseteq Loops /\ Maximal(SavedInTrees[r], T[r])
  <2>1. PICK max : /\ Best(max, forest, Tree(forest, r))
                   /\ evaluateSavings(forest, r, Tree(forest, r)) = max[r]
    <3>1. PICK C : C = Tree(forest, r)
      OBVIOUS
    <3>2. \E m : Best(m, forest, C)
                   /\ evaluateSavings(forest, r, C) = IF r \in C THEN m[r] ELSE 0
      BY <1>1, EvaluateIs
    <3> QED BY <1>3, <3>1, <3>2
  <2>2. Tree(forest, r) \subseteq Tree(forest, r)
    OBVIOUS
  <2>3. Maximal(max[r], Tree(forest, r))
    BY <1>1, <1>3, <2>1, <2>2, BestIsMaximal
  <2>4. SavedInTrees[r] = max[r]
    BY <1>1, <1>3, <2>1 DEF SavedInTrees
  <2>5. Tree(forest, r) \subseteq Loops
    BY <1>1 DEF Tree
  <2> QED BY <1>3, <2>3, <2>4, <2>5
<1>5. ASSUME NEW j \in Worked, NEW k \in Worked, NEW x \in T[j], NEW y \in T[k], Overlap(x, y)
      PROVE  j = k
  <2>1. x \in Tree(forest, j) /\ y \in Tree(forest, k)
    OBVIOUS
  <2> QED BY <1>1, <1>3, <1>5, <2>1, TreesAreApart
<1>6. IsFiniteSet(Worked)
  <2>1. Worked \subseteq Loops
    BY <1>1, <1>3
  <2> QED BY <2>1, LoopsFinite
<1> HIDE DEF T, planned
<1>7. Maximal(Sum(SavedInTrees, Worked), UNION {T[r] : r \in Worked})
  BY <1>1, <1>4, <1>5, <1>6, MaximalUnion
<1>8. planned \subseteq Loops
  BY <1>2, <1>4
<1> QED BY <1>1, <1>2, <1>7, <1>8, MaximalIsMax

-----------------------------------------------------------------------------
(* Types.                                                                  *)

\* The loops of a tree have no index before its turn.
LEMMA TypesSelect ==
  ASSUME PlannedInv, TypesInv, NEW root \in Loops, selectTheOrderOfLoopsToParallelize(root),
         UNCHANGED parallelizerVars
  PROVE  TypesInv'
<1> DEFINE S == Selected(Tree(forest, root))
           D == DOMAIN looporder
<1>1. /\ program \in Programs /\ forest \subseteq Loops /\ root \in Roots(forest)
      /\ root \in trees /\ S \subseteq Tree(forest, root) /\ S \subseteq Loops
  BY DEF PlannedInv, Selected, Tree, selectTheOrderOfLoopsToParallelize
<1>2. ASSUME NEW l \in D PROVE l \in Loops /\ l \notin S
  <2>1. PICK r \in Roots(forest) \ trees : l \in Tree(forest, r)
    BY DEF PlannedInv
  <2>2. l \in Loops
    BY <1>1, <2>1 DEF Tree
  <2>3. l \in S => r = root
    BY <1>1, <2>1, TreesAreApart DEF Overlap
  <2> QED BY <1>1, <2>1, <2>2, <2>3
<1>3. DOMAIN looporder' = D \cup S
  BY DEF selectTheOrderOfLoopsToParallelize
<1>4. parallelizationOrderIndex' = parallelizationOrderIndex + Cardinality(S)
  BY DEF selectTheOrderOfLoopsToParallelize
<1>5. parallelizationOrderIndex' = Cardinality(DOMAIN looporder')
  <2>1. IsFiniteSet(D) /\ IsFiniteSet(S)
    BY <1>1, <1>2, LoopsFinite
  <2>2. D \cap S = {}
    BY <1>2
  <2> HIDE DEF D, S
  <2>3. Cardinality(D \cup S) = Cardinality(D) + Cardinality(S)
    <3>1. Cardinality(D \cup S) = Cardinality(D) + Cardinality(S) - Cardinality({})
      BY <2>1, <2>2, FS_Union
    <3>2. Cardinality(D) \in Nat /\ Cardinality(S) \in Nat /\ Cardinality({}) = 0
      BY <2>1, FS_CardinalityType, FS_EmptySet
    <3> QED BY <3>1, <3>2
  <2> QED BY <1>3, <1>4, <2>3 DEF TypesInv, D
<1>6. doallTag' \in [Loops -> {"none", "yes", "no"}]
  BY DEF TypesInv, selectTheOrderOfLoopsToParallelize
<1>7. programMaxTimeSaved' \in Nat /\ programMaxTimeSavedWithDOALLOnly' \in Nat
  <2> DEFINE doall == {l \in Tree(forest, root) : DOALLCanBeAppliedToLoop(l)}
             a == evaluateSavings(forest, root, Tree(forest, root))
             b == evaluateSavings(forest, root, doall)
  <2>1. a \in Nat /\ b \in Nat
    <3> HIDE DEF doall
    <3> QED BY <1>1, EvaluateNatural
  <2>2. /\ programMaxTimeSaved' \in {programMaxTimeSaved, programMaxTimeSaved + a}
        /\ programMaxTimeSavedWithDOALLOnly' \in
             {programMaxTimeSavedWithDOALLOnly, programMaxTimeSavedWithDOALLOnly + b}
    BY DEF selectTheOrderOfLoopsToParallelize
  <2> HIDE DEF a, b
  <2> QED BY <2>1, <2>2 DEF TypesInv
<1>8. phase' = phase /\ stage' = stage /\ modifiedBBs' = modifiedBBs
  BY DEF selectTheOrderOfLoopsToParallelize, parallelizerVars
<1> QED BY <1>5, <1>6, <1>7, <1>8 DEF TypesInv, Loops

LEMMA TypesStep ==
  ASSUME PlannedInv, TypesInv, [Next]_allVars
  PROVE  TypesInv'
<1>1. ASSUME Plan, UNCHANGED parallelizerVars PROVE TypesInv'
  <2>1. CASE removeLoopsNotWorthParallelizing
    BY <1>1, <2>1 DEF removeLoopsNotWorthParallelizing, parallelizerVars, TypesInv, Loops
  <2>2. CASE \E root \in Loops : selectTheOrderOfLoopsToParallelize(root)
    BY <1>1, <2>2, TypesSelect
  <2>3. CASE PlannerExit
    BY <1>1, <2>3 DEF PlannerExit, parallelizerVars, TypesInv, Loops
  <2> QED BY <1>1, <2>1, <2>2, <2>3 DEF Plan
<1>2. ASSUME UNCHANGED plannerVars, stage' \in {"load", "start", "parallelize", "exit", "abort"},
             modifiedBBs' \subseteq Loops
      PROVE  TypesInv'
  BY <1>2 DEF plannerVars, TypesInv, Loops
<1>3. CASE UNCHANGED allVars
  BY <1>2, <1>3 DEF allVars, parallelizerVars, TypesInv
<1>4. ASSUME Parallelize, UNCHANGED plannerVars PROVE TypesInv'
  <2>1. CASE ParallelizeNext
    <3> DEFINE l == loopParallelizationOrder[Min(Pending)]
    <3>1. stage' = stage /\ modifiedBBs' \subseteq modifiedBBs \cup BasicBlocks(l)
      BY <2>1 DEF ParallelizeNext
    <3>2. BasicBlocks(l) \subseteq Loops
      BY DEF BasicBlocks
    <3> HIDE DEF l
    <3>3. modifiedBBs' \subseteq Loops
      BY <3>1, <3>2 DEF TypesInv
    <3> QED BY <1>2, <1>4, <3>1, <3>3 DEF TypesInv
  <2>2. CASE doInitialization \/ collectThreadPoolHelperFunctionsAndTypes \/ DetermineOrder
               \/ ParallelizerExit
    <3>1. /\ modifiedBBs' = modifiedBBs
          /\ stage' \in {"load", "start", "parallelize", "exit", "abort"}
      BY <2>2 DEF doInitialization, collectThreadPoolHelperFunctionsAndTypes, DetermineOrder,
                  ParallelizerExit
    <3> QED BY <1>2, <1>4, <3>1 DEF TypesInv
  <2> QED BY <1>4, <2>1, <2>2 DEF Parallelize
<1> QED BY <1>1, <1>3, <1>4 DEF Next, Terminated, allVars

LEMMA TypesImply ==
  ASSUME OrderInv, TypesInv
  PROVE  TypeOK
<1> DEFINE D == DOMAIN looporder
<1>1. /\ PlannedInv /\ DOMAIN outcome \subseteq Loops
  BY DEF OrderInv, DisjointInv, BlocksRemembered
<1>2. forest \subseteq Loops /\ trees \subseteq forest
  BY <1>1 DEF PlannedInv, Roots
<1>3. D \subseteq forest /\ D \subseteq Loops
  <2>1. \A l \in D : l \in forest
    BY <1>1 DEF PlannedInv, Tree
  <2> QED BY <1>2, <2>1
<1>4. N \in Nat /\ Cardinality(Loops) = N
  <2>1. N \in Nat /\ N # 0
    BY PlannerAssumption DEF PlannerAssumption
  <2>2. Cardinality(1 .. N) = N
    BY <2>1, FS_Interval
  <2> QED BY <2>1, <2>2 DEF Loops
<1>5. Cardinality(D) \in Nat /\ Cardinality(D) <= N
  <2> HIDE DEF D
  <2> QED BY <1>3, <1>4, LoopsFinite, FS_Subset, FS_CardinalityType
<1>6. ASSUME NEW l \in D PROVE looporder[l] \in 0 .. N - 1
  <2>1. looporder[l] \in Nat /\ looporder[l] < parallelizationOrderIndex
    BY <1>1 DEF PlannedInv
  <2>2. parallelizationOrderIndex = Cardinality(D)
    BY DEF TypesInv
  <2> HIDE DEF D
  <2> QED BY <1>4, <1>5, <2>1, <2>2
<1> QED BY <1>1, <1>2, <1>3, <1>6 DEF TypeOK, TypesInv

LEMMA ProgramInvInit ==
  ASSUME ParallelizerInit
  PROVE  SavingsInv /\ TypesInv
<1>1. /\ phase = "filter" /\ programMaxTimeSaved = 0 /\ programMaxTimeSavedWithDOALLOnly = 0
      /\ DOMAIN looporder = {} /\ parallelizationOrderIndex = 0 /\ stage = "load"
      /\ modifiedBBs = {} /\ doallTag = [l \in Loops |-> "none"]
  BY DEF ParallelizerInit, Init
<1>2. Cardinality({}) = 0
  BY FS_EmptySet
<1>3. SavingsInv
  BY <1>1 DEF SavingsInv
<1> QED BY <1>1, <1>2, <1>3 DEF TypesInv

LEMMA SavingsNext ==
  ASSUME PlannedInv, SavingsInv, [Next]_allVars
  PROVE  SavingsInv'
<1>1. CASE Plan
  BY <1>1, SavingsStep
<1>2. CASE UNCHANGED plannerVars
  BY <1>2, SavingsKept DEF plannerVars
<1> QED BY <1>1, <1>2 DEF Next, Terminated, allVars

\* Every index the planner embeds is below the number of loops, what it says is
\* saved is never negative, and the tables of the parallelizer hold loops, for
\* every program whose profile is made of natural numbers, also of one whose
\* SCCs execute more than their loop.
THEOREM PlanTypes == Spec => []TypeOK
<1>1. ParallelizerInit => OrderInv /\ TypesInv
  BY OrderInvInit, ProgramInvInit
<1>2. OrderInv /\ TypesInv /\ [Next]_allVars => (OrderInv /\ TypesInv)'
  BY OrderInvNext, TypesStep DEF OrderInv
<1>3. OrderInv /\ TypesInv => TypeOK
  BY TypesImply
<1> QED BY <1>1, <1>2, <1>3, PTL DEF Spec, allVars

\* For every nest of loops and every profile, what evaluateSavings adds up from
\* the leaves of the trees to their roots is the maximum over all sets of loops
\* of which none contains another.
THEOREM SavingsMaximal == Spec => []SavingsAreMaximal
<1>1. ParallelizerInit => OrderInv /\ SavingsInv
  BY OrderInvInit, ProgramInvInit
<1>2. OrderInv /\ SavingsInv /\ [Next]_allVars => (OrderInv /\ SavingsInv)'
  BY OrderInvNext, SavingsNext DEF OrderInv
<1>3. OrderInv /\ SavingsInv => SavingsAreMaximal
  BY SavingsImply DEF OrderInv
<1> QED BY <1>1, <1>2, <1>3, PTL DEF Spec, allVars
=============================================================================
