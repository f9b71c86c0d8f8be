----------------------------- MODULE DSWPProofs -----------------------------
(***************************************************************************)
(* For every loop and every partition of its SCCs: the queues of the       *)
(* pipeline lead forward, and each task has the operands and the control   *)
(* flow it needs.  With any number of workers and iterations, the stages   *)
(* do together what the sequential loop does, and the queues are empty     *)
(* when the dispatcher deletes them.                                       *)
(***************************************************************************)
EXTENDS DSWP, FiniteSetTheorems, WellFoundedInduction, TLAPS

-----------------------------------------------------------------------------
(* The pipeline that the compiler builds.                                  *)

\* A set of natural numbers that is not empty has a smallest element.
LEMMA SmallestOf ==
  ASSUME NEW S, S \subseteq Nat, S # {}
  PROVE  \E x \in S : \A y \in S : x <= y
<1>1. \A x, y \in Nat : <<x, y>> \in OpToRel(<, Nat) <=> x < y
  BY DEF OpToRel
<1>2. IsWellFoundedOn(OpToRel(<, Nat), Nat)
  BY NatLessThanWellFounded
<1>3. PICK x \in S : \A y \in S : ~(<<y, x>> \in OpToRel(<, Nat))
  BY <1>2, WFMin
<1>4. ASSUME NEW y \in S PROVE x <= y
  <2>1. x \in Nat /\ y \in Nat
    OBVIOUS
  <2>2. ~(y < x)
    BY <1>1, <1>3, <2>1, Zenon
  <2> QED BY <2>1, <2>2
<1> QED BY <1>4

\* Induction over the SCCs, each after the ones it depends on.
LEMMA SCCInduction ==
  ASSUME NEW S, S \subseteq SCCs,
         \A n \in SCCs : (\A k \in SCCs : k < n => k \in S) => n \in S
  PROVE  S = SCCs
<1> DEFINE Bad == SCCs \ S
<1>1. Bad \subseteq Nat
  BY PipelineAssumption DEF PipelineAssumption, SCCs
<1>2. ASSUME Bad # {} PROVE FALSE
  <2>1. PICK n \in Bad : \A k \in Bad : n <= k
    BY <1>1, <1>2, SmallestOf
  <2>2. \A k \in SCCs : k < n => k \in S
    BY <1>1, <2>1
  <2> QED BY <2>2
<1> QED BY <1>2

-----------------------------------------------------------------------------
(* The SCCDAG.                                                             *)

\* The SCCs that n depends on over one edge.
Uses(l, n) == {e[1] : e \in {f \in Edges(l) : f[2] = n}}

\* What a front end produces.
LEMMA LoopFacts ==
  ASSUME NEW l \in Loops
  PROVE  /\ N \in Nat /\ N # 0 /\ Exit \in SCCs /\ l \in LoopType
         /\ l.kind[Exit] = "sequential" /\ l.cond[Exit] = Exit
         /\ \A e \in l.data : e \in SCCs \X SCCs /\ e[1] < e[2]
         /\ \A n \in SCCs \ {Exit} :
              /\ l.parent[n] \in SCCs /\ l.parent[n] < n /\ l.parent[n] \in l.branch
              /\ l.cond[n] \in SCCs
              /\ l.cond[n] # n => /\ <<l.cond[n], n>> \in l.data
                                  /\ Controllers(l)[l.cond[n]] \subseteq Controllers(l)[n]
<1>1. N \in Nat /\ N # 0 /\ l \in LoopType /\ WellFormed(l)
  BY PipelineAssumption DEF PipelineAssumption
<1>2. Exit \in SCCs
  BY <1>1 DEF Exit, SCCs
<1>3. \A e \in l.data : e \in SCCs \X SCCs /\ e[1] < e[2]
  BY <1>1 DEF LoopType, WellFormed
<1>4. \A n \in SCCs : l.parent[n] \in SCCs /\ l.cond[n] \in SCCs
  BY <1>1 DEF LoopType
<1> QED BY <1>1, <1>2, <1>3, <1>4 DEF WellFormed

LEMMA UsesFacts ==
  ASSUME NEW l \in Loops, NEW n \in SCCs
  PROVE  /\ \A d \in Uses(l, n) : d \in SCCs /\ d < n
         /\ \A e \in l.data : e[2] = n => e[1] \in Uses(l, n)
         /\ n # Exit => l.parent[n] \in Uses(l, n)
<1>1. \A d \in Uses(l, n) : d \in SCCs /\ d < n
  <2>1. ASSUME NEW e \in Edges(l), e[2] = n PROVE e[1] \in SCCs /\ e[1] < n
    <3>1. CASE e \in l.data
      BY <2>1, <3>1, LoopFacts
    <3>2. CASE \E k \in SCCs \ {Exit} : e = <<l.parent[k], k>>
      <4>1. PICK k \in SCCs \ {Exit} : e = <<l.parent[k], k>>
        BY <3>2
      <4>2. e[1] = l.parent[k] /\ e[2] = k
        BY <4>1
      <4> QED BY <2>1, <4>2, LoopFacts
    <3> QED BY <3>1, <3>2 DEF Edges
  <2> QED BY <2>1 DEF Uses
<1>2. \A e \in l.data : e[2] = n => e[1] \in Uses(l, n)
  BY DEF Uses, Edges
<1>3. ASSUME n # Exit PROVE l.parent[n] \in Uses(l, n)
  <2> DEFINE e == <<l.parent[n], n>>
  <2>1. e \in Edges(l) /\ e[1] = l.parent[n] /\ e[2] = n
    BY <1>3 DEF Edges
  <2> HIDE DEF e
  <2> QED BY <2>1 DEF Uses
<1> QED BY <1>1, <1>2, <1>3

\* up closes p: it has what p has, and what up has for that.
Closes(up, p) == up = [n \in SCCs |-> p[n] \cup UNION {up[d] : d \in p[n]}]

\* Recursion over the SCCs is defined: it is for the first m, for every m.
LEMMA ClosureExists ==
  ASSUME N \in Nat, NEW p \in [SCCs -> SUBSET SCCs], \A n \in SCCs : \A d \in p[n] : d < n
  PROVE  \E up : Closes(up, p)
<1> DEFINE Upto(m, up) == up = [n \in 1 .. m |-> p[n] \cup UNION {up[d] : d \in p[n]}]
           Bad == {m \in Nat : m <= N /\ ~ \E up : Upto(m, up)}
<1> HIDE DEF Upto
<1>1. ASSUME Bad # {} PROVE FALSE
  <2>1. PICK m \in Bad : \A k \in Bad : m <= k
    BY <1>1, SmallestOf
  <2>2. m \in Nat /\ m <= N /\ ~ \E up : Upto(m, up)
    OBVIOUS
  <2>3. m # 0
    <3>1. Upto(0, [n \in 1 .. 0 |-> {}])
      BY DEF Upto
    <3> QED BY <2>2, <3>1
  <2>4. m - 1 \in Nat /\ m - 1 <= N /\ m - 1 \notin Bad
    <3> HIDE DEF Bad
    <3> QED BY <2>1, <2>2, <2>3
  <2>5. PICK f : Upto(m - 1, f)
    BY <2>4
  <2> HIDE DEF Bad
  <2> DEFINE g == [n \in 1 .. m |-> p[n] \cup UNION {f[d] : d \in p[n]}]
  <2>6. \A n \in 1 .. m : n \in SCCs /\ n \in Nat /\ n <= m
    BY <2>2 DEF SCCs
  <2>7. ASSUME NEW n \in 1 .. m, NEW d \in p[n] PROVE d \in 1 .. m - 1
    <3>1. d \in SCCs /\ d < n
      BY <2>6
    <3> QED BY <2>2, <2>6, <3>1 DEF SCCs
  <2>8. ASSUME NEW k \in 1 .. m - 1 PROVE g[k] = f[k]
    <3>1. k \in 1 .. m
      BY <2>2
    <3>2. f[k] = p[k] \cup UNION {f[d] : d \in p[k]}
      BY <2>5, Zenon DEF Upto
    <3> QED BY <3>1, <3>2
  <2>9. \A n \in 1 .. m : {f[d] : d \in p[n]} = {g[d] : d \in p[n]}
    <3>1. \A n \in 1 .. m : \A d \in p[n] : f[d] = g[d]
      BY <2>7, <2>8
    <3> QED BY <3>1, Zenon
  <2>10. Upto(m, g)
    BY <2>9, Zenon DEF Upto
  <2> QED BY <2>2, <2>10
<1>2. \E up : Upto(N, up)
  BY <1>1
<1> QED BY <1>2 DEF Closes, SCCs, Upto

\* The SCCs that n depends on are those it uses and those that they depend on.
LEMMA AncestorsAre ==
  ASSUME NEW l \in Loops, NEW n \in SCCs
  PROVE  Ancestors(l)[n] = Uses(l, n) \cup UNION {Ancestors(l)[d] : d \in Uses(l, n)}
<1> DEFINE p == [k \in SCCs |-> Uses(l, k)]
           Rec(f) == f = [k \in SCCs |-> Uses(l, k) \cup UNION {f[d] : d \in Uses(l, k)}]
           up == CHOOSE f : Rec(f)
<1>1. N \in Nat /\ p \in [SCCs -> SUBSET SCCs] /\ \A k \in SCCs : \A d \in p[k] : d < k
  BY LoopFacts, UsesFacts
<1>2. PICK g : Closes(g, p)
  <2> HIDE DEF p
  <2> QED BY <1>1, ClosureExists
<1>3. Rec(g)
  <2>1. \A k \in SCCs : p[k] = Uses(l, k)
    OBVIOUS
  <2> HIDE DEF p
  <2> QED BY <1>2, <2>1, Zenon DEF Closes
<1>4. Rec(up)
  <2> HIDE DEF Rec
  <2> QED BY <1>3
<1>5. Ancestors(l) = up
  BY DEF Ancestors, Uses
<1> HIDE DEF up
<1>6. up[n] = Uses(l, n) \cup UNION {up[d] : d \in Uses(l, n)}
  BY <1>4, Zenon
<1> QED BY <1>5, <1>6

\* The branches around n are its parent and the branches around that.
LEMMA ControllersAre ==
  ASSUME NEW l \in Loops, NEW n \in SCCs
  PROVE  Controllers(l)[n] = IF n = Exit THEN {}
                             ELSE {l.parent[n]} \cup Controllers(l)[l.parent[n]]
<1> DEFINE p == [k \in SCCs |-> IF k = Exit THEN {} ELSE {l.parent[k]}]
           Rec(f) == f = [k \in SCCs |-> IF k = Exit THEN {}
                                         ELSE {l.parent[k]} \cup f[l.parent[k]]]
           up == CHOOSE f : Rec(f)
<1>1. N \in Nat /\ p \in [SCCs -> SUBSET SCCs] /\ \A k \in SCCs : \A d \in p[k] : d < k
  BY LoopFacts
<1>2. PICK g : Closes(g, p)
  <2> HIDE DEF p
  <2> QED BY <1>1, ClosureExists
<1>3. Rec(g)
  <2>1. ASSUME NEW k \in SCCs
        PROVE  p[k] \cup UNION {g[d] : d \in p[k]} =
                 IF k = Exit THEN {} ELSE {l.parent[k]} \cup g[l.parent[k]]
    <3>1. CASE k = Exit
      BY <3>1
    <3>2. CASE k # Exit
      <4>1. p[k] = {l.parent[k]}
        BY <3>2
      <4>2. UNION {g[d] : d \in {l.parent[k]}} = g[l.parent[k]]
        BY Zenon
      <4> QED BY <3>2, <4>1, <4>2
    <3> QED BY <3>1, <3>2
  <2> HIDE DEF p
  <2> QED BY <1>2, <2>1, Zenon DEF Closes
<1>4. Rec(up)
  <2> HIDE DEF Rec
  <2> QED BY <1>3
<1>5. Controllers(l) = up
  BY DEF Controllers
<1> HIDE DEF up
<1>6. up[n] = IF n = Exit THEN {} ELSE {l.parent[n]} \cup up[l.parent[n]]
  BY <1>4, Zenon
<1> QED BY <1>5, <1>6

\* Dependences are transitive, and everything depends on the exit test.
LEMMA AncestorsFacts ==
  ASSUME NEW l \in Loops, NEW n \in SCCs
  PROVE  /\ Ancestors(l)[n] \subseteq SCCs
         /\ \A d \in Ancestors(l)[n] : Ancestors(l)[d] \subseteq Ancestors(l)[n]
         /\ n # Exit => Exit \in Ancestors(l)[n]
         /\ \A e \in l.data : e[2] = n => e[1] \in Ancestors(l)[n]
<1> DEFINE A == Ancestors(l)
           Good(k) == /\ A[k] \subseteq SCCs
                      /\ \A d \in A[k] : A[d] \subseteq A[k]
                      /\ k # Exit => Exit \in A[k]
           S == {k \in SCCs : Good(k)}
<1>1. \A k \in SCCs : \A x : x \in A[k] <=> x \in Uses(l, k) \/ \E d \in Uses(l, k) : x \in A[d]
  <2>1. \A k \in SCCs : A[k] = Uses(l, k) \cup UNION {A[d] : d \in Uses(l, k)}
    BY AncestorsAre
  <2> HIDE DEF A
  <2>2. ASSUME NEW k \in SCCs, NEW x
        PROVE  x \in A[k] <=> x \in Uses(l, k) \/ \E d \in Uses(l, k) : x \in A[d]
    <3> DEFINE U == Uses(l, k)
    <3>1. A[k] = U \cup UNION {A[d] : d \in U}
      BY <2>1
    <3> HIDE DEF U
    <3>2. x \in A[k] <=> x \in U \/ \E d \in U : x \in A[d]
      BY <3>1
    <3> QED BY <3>2 DEF U
  <2> QED BY <2>2
<1> HIDE DEF A
<1>2. ASSUME NEW k \in SCCs, \A j \in SCCs : j < k => j \in S PROVE k \in S
  <2>1. \A d \in Uses(l, k) : d \in SCCs /\ Good(d)
    BY <1>2, UsesFacts
  <2>2. A[k] \subseteq SCCs
    BY <1>1, <2>1
  <2>3. \A d \in A[k] : A[d] \subseteq A[k]
    BY <1>1, <2>1
  <2>4. ASSUME k # Exit PROVE Exit \in A[k]
    <3>1. l.parent[k] \in Uses(l, k)
      BY <2>4, UsesFacts
    <3> QED BY <1>1, <2>1, <3>1
  <2> QED BY <2>2, <2>3, <2>4
<1>3. S = SCCs
  <2>1. S \subseteq SCCs
    OBVIOUS
  <2> HIDE DEF S
  <2> QED BY <1>2, <2>1, SCCInduction
<1>4. \A e \in l.data : e[2] = n => e[1] \in A[n]
  BY <1>1, UsesFacts
<1> QED BY <1>3, <1>4 DEF A

\* The branches around an SCC are among the SCCs it depends on.
LEMMA ControllersFacts ==
  ASSUME NEW l \in Loops, NEW n \in SCCs, NEW b \in Controllers(l)[n]
  PROVE  /\ b \in Ancestors(l)[n] /\ b \in SCCs /\ b \in l.branch
         /\ \E k \in SCCs \ {Exit} : l.parent[k] = b
<1> DEFINE C == Controllers(l)
           Good(x, k) == /\ x \in Ancestors(l)[k] /\ x \in SCCs /\ x \in l.branch
                         /\ \E j \in SCCs \ {Exit} : l.parent[j] = x
           S == {k \in SCCs : \A x \in C[k] : Good(x, k)}
<1>1. \A k \in SCCs : C[k] = IF k = Exit THEN {} ELSE {l.parent[k]} \cup C[l.parent[k]]
  BY ControllersAre
<1> HIDE DEF C
<1>2. ASSUME NEW k \in SCCs, \A j \in SCCs : j < k => j \in S PROVE k \in S
  <2>1. ASSUME NEW x \in C[k] PROVE Good(x, k)
    <3>1. k # Exit /\ (x = l.parent[k] \/ x \in C[l.parent[k]])
      BY <1>1, <2>1
    <3>2. l.parent[k] \in SCCs /\ l.parent[k] < k /\ l.parent[k] \in l.branch
      BY <3>1, LoopFacts
    <3>3. l.parent[k] \in Ancestors(l)[k]
      BY <3>1, AncestorsAre, UsesFacts
    <3>4. CASE x = l.parent[k]
      BY <3>1, <3>2, <3>3, <3>4
    <3>5. CASE x \in C[l.parent[k]]
      <4>1. Good(x, l.parent[k])
        BY <1>2, <3>2, <3>5
      <4>2. Ancestors(l)[l.parent[k]] \subseteq Ancestors(l)[k]
        BY <3>3, AncestorsFacts
      <4> QED BY <4>1, <4>2
    <3> QED BY <3>1, <3>4, <3>5
  <2> QED BY <2>1
<1>3. S = SCCs
  <2>1. S \subseteq SCCs
    OBVIOUS
  <2> HIDE DEF S
  <2> QED BY <1>2, <2>1, SCCInduction
<1> QED BY <1>3 DEF C

-----------------------------------------------------------------------------
(* The inductive invariant: what the tables hold after each step of apply. *)

\* The clones of each stage: AddClonableSCCsToStages.
Clones ==
  [s \in SCCs |-> {c \in Clonable(loop) : \E n \in stageSCCs(s) : c \in Ancestors(loop)[n]}]

\* The queues of CollectDataQueueInfo and of CollectControlQueueInfo.
DataUses ==
  UNION {{registerQueue(sccToStage[e[1]], s, e[1], e[2]) :
            e \in {d \in loop.data : /\ d[2] \in Body(s)
                                    /\ d[1] \in Partitioned(loop) \ stageSCCs(s)}} :
         s \in Stages}

ControlUses ==
  UNION {{registerQueue(sccToStage[b], s, c, b) :
            c \in Conditions(b), s \in ControlledTasks(b)} :
         b \in ConditionalBranches}

PipelineInv ==
  /\ loop \in Loops
  /\ step \in {"partition", "clone", "data", "control", "done", "rejected"}
  /\ IF step = "partition" THEN DOMAIN sccToStage = {} ELSE sccToStage \in Partitions(loop)
  /\ clonableSCCs = IF step \in {"data", "control", "done"} THEN Clones
                    ELSE [s \in SCCs |-> {}]
  /\ uses = IF step = "control" THEN DataUses
            ELSE IF step = "done" THEN DataUses \cup ControlUses ELSE {}

LEMMA PipelineInvInit == Init => PipelineInv
BY DEF Init, PipelineInv

LEMMA PipelineInvNext == PipelineInv /\ [Next]_pipelineVars => PipelineInv'
<1> SUFFICES ASSUME PipelineInv, [Next]_pipelineVars PROVE PipelineInv'
  OBVIOUS
<1>1. CASE GenerateStagesFromPartitionedSCCs
  BY <1>1 DEF PipelineInv, GenerateStagesFromPartitionedSCCs
<1>2. CASE AddClonableSCCsToStages
  <2>1. /\ step = "clone" /\ step' = "data" /\ UNCHANGED <<loop, sccToStage, uses>>
        /\ clonableSCCs' = Clones
    BY <1>2 DEF AddClonableSCCsToStages, Clones
  <2>2. Clones' = Clones
    BY <2>1 DEF Clones, stageSCCs
  <2> QED BY <2>1, <2>2 DEF PipelineInv
<1>3. CASE CollectDataQueueInfo
  <2>1. /\ step = "data" /\ step' = "control"
        /\ UNCHANGED <<loop, sccToStage, clonableSCCs>> /\ uses' = uses \cup DataUses
    BY <1>3 DEF CollectDataQueueInfo, DataUses
  <2>2. Clones' = Clones /\ DataUses' = DataUses
    BY <2>1 DEF Clones, DataUses, stageSCCs, Body, Stages
  <2>3. uses = {}
    BY <2>1 DEF PipelineInv
  <2> QED BY <2>1, <2>2, <2>3 DEF PipelineInv
<1>4. CASE CollectControlQueueInfo
  <2>1. /\ step = "control" /\ step' = "done"
        /\ UNCHANGED <<loop, sccToStage, clonableSCCs>> /\ uses' = uses \cup ControlUses
    BY <1>4 DEF CollectControlQueueInfo, ControlUses
  <2>2. Clones' = Clones /\ DataUses' = DataUses
    BY <2>1 DEF Clones, DataUses, stageSCCs, Body, Stages
  <2>3. ControlUses' = ControlUses
    BY <2>1 DEF ControlUses, Conditions, ControlledTasks, TransitivelyControlledTasks,
                ConditionalBranches, Stages
  <2>4. uses = DataUses
    BY <2>1 DEF PipelineInv
  <2> QED BY <2>1, <2>2, <2>3, <2>4 DEF PipelineInv
<1>5. CASE UNCHANGED pipelineVars
  <2>1. UNCHANGED <<loop, step, sccToStage, clonableSCCs, uses>>
    BY <1>5 DEF pipelineVars
  <2>2. Clones' = Clones /\ DataUses' = DataUses
    BY <2>1 DEF Clones, DataUses, stageSCCs, Body, Stages
  <2>3. ControlUses' = ControlUses
    BY <2>1 DEF ControlUses, Conditions, ControlledTasks, TransitivelyControlledTasks,
                ConditionalBranches, Stages
  <2> QED BY <2>1, <2>2, <2>3 DEF PipelineInv
<1> QED BY <1>1, <1>2, <1>3, <1>4, <1>5 DEF Next, Compile, Terminated

-----------------------------------------------------------------------------
(* What the invariant says about stages, their bodies and queues.          *)

\* Stages are numbered in the order of the dependences.
LEMMA StageFacts ==
  ASSUME PipelineInv, step # "partition"
  PROVE  /\ DOMAIN sccToStage = Partitioned(loop) /\ Partitioned(loop) \subseteq SCCs
         /\ Stages \subseteq SCCs /\ SCCs \subseteq Nat
         /\ \A n \in Partitioned(loop) : sccToStage[n] \in Stages
         /\ \A n \in Partitioned(loop) : \A d \in Ancestors(loop)[n] :
              d \in Partitioned(loop) => sccToStage[d] <= sccToStage[n]
<1> DEFINE nodes == Partitioned(loop)
<1>1. loop \in Loops /\ sccToStage \in Partitions(loop)
  BY DEF PipelineInv
<1>2. N \in Nat /\ nodes \subseteq SCCs
  BY <1>1, LoopFacts DEF Partitioned
<1>3. Cardinality(nodes) \in Nat /\ Cardinality(nodes) <= N
  <2>1. IsFiniteSet(SCCs) /\ Cardinality(SCCs) = N
    BY <1>2, FS_Interval DEF SCCs
  <2> HIDE DEF nodes
  <2> QED BY <1>2, <2>1, FS_Subset, FS_CardinalityType
<1>4. /\ sccToStage \in [nodes -> 1 .. Cardinality(nodes)]
      /\ \A n \in nodes : \A d \in Ancestors(loop)[n] \cap nodes :
           sccToStage[d] <= sccToStage[n]
  BY <1>1 DEF Partitions
<1> HIDE DEF nodes
<1>5. DOMAIN sccToStage = nodes /\ \A n \in nodes : sccToStage[n] \in SCCs
  BY <1>2, <1>3, <1>4 DEF SCCs
<1>6. SCCs \subseteq Nat
  BY <1>2 DEF SCCs
<1> QED BY <1>2, <1>4, <1>5, <1>6 DEF Stages, nodes

\* What a task has of the loop is what its own SCCs depend on.
LEMMA BodyFacts ==
  ASSUME PipelineInv, step # "partition", NEW s \in Stages, NEW n \in Body(s)
  PROVE  /\ n \in SCCs
         /\ \E m \in stageSCCs(s) :
              /\ m \in Partitioned(loop) /\ sccToStage[m] = s
              /\ n = m \/ n \in Ancestors(loop)[m]
              /\ Ancestors(loop)[n] \subseteq Ancestors(loop)[m]
<1>1. /\ loop \in Loops /\ s \in SCCs /\ DOMAIN sccToStage = Partitioned(loop)
      /\ Partitioned(loop) \subseteq SCCs
  BY StageFacts DEF PipelineInv
<1>2. PICK m \in stageSCCs(s) : n = m \/ n \in Ancestors(loop)[m]
  BY <1>1 DEF Body, PipelineInv, Clones
<1>3. m \in Partitioned(loop) /\ sccToStage[m] = s
  BY <1>1 DEF stageSCCs
<1>4. n \in SCCs /\ Ancestors(loop)[n] \subseteq Ancestors(loop)[m]
  BY <1>1, <1>2, <1>3, AncestorsFacts
<1> QED BY <1>2, <1>3, <1>4

\* A clonable SCC that the stage depends on is cloned into it.
LEMMA CloneFacts ==
  ASSUME PipelineInv, step \in {"data", "control", "done"}, NEW s \in Stages,
         NEW m \in stageSCCs(s), NEW c \in Ancestors(loop)[m],
         c \notin Partitioned(loop)
  PROVE  c \in Body(s)
<1>1. /\ loop \in Loops /\ s \in SCCs /\ m \in SCCs
  BY StageFacts DEF PipelineInv, stageSCCs
<1>2. c \in Clonable(loop)
  BY <1>1, AncestorsFacts DEF Partitioned
<1> QED BY <1>1, <1>2 DEF Body, PipelineInv, Clones

\* Queues of data and queues of conditions.
IsDataUse(u) ==
  \E s \in Stages, e \in loop.data :
    /\ e[2] \in Body(s) /\ e[1] \in Partitioned(loop) /\ sccToStage[e[1]] # s
    /\ u = registerQueue(sccToStage[e[1]], s, e[1], e[2])

IsControlUse(u) ==
  \E b \in ConditionalBranches : \E s \in ControlledTasks(b) :
    /\ loop.cond[b] \in Partitioned(loop)
    /\ u = registerQueue(sccToStage[b], s, loop.cond[b], b)

LEMMA UseFacts ==
  ASSUME PipelineInv
  PROVE  /\ \A u \in uses : step # "partition" /\ (IsDataUse(u) \/ IsControlUse(u))
         /\ step \in {"control", "done"} => \A u : IsDataUse(u) => u \in uses
         /\ step = "done" => \A u : IsControlUse(u) => u \in uses
<1>1. ASSUME step # "partition", NEW u PROVE u \in DataUses <=> IsDataUse(u)
  <2>1. DOMAIN sccToStage = Partitioned(loop)
    BY <1>1, StageFacts
  <2>2. \A s : \A n \in Partitioned(loop) : n \in stageSCCs(s) <=> sccToStage[n] = s
    BY <2>1 DEF stageSCCs
  <2> QED BY <2>2 DEF DataUses, IsDataUse
<1>2. ASSUME NEW u PROVE u \in ControlUses <=> IsControlUse(u)
  BY DEF ControlUses, IsControlUse, Conditions
<1> QED BY <1>1, <1>2 DEF PipelineInv

\* The tasks a branch controls are stages that depend on it.
LEMMA ControlledFacts ==
  ASSUME PipelineInv, step # "partition", NEW b \in ConditionalBranches,
         NEW s \in ControlledTasks(b)
  PROVE  /\ b \in Partitioned(loop) /\ b \in SCCs
         /\ s \in Stages /\ sccToStage[b] \in Stages /\ s # sccToStage[b]
         /\ \E m \in stageSCCs(s) : /\ m \in Partitioned(loop) /\ sccToStage[m] = s
                                   /\ b \in Ancestors(loop)[m]
<1>1. /\ loop \in Loops /\ DOMAIN sccToStage = Partitioned(loop)
      /\ Partitioned(loop) \subseteq SCCs
      /\ \A n \in Partitioned(loop) : sccToStage[n] \in Stages
  BY StageFacts DEF PipelineInv
<1>2. b \in Partitioned(loop)
  BY DEF ConditionalBranches
<1>3. PICK m \in Partitioned(loop) :
        sccToStage[m] = s /\ s # sccToStage[b] /\ (b = Exit \/ b \in Ancestors(loop)[m])
  <2>1. CASE b = Exit
    BY <1>1, <2>1 DEF ControlledTasks, Stages
  <2>2. CASE b # Exit
    BY <1>1, <2>2 DEF ControlledTasks, TransitivelyControlledTasks
  <2> QED BY <2>1, <2>2
<1>4. b \in Ancestors(loop)[m]
  BY <1>1, <1>2, <1>3, AncestorsFacts
<1> QED BY <1>1, <1>2, <1>3, <1>4 DEF stageSCCs

LEMMA PipelineInvImpliesForward == PipelineInv => QueuesGoForward
<1> SUFFICES ASSUME PipelineInv, NEW u \in uses PROVE u.queue.from < u.queue.to
  BY DEF QueuesGoForward, Queues
<1>1. /\ step # "partition" /\ loop \in Loops /\ Stages \subseteq Nat
      /\ Partitioned(loop) \subseteq SCCs
      /\ \A n \in Partitioned(loop) : sccToStage[n] \in Stages
      /\ \A n \in Partitioned(loop) : \A d \in Ancestors(loop)[n] :
           d \in Partitioned(loop) => sccToStage[d] <= sccToStage[n]
  BY UseFacts, StageFacts DEF PipelineInv
<1>2. CASE IsDataUse(u)
  <2>1. PICK s \in Stages, e \in loop.data :
          /\ e[2] \in Body(s) /\ e[1] \in Partitioned(loop) /\ sccToStage[e[1]] # s
          /\ u = registerQueue(sccToStage[e[1]], s, e[1], e[2])
    BY <1>2 DEF IsDataUse
  <2>2. PICK m \in Partitioned(loop) :
          sccToStage[m] = s /\ Ancestors(loop)[e[2]] \subseteq Ancestors(loop)[m]
    BY <1>1, <2>1, BodyFacts
  <2>3. e[1] \in Ancestors(loop)[m]
    BY <1>1, <2>1, <2>2, LoopFacts, AncestorsFacts, BodyFacts
  <2>4. sccToStage[e[1]] <= s /\ sccToStage[e[1]] \in Nat /\ s \in Nat
    BY <1>1, <2>1, <2>2, <2>3
  <2>5. u.queue.from = sccToStage[e[1]] /\ u.queue.to = s
    BY <2>1 DEF registerQueue
  <2> QED BY <2>1, <2>4, <2>5
<1>3. CASE IsControlUse(u)
  <2>0. PICK b \in ConditionalBranches : \E s \in ControlledTasks(b) :
          u = registerQueue(sccToStage[b], s, loop.cond[b], b)
    BY <1>3 DEF IsControlUse
  <2>1. PICK s \in ControlledTasks(b) : u = registerQueue(sccToStage[b], s, loop.cond[b], b)
    BY <2>0
  <2>2. /\ b \in Partitioned(loop) /\ s \in Stages /\ s # sccToStage[b]
        /\ \E m \in Partitioned(loop) : sccToStage[m] = s /\ b \in Ancestors(loop)[m]
    BY <1>1, ControlledFacts
  <2>3. sccToStage[b] <= s /\ sccToStage[b] \in Nat /\ s \in Nat
    BY <1>1, <2>2
  <2>4. u.queue.from = sccToStage[b] /\ u.queue.to = s
    BY <2>1 DEF registerQueue
  <2> QED BY <2>2, <2>3, <2>4
<1> QED BY <1>2, <1>3, UseFacts

\* The operands of what a task holds are in it or on a queue to it.
LEMMA OperandAvailable ==
  ASSUME PipelineInv, step = "done", NEW s \in Stages, NEW e \in loop.data,
         e[2] \in Body(s)
  PROVE  e[1] \in Available(s)
<1>1. /\ loop \in Loops /\ DOMAIN sccToStage = Partitioned(loop)
  BY StageFacts DEF PipelineInv
<1>2. CASE e[1] \in Partitioned(loop) /\ sccToStage[e[1]] = s
  BY <1>1, <1>2 DEF Available, Body, stageSCCs
<1>3. CASE e[1] \in Partitioned(loop) /\ sccToStage[e[1]] # s
  <2> DEFINE u == registerQueue(sccToStage[e[1]], s, e[1], e[2])
  <2>1. u \in uses
    BY <1>3, UseFacts DEF IsDataUse
  <2>2. u.queue.producer = e[1] /\ u.queue.to = s
    BY DEF registerQueue
  <2> HIDE DEF u
  <2> QED BY <2>1, <2>2 DEF Available, popValueQueues, Queues
<1>4. CASE e[1] \notin Partitioned(loop)
  <2>1. PICK m \in stageSCCs(s) :
          m \in SCCs /\ Ancestors(loop)[e[2]] \subseteq Ancestors(loop)[m]
    BY BodyFacts, StageFacts
  <2>2. e[1] \in Ancestors(loop)[m]
    BY <1>1, <2>1, LoopFacts, AncestorsFacts, BodyFacts
  <2> QED BY <1>4, <2>1, <2>2, CloneFacts DEF Available
<1> QED BY <1>2, <1>3, <1>4

\* The condition of a branch that a task holds, too.
LEMMA ConditionAvailable ==
  ASSUME PipelineInv, step = "done", NEW s \in Stages, NEW b \in Body(s)
  PROVE  loop.cond[b] \in Available(s)
<1>1. loop \in Loops /\ b \in SCCs
  BY BodyFacts DEF PipelineInv
<1>2. CASE loop.cond[b] = b
  BY <1>2 DEF Available
<1>3. CASE loop.cond[b] # b
  <2> DEFINE e == <<loop.cond[b], b>>
  <2>1. e \in loop.data /\ e[1] = loop.cond[b] /\ e[2] = b
    BY <1>1, <1>3, LoopFacts
  <2> HIDE DEF e
  <2> QED BY <2>1, OperandAvailable
<1> QED BY <1>2, <1>3

LEMMA PipelineInvImpliesOperands == PipelineInv => OperandsAvailable
<1> SUFFICES ASSUME PipelineInv, step = "done", NEW s \in Stages
             PROVE  /\ \A e \in loop.data : e[2] \in Body(s) => e[1] \in Available(s)
                    /\ \A q \in pushValueQueues(s) : q.producer \in Available(s)
  BY DEF OperandsAvailable
<1>1. \A e \in loop.data : e[2] \in Body(s) => e[1] \in Available(s)
  BY OperandAvailable
<1>2. ASSUME NEW u \in uses, u.queue.from = s PROVE u.queue.producer \in Available(s)
  <2>1. loop \in Loops /\ DOMAIN sccToStage = Partitioned(loop)
    BY StageFacts DEF PipelineInv
  <2>2. \A n \in Partitioned(loop) : sccToStage[n] = s => n \in Body(s)
    BY <2>1 DEF Body, stageSCCs
  <2>3. CASE IsDataUse(u)
    <3>1. PICK e \in loop.data : /\ e[1] \in Partitioned(loop)
                                 /\ u.queue.producer = e[1]
                                 /\ u.queue.from = sccToStage[e[1]]
      BY <2>3 DEF IsDataUse, registerQueue
    <3> QED BY <1>2, <2>2, <3>1 DEF Available
  <2>4. CASE IsControlUse(u)
    <3>1. PICK b \in ConditionalBranches : /\ u.queue.producer = loop.cond[b]
                                           /\ u.queue.from = sccToStage[b]
      BY <2>4 DEF IsControlUse, registerQueue
    <3>2. b \in Body(s)
      BY <1>2, <2>2, <3>1 DEF ConditionalBranches
    <3> QED BY <3>1, <3>2, ConditionAvailable
  <2> QED BY <2>3, <2>4, UseFacts
<1>3. \A q \in pushValueQueues(s) : q.producer \in Available(s)
  BY <1>2 DEF pushValueQueues, Queues
<1> QED BY <1>1, <1>3

\* A task has the branches its SCCs depend on, and what they decide on.
LEMMA BranchAvailable ==
  ASSUME PipelineInv, step = "done", SendableConditions(loop),
         NEW s \in Stages, NEW m \in stageSCCs(s), NEW b \in Ancestors(loop)[m],
         b \in loop.branch, \E k \in SCCs \ {Exit} : loop.parent[k] = b
  PROVE  HasBranch(s, b) /\ loop.cond[b] \in Available(s)
<1>1. /\ loop \in Loops /\ DOMAIN sccToStage = Partitioned(loop)
      /\ Partitioned(loop) \subseteq SCCs
      /\ m \in Partitioned(loop) /\ sccToStage[m] = s
  BY StageFacts DEF PipelineInv, stageSCCs
<1>2. b \in SCCs /\ loop.cond[b] \in SCCs
  <2>1. b \in SCCs
    BY <1>1, AncestorsFacts
  <2> QED BY <1>1, <2>1, LoopFacts
<1>3. CASE b \in Body(s)
  BY <1>3, ConditionAvailable DEF HasBranch
<1>4. CASE b \notin Body(s)
  <2>1. b \in Partitioned(loop) /\ sccToStage[b] # s
    BY <1>1, <1>4, CloneFacts DEF Body, stageSCCs
  <2>2. b \in ConditionalBranches
    BY <2>1 DEF ConditionalBranches
  <2>3. s \in ControlledTasks(b)
    BY <1>1, <2>1 DEF ControlledTasks, TransitivelyControlledTasks
  <2>4. loop.cond[b] \in Partitioned(loop)
    BY <1>2, <2>1 DEF SendableConditions, Partitioned, Clonable
  <2> DEFINE u == registerQueue(sccToStage[b], s, loop.cond[b], b)
  <2>5. u \in uses
    BY <2>2, <2>3, <2>4, UseFacts DEF IsControlUse
  <2>6. u.queue.producer = loop.cond[b] /\ u.queue.to = s /\ u.consumer = b
    BY DEF registerQueue
  <2> HIDE DEF u
  <2> QED BY <2>5, <2>6 DEF HasBranch, Available, popValueQueues, Queues
<1> QED BY <1>3, <1>4

\* The branches around what a task holds or pops are branches that one of its
\* own SCCs depends on.
LEMMA ControlledByAncestors ==
  ASSUME PipelineInv, step = "done", NEW s \in Stages, NEW n \in Available(s),
         NEW b \in Controllers(loop)[n]
  PROVE  /\ b \in loop.branch /\ \E k \in SCCs \ {Exit} : loop.parent[k] = b
         /\ \E m \in stageSCCs(s) : b \in Ancestors(loop)[m]
<1>1. loop \in Loops /\ Partitioned(loop) \subseteq SCCs
  BY StageFacts DEF PipelineInv
<1>2. CASE n \in Body(s)
  <2>1. PICK m \in stageSCCs(s) : Ancestors(loop)[n] \subseteq Ancestors(loop)[m]
    BY <1>2, BodyFacts
  <2>2. n \in SCCs
    BY <1>2, BodyFacts
  <2> QED BY <1>1, <2>1, <2>2, ControllersFacts
<1>3. CASE n \notin Body(s)
  <2>1. PICK u \in uses : u.queue.to = s /\ u.queue.producer = n
    BY <1>3 DEF Available, popValueQueues, Queues
  <2>2. CASE IsDataUse(u)
    <3>1. PICK e \in loop.data : e[2] \in Body(s) /\ e[1] = n
      BY <2>1, <2>2 DEF IsDataUse, registerQueue
    <3>2. PICK m \in stageSCCs(s) : Ancestors(loop)[e[2]] \subseteq Ancestors(loop)[m]
      BY <3>1, BodyFacts
    <3>3. n \in SCCs /\ e[2] \in SCCs
      BY <1>1, <3>1, LoopFacts
    <3>4. Ancestors(loop)[n] \subseteq Ancestors(loop)[e[2]]
      BY <1>1, <3>1, <3>3, AncestorsFacts
    <3> QED BY <1>1, <3>2, <3>3, <3>4, ControllersFacts
  <2>3. CASE IsControlUse(u)
    <3>1. PICK a \in ConditionalBranches : s \in ControlledTasks(a) /\ n = loop.cond[a]
      BY <2>1, <2>3 DEF IsControlUse, registerQueue
    <3>2. a \in SCCs /\ \E m \in stageSCCs(s) : m \in SCCs /\ a \in Ancestors(loop)[m]
      BY <1>1, <3>1, ControlledFacts
    <3>3. PICK m \in stageSCCs(s) : m \in SCCs /\ a \in Ancestors(loop)[m]
      BY <3>2
    <3>4. Ancestors(loop)[a] \subseteq Ancestors(loop)[m]
      BY <1>1, <3>3, AncestorsFacts
    <3>5. b \in Controllers(loop)[a]
      <4>1. CASE n = a
        BY <4>1
      <4>2. CASE n # a
        BY <1>1, <3>1, <3>2, <4>2, LoopFacts
      <4> QED BY <4>1, <4>2
    <3> QED BY <1>1, <3>2, <3>3, <3>4, <3>5, ControllersFacts
  <2> QED BY <2>2, <2>3, UseFacts
<1> QED BY <1>2, <1>3

LEMMA PipelineInvImpliesControl ==
  ASSUME \A l \in Loops : SendableConditions(l)
  PROVE  PipelineInv => ControlAvailable
<1> SUFFICES ASSUME PipelineInv, step = "done", NEW s \in Stages, NEW n \in Available(s),
                    NEW b \in Controllers(loop)[n]
             PROVE  HasBranch(s, b) /\ loop.cond[b] \in Available(s)
  BY DEF ControlAvailable
<1>1. SendableConditions(loop)
  BY DEF PipelineInv
<1> QED BY <1>1, BranchAvailable, ControlledByAncestors

LEMMA PipelineInvImpliesTypes == PipelineInv => TypeOK
<1> SUFFICES ASSUME PipelineInv PROVE TypeOK
  OBVIOUS
<1>1. loop \in Loops /\ loop \in LoopType
  BY LoopFacts DEF PipelineInv
<1>2. /\ DOMAIN sccToStage \subseteq Partitioned(loop)
      /\ \A n \in DOMAIN sccToStage : sccToStage[n] \in SCCs
  <2>1. CASE step = "partition"
    BY <2>1 DEF PipelineInv
  <2>2. CASE step # "partition"
    BY <2>2, StageFacts
  <2> QED BY <2>1, <2>2
<1>3. clonableSCCs \in [SCCs -> SUBSET SCCs]
  <2>1. Clones \in [SCCs -> SUBSET SCCs]
    BY DEF Clones, Clonable
  <2> QED BY <2>1 DEF PipelineInv
<1>4. ASSUME NEW u \in uses
      PROVE  /\ u.queue.producer \in SCCs /\ u.consumer \in SCCs
             /\ u.queue.from \in Stages /\ u.queue.to \in Stages
  <2>1. /\ step # "partition"
        /\ \A n \in Partitioned(loop) : n \in SCCs /\ sccToStage[n] \in Stages
    BY UseFacts, StageFacts
  <2>2. CASE IsDataUse(u)
    <3>1. PICK s \in Stages, e \in loop.data :
            /\ e[1] \in Partitioned(loop)
            /\ u = registerQueue(sccToStage[e[1]], s, e[1], e[2])
      BY <2>2 DEF IsDataUse
    <3>2. e[2] \in SCCs
      BY <1>1, LoopFacts
    <3> QED BY <2>1, <3>1, <3>2 DEF registerQueue
  <2>3. CASE IsControlUse(u)
    <3>1. PICK b \in ConditionalBranches : \E s \in ControlledTasks(b) :
            /\ loop.cond[b] \in Partitioned(loop)
            /\ u = registerQueue(sccToStage[b], s, loop.cond[b], b)
      BY <2>3 DEF IsControlUse
    <3>2. PICK s \in ControlledTasks(b) :
            /\ loop.cond[b] \in Partitioned(loop)
            /\ u = registerQueue(sccToStage[b], s, loop.cond[b], b)
      BY <3>1
    <3>3. b \in SCCs /\ s \in Stages /\ sccToStage[b] \in Stages
      BY <2>1, ControlledFacts
    <3> QED BY <2>1, <3>2, <3>3 DEF registerQueue
  <2> QED BY <2>2, <2>3, UseFacts
<1> QED BY <1>1, <1>2, <1>3, <1>4 DEF TypeOK, PipelineInv

-----------------------------------------------------------------------------

LEMMA PipelineInvariance == Spec => []PipelineInv
BY PipelineInvInit, PipelineInvNext, PTL DEF Spec

\* The tables that DSWP::apply builds have their types: stages are numbered
\* from the partition, and queues connect stages.
THEOREM PipelineTypes == Spec => []TypeOK
BY PipelineInvariance, PipelineInvImpliesTypes, PTL

\* The queues that collectDataQueueInfo and collectControlQueueInfo register
\* lead from a stage to a later one, so that no cycle of stages can wait for
\* each other: areQueuesAcyclical never fails.
THEOREM QueuesAreForward == Spec => []QueuesGoForward
BY PipelineInvariance, PipelineInvImpliesForward, PTL

\* Once apply has collected the queues, the task of every stage has each
\* operand of the instructions it clones, and each value it pushes.
THEOREM OperandsAreAvailable == Spec => []OperandsAvailable
BY PipelineInvariance, PipelineInvImpliesOperands, PTL

\* If no branch that stays in one stage decides on a cloned value, which is
\* what collectControlQueueInfo asserts, the task of every stage has the
\* branches around what it executes and pops, and what they decide on.
THEOREM ControlIsAvailable ==
  ASSUME \A l \in Loops : SendableConditions(l)
  PROVE  Spec => []ControlAvailable
<1>1. PipelineInv => ControlAvailable
  BY PipelineInvImpliesControl
<1> QED BY <1>1, PipelineInvariance, PTL

-----------------------------------------------------------------------------
(* Regions and blocks of a loop.                                           *)

\* A region is in the regions around it.
LEMMA Nesting ==
  ASSUME NEW l \in Loops, NEW n \in SCCs
  PROVE  /\ Controllers(l)[n] \subseteq SCCs \cap l.branch
         /\ \A b \in Controllers(l)[n] : b < n /\ Controllers(l)[b] \subseteq Controllers(l)[n]
         /\ n = Exit => Controllers(l)[n] = {}
         /\ n # Exit => Exit \in Controllers(l)[n]
<1> DEFINE C == Controllers(l)
           Good(k) == /\ \A b \in C[k] : b < k /\ C[b] \subseteq C[k]
                      /\ k # Exit => Exit \in C[k]
           S == {k \in SCCs : Good(k)}
<1>1. \A k \in SCCs : C[k] = IF k = Exit THEN {} ELSE {l.parent[k]} \cup C[l.parent[k]]
  BY ControllersAre
<1>2. \A k \in SCCs : C[k] \subseteq SCCs \cap l.branch
  BY ControllersFacts
<1>3. SCCs \subseteq Nat
  BY LoopFacts DEF SCCs
<1> HIDE DEF C
<1>4. ASSUME NEW k \in SCCs, \A j \in SCCs : j < k => j \in S PROVE k \in S
  <2>1. CASE k = Exit
    BY <1>1, <2>1
  <2>2. CASE k # Exit
    <3>1. l.parent[k] \in SCCs /\ l.parent[k] < k /\ l.parent[k] \in Nat /\ k \in Nat
      BY <1>3, <2>2, LoopFacts
    <3>2. Good(l.parent[k])
      BY <1>4, <3>1
    <3>3. C[k] = {l.parent[k]} \cup C[l.parent[k]]
      BY <1>1, <2>2
    <3>4. ASSUME NEW b \in C[k] PROVE b < k /\ C[b] \subseteq C[k]
      <4>1. b \in Nat
        BY <1>2, <1>3
      <4>2. CASE b = l.parent[k]
        BY <3>1, <3>3, <4>2
      <4>3. CASE b \in C[l.parent[k]]
        <5>1. b < l.parent[k] /\ C[b] \subseteq C[l.parent[k]]
          BY <3>2, <4>3
        <5> QED BY <3>1, <3>3, <4>1, <5>1
      <4> QED BY <3>3, <4>2, <4>3
    <3>5. Exit \in C[k]
      BY <3>2, <3>3
    <3> QED BY <3>4, <3>5
  <2> QED BY <2>1, <2>2
<1>5. S = SCCs
  <2>1. S \subseteq SCCs
    OBVIOUS
  <2> HIDE DEF S
  <2> QED BY <1>4, <2>1, SCCInduction
<1>6. Good(n)
  BY <1>5
<1> QED BY <1>1, <1>2, <1>6 DEF C

\* Behind an SCC are its own region or the rest of the regions it is in.
LEMMA NextSCC ==
  ASSUME NEW l \in Loops, NEW n \in SCCs, n # Exit
  PROVE  /\ n - 1 \in SCCs /\ n \in Nat
         /\ Controllers(l)[n] \subseteq {n - 1} \cup Controllers(l)[n - 1]
<1>1. N \in Nat /\ n \in Nat /\ n - 1 \in SCCs
  BY LoopFacts DEF SCCs, Exit
<1>2. WellFormed(l)
  BY PipelineAssumption DEF PipelineAssumption
<1>3. l.parent[n] \in {n - 1} \cup Controllers(l)[n - 1]
  BY <1>2 DEF WellFormed
<1>4. Controllers(l)[l.parent[n]] \subseteq {n - 1} \cup Controllers(l)[n - 1]
  BY <1>1, <1>3, Nesting
<1>5. Controllers(l)[n] = {l.parent[n]} \cup Controllers(l)[l.parent[n]]
  BY ControllersAre
<1> QED BY <1>1, <1>3, <1>4, <1>5

\* A region begins right behind its branch and has no gaps.
LEMMA RegionHasNoGaps ==
  ASSUME NEW l \in Loops, NEW b \in SCCs, NEW m \in SCCs, NEW n \in SCCs,
         b \in Controllers(l)[n], b < m, m <= n
  PROVE  b \in Controllers(l)[m]
<1> DEFINE C == Controllers(l)
           S == {k \in SCCs : m <= k /\ b \in C[k]}
<1>1. SCCs \subseteq Nat
  BY LoopFacts DEF SCCs
<1>2. S \subseteq Nat /\ S # {}
  BY <1>1
<1>3. PICK k \in S : \A j \in S : k <= j
  BY <1>2, SmallestOf
<1>4. k \in SCCs /\ m <= k /\ b \in C[k] /\ k \in Nat /\ m \in Nat /\ b \in Nat
  BY <1>1
<1>5. ASSUME m # k PROVE FALSE
  <2>1. k # Exit /\ m <= k - 1 /\ b # k - 1 /\ k - 1 \in Nat
    BY <1>4, <1>5 DEF Exit
  <2>2. k - 1 \in SCCs /\ C[k] \subseteq {k - 1} \cup C[k - 1]
    BY <1>4, <2>1, NextSCC
  <2>3. k - 1 \in S
    <3> HIDE DEF C
    <3> QED BY <1>4, <2>1, <2>2
  <2>4. k <= k - 1
    BY <1>3, <2>3
  <2> QED BY <1>4, <2>4
<1> QED BY <1>4, <1>5

\* The region of a branch is what is between it and AfterRegion.
LEMMA RegionIs ==
  ASSUME loop \in Loops, NEW b \in SCCs
  PROVE  /\ AfterRegion(b) \in Nat /\ b < AfterRegion(b) /\ AfterRegion(b) <= N + 1
         /\ \A n \in SCCs : b \in Controllers(loop)[n] <=> (b < n /\ n < AfterRegion(b))
<1> DEFINE C == Controllers(loop)
           R == {n \in SCCs : b \in C[n]}
           S == {k \in (b + 1) .. (N + 1) : k \notin R}
<1>1. N \in Nat /\ SCCs \subseteq Nat /\ b \in Nat /\ 1 <= b /\ b <= N
      /\ \A n \in Nat : n \in SCCs <=> (1 <= n /\ n <= N)
  BY LoopFacts DEF SCCs
<1>2. S \subseteq Nat
  BY <1>1
<1>3. N + 1 \in S
  BY <1>1
<1>4. PICK a \in S : \A j \in S : a <= j
  BY <1>2, <1>3, SmallestOf
<1>5. a \in Nat /\ b < a /\ a <= N + 1 /\ a \notin R
  BY <1>1, <1>4
<1>6. \A n \in R : n \in SCCs /\ n \in Nat /\ b < n
  BY <1>1, Nesting
<1>7. ASSUME NEW n \in SCCs PROVE b \in C[n] <=> (b < n /\ n < a)
  <2>1. n \in Nat /\ n <= N /\ 1 <= n
    BY <1>1
  <2>2. ASSUME b < n, n < a PROVE b \in C[n]
    <3>1. n \notin S
      <4> HIDE DEF S
      <4> QED BY <1>4, <1>5, <2>1, <2>2
    <3> QED BY <1>1, <2>1, <2>2, <3>1
  <2>3. ASSUME b \in C[n] PROVE b < n /\ n < a
    <3>1. b < n
      BY <1>6, <2>3
    <3>2. ASSUME a <= n PROVE FALSE
      <4>1. a \in SCCs
        BY <1>1, <1>5, <2>1, <3>2
      <4>2. b \in C[a]
        BY <1>5, <2>3, <3>2, <4>1, RegionHasNoGaps
      <4> QED BY <1>5, <4>1, <4>2
    <3> QED BY <1>5, <2>1, <3>1, <3>2
  <2> QED BY <2>2, <2>3
<1>8. R = (b + 1) .. (a - 1)
  <2>1. ASSUME NEW x PROVE x \in R <=> x \in (b + 1) .. (a - 1)
    <3>1. ASSUME x \in R PROVE x \in (b + 1) .. (a - 1)
      <4>1. x \in SCCs /\ x \in Nat /\ b < x /\ x < a
        BY <1>6, <1>7, <3>1
      <4> QED BY <1>1, <1>5, <4>1
    <3>2. ASSUME x \in (b + 1) .. (a - 1) PROVE x \in R
      <4>1. x \in Nat /\ b < x /\ x < a /\ 1 <= x /\ x <= N
        BY <1>1, <1>5, <3>2
      <4> QED BY <1>1, <1>7, <4>1
    <3> QED BY <3>1, <3>2
  <2> QED BY <2>1
<1>9. Cardinality((b + 1) .. (a - 1)) = a - b - 1
  <2>1. b + 1 \in Int /\ a - 1 \in Int /\ ~(b + 1 > a - 1 + 1)
    BY <1>1, <1>5
  <2>2. CASE b + 1 > a - 1
    <3>1. (b + 1) .. (a - 1) = {} /\ a = b + 1
      BY <1>1, <1>5, <2>2
    <3> QED BY <1>1, <3>1, FS_EmptySet
  <2>3. CASE ~(b + 1 > a - 1)
    <3>1. Cardinality((b + 1) .. (a - 1)) = (a - 1) - (b + 1) + 1
      BY <2>1, <2>3, FS_Interval
    <3> QED BY <1>1, <1>5, <3>1
  <2> QED BY <2>2, <2>3
<1>10. AfterRegion(b) = b + 1 + Cardinality(R)
  BY DEF AfterRegion
<1>11. AfterRegion(b) = a
  <2> HIDE DEF R
  <2> QED BY <1>1, <1>5, <1>8, <1>9, <1>10
<1> QED BY <1>5, <1>7, <1>11

\* Behind a region are only regions that its branch is in, too.
LEMMA BehindRegion ==
  ASSUME loop \in Loops, NEW b \in SCCs, AfterRegion(b) \in SCCs
  PROVE  Controllers(loop)[AfterRegion(b)] \subseteq Controllers(loop)[b]
<1> DEFINE C == Controllers(loop)
<1> SUFFICES ASSUME NEW c \in C[AfterRegion(b)] PROVE c \in C[b]
  OBVIOUS
<1>1. PICK a \in SCCs : a = AfterRegion(b)
  OBVIOUS
<1>2. SCCs \subseteq Nat /\ b \in Nat /\ a \in Nat
  BY LoopFacts DEF SCCs
<1>3. /\ b < a /\ \A n \in SCCs : b \in C[n] <=> (b < n /\ n < a)
  BY <1>1, RegionIs
<1>4. c \in SCCs /\ c < a /\ C[c] \subseteq C[a] /\ c \in Nat
  BY <1>1, <1>2, Nesting
<1>5. ~(b < c) /\ c # b
  <2>1. b \notin C[a]
    BY <1>2, <1>3
  <2>2. b < c => b \in C[c]
    BY <1>3, <1>4
  <2> QED BY <1>1, <1>4, <2>1, <2>2
<1>6. c < b /\ b <= a
  BY <1>2, <1>3, <1>4, <1>5
<1> QED BY <1>1, <1>4, <1>6, RegionHasNoGaps

\* A block is in the same regions as the SCCs in it.
LEMMA BlockFacts ==
  ASSUME loop \in Loops, NEW n \in SCCs
  PROVE  /\ BlockOf(n) \in SCCs /\ BlockOf(n) <= n
         /\ Controllers(loop)[BlockOf(n)] = Controllers(loop)[n]
<1> DEFINE Same(m) == \A k \in m .. n : loop.parent[k] = loop.parent[n]
                                        /\ (k < n => k \notin loop.branch)
           First(m) == m > 1 => \/ loop.parent[m - 1] # loop.parent[n]
                                \/ m - 1 \in loop.branch
           S == {m \in 1 .. n : Same(m)}
<1>1. N \in Nat /\ n \in Nat /\ 1 <= n /\ n <= N
  BY LoopFacts DEF SCCs
<1>2. n \in S /\ S \subseteq Nat
  BY <1>1
<1>3. PICK m \in S : \A k \in S : m <= k
  BY <1>2, SmallestOf
<1>4. m \in 1 .. n /\ m \in Nat /\ Same(m)
  BY <1>1
<1>5. First(m)
  <2> SUFFICES ASSUME m > 1, loop.parent[m - 1] = loop.parent[n], m - 1 \notin loop.branch
               PROVE  FALSE
    OBVIOUS
  <2>1. m - 1 \in 1 .. n
    BY <1>1, <1>4
  <2>2. Same(m - 1)
    <3>1. \A k \in (m - 1) .. n : k = m - 1 \/ k \in m .. n
      BY <1>1, <1>4
    <3> QED BY <1>4, <3>1
  <2>3. m - 1 \in S
    BY <2>1, <2>2
  <2>4. m <= m - 1
    BY <1>3, <2>3
  <2> QED BY <1>4, <2>4
<1>6. PICK c \in 1 .. n : c = BlockOf(n) /\ Same(c) /\ First(c)
  BY <1>4, <1>5 DEF BlockOf
<1> HIDE DEF First, S
<1>7. c \in SCCs /\ c <= n /\ c \in Nat /\ 1 <= c
  BY <1>1 DEF SCCs
<1>8. loop.parent[c] = loop.parent[n]
  <2>1. c \in c .. n
    BY <1>1, <1>7
  <2> QED BY <1>6, <2>1
<1>9. CASE c = n
  BY <1>6, <1>7, <1>9
<1>10. CASE c # n
  <2>1. c < n /\ n # Exit
    BY <1>1, <1>7, <1>10 DEF Exit
  <2>2. c # Exit
    <3>1. Exit \in loop.branch
      BY PipelineAssumption DEF PipelineAssumption, WellFormed
    <3>2. c \in c .. n
      BY <1>1, <1>7
    <3>3. c \notin loop.branch
      BY <1>6, <2>1, <3>2
    <3> QED BY <3>1, <3>3
  <2>3. Controllers(loop)[c] = Controllers(loop)[n]
    <3>1. /\ Controllers(loop)[c] = {loop.parent[c]} \cup Controllers(loop)[loop.parent[c]]
          /\ Controllers(loop)[n] = {loop.parent[n]} \cup Controllers(loop)[loop.parent[n]]
      BY <1>7, <2>1, <2>2, ControllersAre
    <3> QED BY <1>8, <3>1
  <2> QED BY <1>6, <1>7, <2>3
<1> QED BY <1>9, <1>10

-----------------------------------------------------------------------------
(* Stages, queues and branches of a pipeline.                              *)

\* The stages are numbered from 1 without gaps.
LEMMA StagesAre ==
  ASSUME PipelineInv, step = "done"
  PROVE  \E k \in SCCs : Stages = 1 .. k /\ Cardinality(Stages) = k
<1>1. sccToStage \in Partitions(loop) /\ loop \in Loops
  BY DEF PipelineInv
<1>2. N \in Nat
  BY <1>1, LoopFacts
<1>3. DOMAIN sccToStage = Partitioned(loop)
  BY StageFacts
<1>4. PICK k \in 1 .. N : {sccToStage[n] : n \in Partitioned(loop)} = 1 .. k
  BY <1>1 DEF Partitions
<1>5. Stages = 1 .. k
  BY <1>3, <1>4 DEF Stages
<1>6. Cardinality(1 .. k) = k
  <2>1. k \in Int /\ 1 \in Int /\ ~(1 > k)
    BY <1>2
  <2>2. Cardinality(1 .. k) = k - 1 + 1
    BY <2>1, FS_Interval
  <2> QED BY <2>1, <2>2
<1> QED BY <1>5, <1>6 DEF SCCs

\* A queue carries a value from a stage that has it to one that has not.
LEMMA QueueFacts ==
  ASSUME PipelineInv, step = "done", NEW q \in Queues
  PROVE  /\ q.producer \in SCCs /\ q.from \in Stages /\ q.to \in Stages
         /\ q.producer \in Available(q.from) /\ q.producer \in Available(q.to)
         /\ q.producer \notin Body(q.to)
<1>1. PICK u \in uses : q = u.queue
  BY DEF Queues
<1>2. /\ q.producer \in SCCs /\ q.from \in Stages /\ q.to \in Stages
  BY <1>1, PipelineInvImpliesTypes DEF TypeOK
<1>3. q.producer \in Available(q.from)
  BY <1>2, PipelineInvImpliesOperands DEF OperandsAvailable, pushValueQueues
<1>4. q.producer \in Available(q.to)
  BY DEF Available, popValueQueues
<1>5. /\ loop \in Loops /\ DOMAIN sccToStage = Partitioned(loop)
      /\ Partitioned(loop) \subseteq SCCs
      /\ Stages \subseteq SCCs /\ SCCs \subseteq Nat
  BY StageFacts DEF PipelineInv
<1>6. q.producer \in Partitioned(loop) /\ sccToStage[q.producer] # q.to
  <2>1. CASE IsDataUse(u)
    BY <1>1, <2>1 DEF IsDataUse, registerQueue
  <2>2. CASE IsControlUse(u)
    <3>1. PICK b \in ConditionalBranches : \E s \in ControlledTasks(b) :
            /\ loop.cond[b] \in Partitioned(loop)
            /\ u = registerQueue(sccToStage[b], s, loop.cond[b], b)
      BY <2>2 DEF IsControlUse
    <3>2. /\ q.producer = loop.cond[b] /\ q.from = sccToStage[b]
          /\ loop.cond[b] \in Partitioned(loop)
      BY <1>1, <3>1 DEF registerQueue
    <3>3. b \in Partitioned(loop) /\ b \in SCCs
      BY <1>5 DEF ConditionalBranches
    <3>4. sccToStage[loop.cond[b]] <= sccToStage[b]
      <4>1. CASE loop.cond[b] = b
        <5>1. sccToStage[b] \in Nat
          BY <1>5, <3>3, StageFacts
        <5> QED BY <4>1, <5>1
      <4>2. CASE loop.cond[b] # b
        <5>1. b # Exit
          BY <1>5, <4>2, LoopFacts
        <5>2. loop.cond[b] \in Ancestors(loop)[b]
          <6> DEFINE e == <<loop.cond[b], b>>
          <6>1. e \in loop.data /\ e[1] = loop.cond[b] /\ e[2] = b
            BY <1>5, <3>3, <4>2, <5>1, LoopFacts
          <6> HIDE DEF e
          <6> QED BY <1>5, <3>3, <6>1, AncestorsFacts
        <5> QED BY <3>2, <3>3, <5>2, StageFacts
      <4> QED BY <4>1, <4>2
    <3>5. q.from < q.to
      BY PipelineInvImpliesForward DEF QueuesGoForward
    <3>6. sccToStage[loop.cond[b]] \in Nat /\ q.from \in Nat /\ q.to \in Nat
      BY <1>2, <1>5, <3>2, StageFacts
    <3>7. sccToStage[loop.cond[b]] # q.to
      BY <3>2, <3>4, <3>5, <3>6
    <3> QED BY <3>2, <3>7
  <2> QED BY <2>1, <2>2, UseFacts
<1>7. q.producer \notin clonableSCCs[q.to]
  <2>1. q.to \in SCCs
    BY <1>2, <1>5
  <2>2. clonableSCCs[q.to] \subseteq Clonable(loop)
    BY <2>1 DEF PipelineInv, Clones
  <2> QED BY <1>6, <2>2 DEF Partitioned
<1>8. q.producer \notin Body(q.to)
  BY <1>6, <1>7 DEF Body, stageSCCs
<1> QED BY <1>2, <1>3, <1>4, <1>8

LEMMA AvailableFacts ==
  ASSUME PipelineInv, step = "done", NEW s \in Stages
  PROVE  /\ Available(s) \subseteq SCCs /\ Body(s) \subseteq Available(s)
         /\ stageSCCs(s) \subseteq Body(s)
         /\ \A q \in popValueQueues(s) : q.producer \in Available(s) \ Body(s)
         /\ \A p \in Available(s) \ Body(s) : \E q \in popValueQueues(s) : q.producer = p
<1>1. Body(s) \subseteq SCCs
  BY BodyFacts
<1>2. \A q \in popValueQueues(s) : q.producer \in SCCs /\ q.producer \in Available(s) \ Body(s)
  BY QueueFacts DEF popValueQueues
<1> QED BY <1>1, <1>2 DEF Available, Body

\* A task has what its branches decide on.
LEMMA DecisionAvailable ==
  ASSUME PipelineInv, step = "done", NEW s \in Stages, NEW b, HasBranch(s, b)
  PROVE  loop.cond[b] \in Available(s)
<1>1. CASE b \in Body(s)
  BY <1>1, ConditionAvailable
<1>2. CASE b \notin Body(s)
  <2>1. PICK u \in uses : u.queue.to = s /\ u.consumer = b
    BY <1>2 DEF HasBranch
  <2>2. ~IsDataUse(u)
    BY <1>2, <2>1 DEF IsDataUse, registerQueue
  <2>3. IsControlUse(u)
    BY <2>2, UseFacts
  <2>4. u.queue.producer = loop.cond[b]
    BY <2>1, <2>3 DEF IsControlUse, registerQueue
  <2> QED BY <2>1, <2>4 DEF Available, popValueQueues, Queues
<1> QED BY <1>1, <1>2

\* The SCCs that a task reaches when the sequential loop does.
Relevant(s) == {n \in SCCs : \A b \in Controllers(loop)[n] : HasBranch(s, b)}

LEMMA RelevantFacts ==
  ASSUME PipelineInv, step = "done", SendableConditions(loop), NEW s \in Stages
  PROVE  /\ HasBranch(s, Exit) /\ Exit \in loop.branch /\ Exit \in SCCs
         /\ Available(s) \subseteq Relevant(s)
         /\ \A p \in Available(s) : BlockOf(p) \in Relevant(s)
<1>1. /\ loop \in Loops /\ DOMAIN sccToStage = Partitioned(loop)
      /\ Partitioned(loop) \subseteq SCCs /\ Exit \in SCCs
  BY StageFacts, LoopFacts DEF PipelineInv
<1>2. Exit \in loop.branch
  BY <1>1, PipelineAssumption DEF PipelineAssumption, WellFormed
<1>3. ASSUME NEW n \in Available(s), NEW b \in Controllers(loop)[n] PROVE HasBranch(s, b)
  BY BranchAvailable, ControlledByAncestors
<1>4. HasBranch(s, Exit)
  <2>1. PICK m \in Partitioned(loop) : sccToStage[m] = s
    BY <1>1 DEF Stages
  <2>2. m \in Body(s) /\ m \in Available(s)
    BY <1>1, <2>1 DEF Available, Body, stageSCCs
  <2>3. CASE m = Exit
    BY <2>2, <2>3 DEF HasBranch
  <2>4. CASE m # Exit
    BY <1>1, <1>3, <2>2, <2>4, Nesting
  <2> QED BY <2>3, <2>4
<1>5. Available(s) \subseteq Relevant(s)
  BY <1>3, AvailableFacts DEF Relevant
<1>6. \A p \in Available(s) : BlockOf(p) \in Relevant(s)
  <2> SUFFICES ASSUME NEW p \in Available(s) PROVE BlockOf(p) \in Relevant(s)
    OBVIOUS
  <2>1. p \in SCCs
    BY AvailableFacts
  <2>2. BlockOf(p) \in SCCs /\ Controllers(loop)[BlockOf(p)] = Controllers(loop)[p]
    BY <1>1, <2>1, BlockFacts
  <2> QED BY <1>3, <2>2 DEF Relevant
<1> QED BY <1>1, <1>2, <1>4, <1>5, <1>6

-----------------------------------------------------------------------------
(* The inductive invariant of a run.                                       *)

Begun(s) == status[s] \in {"running", "ended"}

\* The task of stage s has passed SCC n in iteration k of the loop.
Past(s, n, k) ==
  /\ Begun(s) /\ Sequentially(n, k)
  /\ \/ k < iter[s]
     \/ k = iter[s] /\ (n < position[s] \/ status[s] = "ended")

\* The consumer of queue q has popped the value of iteration k.
Got(q, k) ==
  \/ Past(q.to, BlockOf(q.producer), k)
  \/ /\ Running(q.to) /\ k = iter[q.to]
     /\ position[q.to] = BlockOf(q.producer) /\ q \notin todo[q.to]

\* Stage s has the value of SCC p in iteration k, and has sent it on.
Sent(s, p, k) ==
  IF p \in Body(s) THEN Past(s, p, k)
  ELSE \E q \in popValueQueues(s) : q.producer = p /\ Got(q, k)

Iterations == 1 .. trip + 1

\* The iterations whose values are on their way.
InFlight(q) == {k \in Iterations : Sent(q.from, q.producer, k) /\ ~Got(q, k)}

\* A queue holds the values of the iterations in S, in their order.
Carries(c, S) ==
  /\ c \in Seq(Nat)
  /\ {c[j] : j \in 1 .. Len(c)} = S
  /\ \A j, k \in 1 .. Len(c) : j < k => c[j] < c[k]

RunTypes ==
  /\ trip \in 0 .. MaxIterations
  /\ status \in [SCCs -> {"unborn", "submitted", "running", "ended"}]
  /\ position \in [SCCs -> SCCs]
  /\ iter \in [SCCs -> Iterations]
  /\ todo \in [SCCs -> SUBSET Queues]
  /\ value \in [SCCs -> [SCCs -> 0 .. trip + 1]]

\* Nothing has been started.
Idle ==
  /\ i = 1 /\ pool = <<>> /\ executed = {}
  /\ status = [s \in SCCs |-> "unborn"]
  /\ position = [s \in SCCs |-> Exit]
  /\ iter = [s \in SCCs |-> 1]
  /\ todo = [s \in SCCs |-> {}]

\* The dispatcher submits the stages in order and waits for all of them.
DispatchInv ==
  /\ pc \in {"submit", "join", "free", "returned"} /\ i \in Stages
  /\ \A s \in SCCs : status[s] # "unborn" <=> (s \in Stages /\ (pc = "submit" => s < i))
  /\ \A s \in Stages : pc \in {"free", "returned"} => status[s] = "ended"
  /\ \A s \in Stages : pc = "join" /\ s < i => status[s] = "ended"
  /\ pool \in Seq(Stages)
  /\ \A j \in 1 .. Len(pool) : status[pool[j]] = "submitted"
  /\ \A j, k \in 1 .. Len(pool) : pool[j] = pool[k] => j = k

\* A task is where the sequential loop goes in the same iteration, and the
\* values it has are of this iteration.
StageInv(s) ==
  /\ ~Begun(s) => iter[s] = 1
  /\ ~Running(s) => position[s] = Exit /\ todo[s] = {}
  /\ status[s] = "ended" => iter[s] = trip + 1
  /\ Running(s) => /\ Sequentially(position[s], iter[s])
                   /\ todo[s] \subseteq PopsAt(s, position[s])
                   /\ \A p \in Available(s) : Sent(s, p, iter[s]) => value[s][p] = iter[s]

\* A value is popped after it was pushed, and the queues hold the others.
QueueInv ==
  /\ \A q \in Queues : \A k \in Iterations : Got(q, k) => Sent(q.from, q.producer, k)
  /\ pc # "returned" => /\ DOMAIN contents = Queues
                        /\ \A q \in Queues : Carries(contents[q], InFlight(q))

ExecutedInv ==
  executed = {x \in Partitioned(loop) \X Iterations : Past(sccToStage[x[1]], x[1], x[2])}

RunInv ==
  /\ PipelineInv /\ RunTypes
  /\ IF pc = "compile" THEN Idle
     ELSE /\ step = "done" /\ loop \in RunLoops
          /\ DispatchInv /\ (\A s \in SCCs : StageInv(s)) /\ QueueInv /\ ExecutedInv

-----------------------------------------------------------------------------
(* What holds of a task that runs.                                         *)

LEMMA RunningFacts ==
  ASSUME RunInv, NEW s \in SCCs, Running(s)
  PROVE  /\ pc \in {"submit", "join"} /\ step = "done" /\ s \in Stages
         /\ loop \in Loops /\ loop \in RunLoops /\ PipelineInv /\ RunTypes
         /\ DispatchInv /\ StageInv(s) /\ QueueInv /\ ExecutedInv
         /\ position[s] \in SCCs /\ position[s] \in Nat /\ SCCs \subseteq Nat
         /\ iter[s] \in Iterations /\ iter[s] \in Nat /\ trip \in Nat /\ N \in Nat
<1>1. pc # "compile"
  BY DEF RunInv, Idle, Running
<1>2. s \in Stages
  BY <1>1 DEF RunInv, DispatchInv, Running
<1>3. pc \in {"submit", "join"}
  BY <1>1, <1>2 DEF RunInv, DispatchInv, Running
<1>4. loop \in Loops
  BY DEF RunInv, PipelineInv
<1>5. N \in Nat /\ SCCs \subseteq Nat
  BY <1>4, LoopFacts DEF SCCs
<1>6. /\ position[s] \in SCCs /\ iter[s] \in Iterations /\ trip \in Nat
  BY DSWPAssumption DEF DSWPAssumption, RunInv, RunTypes
<1>7. iter[s] \in Nat
  BY <1>6 DEF Iterations
<1> QED BY <1>1, <1>2, <1>3, <1>4, <1>5, <1>6, <1>7 DEF RunInv

\* The sequential loop executes the exit test once more than the rest.
LEMMA OnlyExitInTheEnd ==
  ASSUME loop \in Loops, trip \in Nat, NEW n \in SCCs, NEW k, Sequentially(n, k)
  PROVE  n # Exit => k <= trip
<1>1. n # Exit => Exit \in Controllers(loop)[n]
  BY Nesting
<1> QED BY <1>1 DEF Sequentially, Outcome

LEMMA SequentialBlock ==
  ASSUME loop \in Loops, NEW n \in SCCs, NEW k
  PROVE  Sequentially(BlockOf(n), k) <=> Sequentially(n, k)
BY BlockFacts DEF Sequentially

\* A task that has popped what its block needs has the values of the SCCs in
\* front of it.
LEMMA Ready ==
  ASSUME RunInv, NEW s \in SCCs, Running(s), todo[s] = {}, NEW p \in Available(s),
         p <= position[s], p \in Body(s) => p # position[s], Sequentially(p, iter[s])
  PROVE  Sent(s, p, iter[s])
<1>1. /\ s \in Stages /\ PipelineInv /\ step = "done" /\ loop \in Loops
      /\ position[s] \in Nat /\ SCCs \subseteq Nat /\ iter[s] \in Nat
  BY RunningFacts
<1>2. p \in SCCs /\ p \in Nat
  BY <1>1, AvailableFacts
<1>3. Begun(s)
  BY DEF Begun, Running
<1>4. CASE p \in Body(s)
  <2>1. p < position[s]
    BY <1>1, <1>2, <1>4
  <2> QED BY <1>3, <1>4, <2>1 DEF Sent, Past
<1>5. CASE p \notin Body(s)
  <2>1. PICK q \in popValueQueues(s) : q.producer = p
    BY <1>1, <1>5, AvailableFacts
  <2>2. q.to = s
    BY DEF popValueQueues
  <2>3. BlockOf(p) \in SCCs /\ BlockOf(p) <= p /\ Sequentially(BlockOf(p), iter[s])
    BY <1>1, <1>2, BlockFacts, SequentialBlock
  <2>4. BlockOf(p) < position[s] \/ BlockOf(p) = position[s]
    BY <1>1, <1>2, <2>3
  <2>5. Got(q, iter[s])
    BY <1>3, <2>1, <2>2, <2>3, <2>4 DEF Got, Past
  <2> QED BY <1>5, <2>1, <2>5 DEF Sent
<1> QED BY <1>4, <1>5

\* The values of a task after it has executed the SCC it is at.
After(s) ==
  IF position[s] \in Body(s) THEN [value[s] EXCEPT ![position[s]] = iter[s]] ELSE value[s]

\* A branch decides on a value of the iteration the task is in.
LEMMA Decides ==
  ASSUME RunInv, NEW s \in SCCs, Running(s), todo[s] = {},
         position[s] \in loop.branch, HasBranch(s, position[s])
  PROVE  After(s)[loop.cond[position[s]]] = iter[s]
<1>1. PICK n \in SCCs : n = position[s]
  BY RunningFacts
<1>2. PICK c : c = loop.cond[n]
  OBVIOUS
<1>3. /\ s \in Stages /\ PipelineInv /\ step = "done" /\ loop \in Loops
      /\ SCCs \subseteq Nat /\ StageInv(s) /\ RunTypes
  BY RunningFacts
<1>4. c \in Available(s) /\ c \in SCCs
  BY <1>1, <1>2, <1>3, DecisionAvailable, AvailableFacts
<1>5. c = n \/ (c < n /\ Controllers(loop)[c] \subseteq Controllers(loop)[n])
  <2>1. CASE n = Exit
    BY <1>2, <1>3, <2>1, LoopFacts
  <2>2. CASE n # Exit /\ c # n
    <3> DEFINE e == <<c, n>>
    <3>1. /\ e \in loop.data /\ e[1] = c /\ e[2] = n
          /\ Controllers(loop)[c] \subseteq Controllers(loop)[n]
      BY <1>2, <1>3, <2>2, LoopFacts
    <3> HIDE DEF e
    <3> QED BY <1>3, <3>1, LoopFacts
  <2> QED BY <2>1, <2>2
<1>6. Sequentially(n, iter[s])
  BY <1>1, <1>3 DEF StageInv
<1>7. Sequentially(c, iter[s])
  BY <1>5, <1>6 DEF Sequentially
<1>8. value[s] \in [SCCs -> 0 .. trip + 1]
  BY <1>3 DEF RunTypes
<1>9. CASE n \in Body(s) /\ c = n
  BY <1>1, <1>2, <1>8, <1>9 DEF After
<1>10. CASE ~(n \in Body(s) /\ c = n)
  <2>1. c <= n
    BY <1>1, <1>3, <1>4, <1>5
  <2>2. c \in Body(s) => c # n
    BY <1>10
  <2>3. Sent(s, c, iter[s])
    BY <1>1, <1>4, <1>7, <2>1, <2>2, Ready
  <2>4. value[s][c] = iter[s]
    BY <1>3, <1>4, <2>3 DEF StageInv
  <2>5. After(s)[c] = value[s][c]
    BY <1>1, <1>4, <1>8, <1>10 DEF After
  <2> QED BY <1>1, <1>2, <2>4, <2>5
<1> QED BY <1>9, <1>10

-----------------------------------------------------------------------------
(* What a step of the run does not change.                                 *)

\* The pipeline and the sequential loop stay as they are.
Fixed == UNCHANGED <<pipelineVars, trip, taken>>

LEMMA FixedFacts ==
  ASSUME Fixed
  PROVE  /\ UNCHANGED <<loop, step, sccToStage, clonableSCCs, uses, trip, taken>>
         /\ UNCHANGED <<Queues, Stages, Iterations>>
         /\ \A s : UNCHANGED <<Body(s), popValueQueues(s), Available(s), stageSCCs(s)>>
         /\ \A s, n : PopsAt(s, n)' = PopsAt(s, n)
         /\ \A n : BlockOf(n)' = BlockOf(n)
         /\ \A n, k : Sequentially(n, k)' <=> Sequentially(n, k)
<1>1. UNCHANGED <<loop, step, sccToStage, clonableSCCs, uses, trip, taken>>
  BY DEF Fixed, pipelineVars
<1>2. UNCHANGED <<Queues, Stages, Iterations>>
  BY <1>1 DEF Queues, Stages, Iterations
<1>3. \A s : UNCHANGED <<Body(s), popValueQueues(s), Available(s), stageSCCs(s)>>
  BY <1>1, <1>2 DEF Body, popValueQueues, Available, stageSCCs
<1>4. ASSUME NEW n PROVE BlockOf(n)' = BlockOf(n)
  BY <1>1 DEF BlockOf
<1>5. ASSUME NEW s, NEW n PROVE PopsAt(s, n)' = PopsAt(s, n)
  BY <1>3, <1>4 DEF PopsAt
<1>6. ASSUME NEW n, NEW k PROVE Sequentially(n, k)' <=> Sequentially(n, k)
  BY <1>1 DEF Sequentially, Outcome
<1> QED BY <1>1, <1>2, <1>3, <1>4, <1>5, <1>6

\* The task of stage s stays where it is.
Stays(s) ==
  /\ Running(s)' <=> Running(s)
  /\ status'[s] = "ended" <=> status[s] = "ended"
  /\ iter'[s] = iter[s] /\ position'[s] = position[s] /\ todo'[s] = todo[s]

LEMMA StaysFacts ==
  ASSUME Fixed, NEW s, Stays(s)
  PROVE  /\ \A n, k : Past(s, n, k)' <=> Past(s, n, k)
         /\ \A q, k : q.to = s => (Got(q, k)' <=> Got(q, k))
         /\ \A p, k : Sent(s, p, k)' <=> Sent(s, p, k)
<1>1. Begun(s)' <=> Begun(s)
  BY DEF Stays, Begun, Running
<1>2. ASSUME NEW n, NEW k PROVE Past(s, n, k)' <=> Past(s, n, k)
  BY <1>1, FixedFacts DEF Past, Stays
<1>3. ASSUME NEW q, NEW k, q.to = s PROVE Got(q, k)' <=> Got(q, k)
  <2>1. PICK b : b = BlockOf(q.producer) /\ b = BlockOf(q.producer)'
    BY FixedFacts
  <2>2. Past(q.to, BlockOf(q.producer), k)' <=> Past(q.to, BlockOf(q.producer), k)
    <3>1. Past(s, b, k)' <=> Past(s, b, k)
      BY <1>2
    <3> QED BY <1>3, <2>1, <3>1, FixedFacts DEF Past
  <2> QED BY <1>3, <2>1, <2>2 DEF Got, Stays
<1>4. ASSUME NEW p, NEW k PROVE Sent(s, p, k)' <=> Sent(s, p, k)
  <2>1. Body(s)' = Body(s) /\ popValueQueues(s)' = popValueQueues(s)
    BY FixedFacts
  <2>2. \A q \in popValueQueues(s) : q.to = s
    BY DEF popValueQueues
  <2>3. \A q \in popValueQueues(s) : Got(q, k)' <=> Got(q, k)
    BY <1>3, <2>2
  <2> QED BY <1>2, <2>1, <2>3 DEF Sent
<1> QED BY <1>2, <1>3, <1>4

LEMMA StaysStageInv ==
  ASSUME Fixed, NEW s, Stays(s), StageInv(s), value'[s] = value[s]
  PROVE  StageInv(s)'
<1>1. Begun(s)' <=> Begun(s)
  BY DEF Stays, Begun, Running
<1>2. ASSUME Running(s)
      PROVE  /\ Sequentially(position[s], iter[s])'
             /\ (todo[s] \subseteq PopsAt(s, position[s]))'
             /\ (\A p \in Available(s) : Sent(s, p, iter[s]) => value[s][p] = iter[s])'
  <2>1. PICK n, k : n = position[s] /\ n = position'[s] /\ k = iter[s] /\ k = iter'[s]
    BY DEF Stays
  <2>2. Sequentially(n, k) /\ todo[s] \subseteq PopsAt(s, n)
    BY <1>2, <2>1 DEF StageInv
  <2>3. Sequentially(n, k)' /\ todo'[s] \subseteq PopsAt(s, n)'
    BY <2>2, FixedFacts DEF Stays
  <2>4. \A p \in Available(s) : Sent(s, p, k) => value[s][p] = k
    BY <1>2, <2>1 DEF StageInv
  <2>5. \A p \in Available(s)' : Sent(s, p, k)' => value'[s][p] = k
    BY <2>4, FixedFacts, StaysFacts
  <2>6. Sequentially(position[s], iter[s])' /\ (todo[s] \subseteq PopsAt(s, position[s]))'
    BY <2>1, <2>3 DEF Sequentially, PopsAt
  <2>7. \A p \in Available(s)' : Sent(s, p, iter[s])' => value'[s][p] = iter'[s]
    BY <2>1, <2>5 DEF Sent, Got, Past, Sequentially
  <2> QED BY <2>6, <2>7
<1>3. UNCHANGED trip
  BY FixedFacts
<1> QED BY <1>1, <1>2, <1>3 DEF Stays, StageInv

-----------------------------------------------------------------------------
(* Execute: a task follows the control flow of the sequential loop.        *)

\* The loop's exit is taken.
Leaves(s) == position[s] = Exit /\ ~Outcome(Exit, After(s)[Exit])

\* The task of a stage leaves the loop when the sequential loop does.
LEMMA LeavesInTheEnd ==
  ASSUME RunInv, SendableConditions(loop), NEW s \in SCCs, Running(s), todo[s] = {}
  PROVE  Leaves(s) <=> iter[s] = trip + 1
<1>1. /\ s \in Stages /\ PipelineInv /\ step = "done" /\ loop \in Loops
      /\ iter[s] \in Iterations /\ iter[s] \in Nat /\ trip \in Nat /\ StageInv(s)
      /\ position[s] \in SCCs
  BY RunningFacts
<1>2. iter[s] <= trip + 1
  BY <1>1 DEF Iterations
<1>3. CASE position[s] = Exit
  <2>1. HasBranch(s, Exit) /\ Exit \in loop.branch /\ loop.cond[Exit] = Exit
    BY <1>1, RelevantFacts, LoopFacts
  <2>2. After(s)[Exit] = iter[s]
    BY <1>3, <2>1, Decides
  <2> QED BY <1>1, <1>2, <1>3, <2>2 DEF Leaves, Outcome
<1>4. CASE position[s] # Exit
  <2>1. Sequentially(position[s], iter[s])
    BY <1>1 DEF StageInv, Running
  <2>2. iter[s] <= trip
    BY <1>1, <1>4, <2>1, OnlyExitInTheEnd
  <2> QED BY <1>1, <1>4, <2>2 DEF Leaves
<1> QED BY <1>3, <1>4

\* Where a task goes the sequential loop goes, too, and what the task has of
\* the SCCs it jumps over the sequential loop does not execute.
LEMMA Target ==
  ASSUME RunInv, SendableConditions(loop), NEW s \in SCCs, Running(s), todo[s] = {},
         ~Leaves(s), NEW m, m = Follow(s, position[s], After(s))
  PROVE  /\ m \in Nat /\ position[s] < m /\ m <= N + 1
         /\ m <= N => m \in SCCs /\ Sequentially(m, iter[s])
         /\ \A x \in Relevant(s) : position[s] < x /\ x < m => ~Sequentially(x, iter[s])
<1>1. PICK n \in SCCs : n = position[s]
  BY RunningFacts
<1>2. /\ s \in Stages /\ PipelineInv /\ step = "done" /\ loop \in Loops
      /\ SCCs \subseteq Nat /\ n \in Nat /\ N \in Nat /\ trip \in Nat /\ iter[s] \in Nat
      /\ StageInv(s)
  BY <1>1, RunningFacts
<1>3. 1 <= n /\ n <= N /\ \A x \in Nat : x \in SCCs <=> (1 <= x /\ x <= N)
  BY <1>2 DEF SCCs
<1>4. Sequentially(n, iter[s])
  BY <1>1, <1>2 DEF StageInv
<1> DEFINE taking == HasBranch(s, n) /\ Outcome(n, After(s)[loop.cond[n]])
<1>5. ASSUME n \in loop.branch, HasBranch(s, n)
      PROVE  Outcome(n, After(s)[loop.cond[n]]) <=> Outcome(n, iter[s])
  BY <1>1, <1>5, Decides
<1>6. CASE n \in loop.branch /\ ~taking
  <2>1. m = AfterRegion(n)
    BY <1>1, <1>6 DEF Follow
  <2>2. /\ m \in Nat /\ n < m /\ m <= N + 1
        /\ \A x \in SCCs : n \in Controllers(loop)[x] <=> (n < x /\ x < m)
    BY <1>2, <2>1, RegionIs
  <2>3. ASSUME m <= N PROVE m \in SCCs /\ Sequentially(m, iter[s])
    <3>1. m \in SCCs
      BY <1>2, <1>3, <2>2, <2>3
    <3>2. Controllers(loop)[m] \subseteq Controllers(loop)[n]
      BY <1>2, <2>1, <3>1, BehindRegion
    <3> QED BY <1>4, <3>1, <3>2 DEF Sequentially
  <2>4. ASSUME NEW x \in Relevant(s), n < x, x < m PROVE ~Sequentially(x, iter[s])
    <3>1. n \in Controllers(loop)[x] /\ HasBranch(s, n)
      BY <2>2, <2>4 DEF Relevant
    <3>2. ~Outcome(n, iter[s])
      BY <1>5, <1>6, <3>1
    <3> QED BY <3>1, <3>2 DEF Sequentially
  <2> QED BY <1>1, <2>2, <2>3, <2>4
<1>7. CASE ~(n \in loop.branch /\ ~taking)
  <2>1. m = n + 1
    BY <1>1, <1>7 DEF Follow
  <2>2. ASSUME m <= N PROVE m \in SCCs /\ Sequentially(m, iter[s])
    <3>1. m \in SCCs /\ m # Exit /\ m - 1 = n
      BY <1>2, <1>3, <2>1, <2>2 DEF Exit
    <3>2. Controllers(loop)[m] \subseteq {n} \cup Controllers(loop)[n]
      BY <1>2, <3>1, NextSCC
    <3>3. ASSUME n \in Controllers(loop)[m] PROVE Outcome(n, iter[s])
      <4>1. n \in loop.branch
        BY <1>2, <3>1, <3>3, Nesting
      <4> QED BY <1>5, <1>7, <4>1
    <3>4. \A b \in Controllers(loop)[n] : Outcome(b, iter[s])
      BY <1>4 DEF Sequentially
    <3> QED BY <3>1, <3>2, <3>3, <3>4 DEF Sequentially
  <2>3. \A x \in Relevant(s) : ~(n < x /\ x < m)
    <3>1. \A x \in Relevant(s) : x \in Nat
      BY <1>2 DEF Relevant
    <3> QED BY <1>2, <2>1, <3>1
  <2> QED BY <1>1, <1>2, <1>3, <2>1, <2>2, <2>3
<1> QED BY <1>6, <1>7

\* The step of a task: it ends, goes on, or goes to the next iteration.
LEMMA ExecuteIs ==
  ASSUME RunInv, SendableConditions(loop), NEW s \in SCCs, Execute(s), UNCHANGED pipelineVars
  PROVE  /\ Fixed /\ Running(s) /\ todo[s] = {} /\ UNCHANGED <<pc, i, pool>>
         /\ value' = [value EXCEPT ![s] = After(s)]
         /\ contents' = IF position[s] \in Body(s)
                        THEN Pushed(s, position[s], iter[s], contents) ELSE contents
         /\ executed' = IF position[s] \in stageSCCs(s)
                        THEN executed \cup {<<position[s], iter[s]>>} ELSE executed
         /\ IF Leaves(s)
            THEN /\ status' = [status EXCEPT ![s] = "ended"]
                 /\ UNCHANGED <<position, iter, todo>>
            ELSE Goto(s, Follow(s, position[s], After(s))) /\ UNCHANGED status
<1>1. Fixed /\ Running(s) /\ todo[s] = {} /\ UNCHANGED <<pc, i, pool>>
  BY DEF Execute, Fixed
<1>2. value' = [value EXCEPT ![s] = After(s)]
  BY DEF Execute, After
<1>3. ASSUME position[s] \in Body(s) PROVE After(s)[position[s]] = iter[s]
  <2>1. value[s] \in [SCCs -> 0 .. trip + 1] /\ position[s] \in SCCs
    BY <1>1, RunningFacts DEF RunTypes
  <2> QED BY <1>3, <2>1 DEF After
<1>4. contents' = IF position[s] \in Body(s)
                  THEN Pushed(s, position[s], After(s)[position[s]], contents) ELSE contents
  BY DEF Execute, After
<1>5. executed' = IF position[s] \in stageSCCs(s)
                  THEN executed \cup {<<position[s], iter[s]>>} ELSE executed
  BY DEF Execute
<1>6. IF Leaves(s)
      THEN /\ status' = [status EXCEPT ![s] = "ended"]
           /\ UNCHANGED <<position, iter, todo>>
      ELSE Goto(s, Follow(s, position[s], After(s))) /\ UNCHANGED status
  BY DEF Execute, After, Leaves
<1> QED BY <1>1, <1>2, <1>3, <1>4, <1>5, <1>6

\* Where the task is after the step.
LEMMA ExecuteMoves ==
  ASSUME RunInv, SendableConditions(loop), NEW s \in SCCs, Execute(s), UNCHANGED pipelineVars
  PROVE  \/ /\ Leaves(s) /\ iter[s] = trip + 1 /\ position[s] = Exit
            /\ status'[s] = "ended" /\ iter'[s] = iter[s] /\ position'[s] = Exit
            /\ todo'[s] = {}
         \/ \E m \in Nat :
            /\ m = Follow(s, position[s], After(s)) /\ ~Leaves(s) /\ iter[s] <= trip
            /\ status'[s] = "running"
            /\ \/ m <= N /\ m \in SCCs /\ position'[s] = m /\ iter'[s] = iter[s]
               \/ m = N + 1 /\ position'[s] = Exit /\ iter'[s] = iter[s] + 1
            /\ todo'[s] = PopsAt(s, position'[s])
<1>1. /\ Running(s) /\ todo[s] = {}
      /\ IF Leaves(s)
         THEN /\ status' = [status EXCEPT ![s] = "ended"]
              /\ UNCHANGED <<position, iter, todo>>
         ELSE Goto(s, Follow(s, position[s], After(s))) /\ UNCHANGED status
  BY ExecuteIs
<1>2. /\ status \in [SCCs -> {"unborn", "submitted", "running", "ended"}]
      /\ position \in [SCCs -> SCCs] /\ iter \in [SCCs -> Iterations]
      /\ todo \in [SCCs -> SUBSET Queues]
      /\ N \in Nat /\ trip \in Nat /\ iter[s] \in Iterations
  BY <1>1, RunningFacts DEF RunTypes
<1>3. CASE Leaves(s)
  <2>1. iter[s] = trip + 1 /\ position[s] = Exit
    BY <1>1, <1>3, LeavesInTheEnd DEF Leaves
  <2> QED BY <1>1, <1>2, <1>3, <2>1
<1>4. CASE ~Leaves(s)
  <2>1. PICK m : m = Follow(s, position[s], After(s))
    OBVIOUS
  <2>2. m \in Nat /\ m <= N + 1 /\ (m <= N => m \in SCCs)
    BY <1>1, <1>4, <2>1, Target
  <2>3. iter[s] <= trip
    <3>1. iter[s] # trip + 1
      BY <1>1, <1>4, LeavesInTheEnd
    <3> QED BY <1>2, <3>1 DEF Iterations
  <2>4. Goto(s, m) /\ UNCHANGED status
    BY <1>1, <1>4, <2>1
  <2>5. CASE m <= N
    <3>1. ~(m > N)
      BY <1>2, <2>2, <2>5
    <3>2. position'[s] = m /\ iter'[s] = iter[s] /\ todo'[s] = PopsAt(s, m)
      BY <1>2, <2>4, <3>1 DEF Goto
    <3> QED BY <1>1, <1>4, <2>1, <2>2, <2>3, <2>4, <2>5, <3>2 DEF Running
  <2>6. CASE m = N + 1
    <3>1. m > N
      BY <1>2, <2>6
    <3>2. position'[s] = Exit /\ iter'[s] = iter[s] + 1 /\ todo'[s] = PopsAt(s, Exit)
      BY <1>2, <2>4, <3>1 DEF Goto
    <3> QED BY <1>1, <1>4, <2>1, <2>2, <2>3, <2>4, <2>6, <3>2 DEF Running
  <2> QED BY <1>2, <2>2, <2>5, <2>6
<1> QED BY <1>3, <1>4

\* The step takes the task past the SCC it was at, and past nothing else that
\* the sequential loop executes and the task has.
LEMMA ExecutePast ==
  ASSUME RunInv, SendableConditions(loop), NEW s \in SCCs, Execute(s), UNCHANGED pipelineVars,
         NEW n \in Relevant(s), NEW k \in Iterations
  PROVE  Past(s, n, k)' <=> (Past(s, n, k) \/ (n = position[s] /\ k = iter[s]))
<1>1. PICK a \in SCCs, j \in Nat : a = position[s] /\ j = iter[s]
  <2>1. Running(s)
    BY ExecuteIs
  <2> QED BY <2>1, RunningFacts
<1>2. Fixed /\ Running(s) /\ todo[s] = {}
  BY ExecuteIs
<1>3. /\ loop \in Loops /\ SCCs \subseteq Nat /\ N \in Nat /\ trip \in Nat /\ StageInv(s)
  BY <1>2, RunningFacts
<1>4. n \in SCCs /\ n \in Nat /\ a \in Nat /\ k \in Nat /\ 1 <= n /\ n <= N
  <2>1. n \in SCCs /\ n \in Nat /\ a \in Nat /\ k \in Nat
    <3>1. n \in SCCs
      BY DEF Relevant
    <3>2. k \in Nat
      BY <1>3 DEF Iterations
    <3> QED BY <1>3, <3>1, <3>2
  <2> QED BY <1>3, <2>1 DEF SCCs
<1>5. Sequentially(a, j)
  BY <1>1, <1>2, <1>3 DEF StageInv
<1>6. Past(s, n, k) <=> Sequentially(n, k) /\ (k < j \/ (k = j /\ n < a))
  BY <1>1, <1>2 DEF Past, Begun, Running
<1>7. Sequentially(n, k)' <=> Sequentially(n, k)
  BY <1>2, FixedFacts
<1>8. CASE /\ iter[s] = trip + 1 /\ position[s] = Exit
           /\ status'[s] = "ended" /\ iter'[s] = iter[s]
  <2>1. Past(s, n, k)' <=> Sequentially(n, k) /\ (k < j \/ k = j)
    BY <1>1, <1>7, <1>8 DEF Past, Begun
  <2>2. ASSUME Sequentially(n, k), k = j PROVE n = a
    <3>1. n # Exit => k <= trip
      BY <1>3, <1>4, <2>2, OnlyExitInTheEnd
    <3> QED BY <1>1, <1>3, <1>8, <2>2, <3>1
  <2> QED BY <1>1, <1>5, <1>6, <2>1, <2>2
<1>9. ASSUME NEW m \in Nat, m = Follow(s, position[s], After(s)), ~Leaves(s),
             status'[s] = "running",
             \/ m <= N /\ m \in SCCs /\ position'[s] = m /\ iter'[s] = iter[s]
             \/ m = N + 1 /\ position'[s] = Exit /\ iter'[s] = iter[s] + 1
      PROVE  Past(s, n, k)' <=> (Past(s, n, k) \/ (n = position[s] /\ k = iter[s]))
  <2>1. a < m /\ (a < n /\ n < m => ~Sequentially(n, j))
    BY <1>1, <1>2, <1>9, Target
  <2>2. Past(s, n, k)' <=> Sequentially(n, k) /\ (k < j \/ (k = j /\ n < m))
    <3>1. CASE m <= N /\ position'[s] = m /\ iter'[s] = iter[s]
      BY <1>1, <1>7, <1>9, <3>1 DEF Past, Begun
    <3>2. CASE m = N + 1 /\ position'[s] = Exit /\ iter'[s] = iter[s] + 1
      <4>1. Past(s, n, k)' <=> Sequentially(n, k) /\ (k < j + 1 \/ (k = j + 1 /\ n < 1))
        BY <1>1, <1>7, <1>9, <3>2 DEF Past, Begun, Exit
      <4>2. ~(n < 1) /\ n < m /\ (k < j + 1 <=> (k < j \/ k = j))
        BY <1>1, <1>3, <1>4, <3>2
      <4> QED BY <4>1, <4>2
    <3> QED BY <1>9, <3>1, <3>2
  <2>3. CASE k = j
    <3>1. n < a \/ n = a \/ (a < n /\ n < m) \/ ~(n < m)
      BY <1>4, <1>9
    <3>2. n < a => n < m
      BY <1>4, <1>9, <2>1
    <3>3. n = a => n < m
      BY <2>1
    <3>4. ~(k < j)
      BY <1>4, <2>3
    <3> QED BY <1>1, <1>5, <1>6, <2>1, <2>2, <2>3, <3>1, <3>2, <3>3, <3>4
  <2>4. CASE k # j
    BY <1>1, <1>6, <2>2, <2>4
  <2> QED BY <2>3, <2>4
<1>10. QED
  BY <1>8, <1>9, ExecuteMoves

\* The step pops nothing.
LEMMA ExecuteGot ==
  ASSUME RunInv, SendableConditions(loop), NEW s \in SCCs, Execute(s), UNCHANGED pipelineVars,
         NEW q \in popValueQueues(s), NEW k \in Iterations
  PROVE  Got(q, k)' <=> Got(q, k)
<1>1. Fixed /\ Running(s) /\ todo[s] = {}
  BY ExecuteIs
<1>2. /\ s \in Stages /\ PipelineInv /\ step = "done"
  BY <1>1, RunningFacts
<1>3. q.to = s /\ q \in Queues
  BY DEF popValueQueues
<1>4. PICK b \in Relevant(s) : b = BlockOf(q.producer)
  BY <1>2, AvailableFacts, RelevantFacts
<1>5. Past(s, b, k)' <=> Past(s, b, k) \/ (b = position[s] /\ k = iter[s])
  BY ExecutePast
<1>6. Got(q, k) <=> Past(s, b, k)'
  BY <1>1, <1>3, <1>4, <1>5 DEF Got
<1>7. BlockOf(q.producer)' = b
  BY <1>1, <1>4, FixedFacts
<1>8. ~(Running(s)' /\ position'[s] = b /\ q \notin todo'[s])
  <2>1. CASE status'[s] = "ended"
    BY <2>1 DEF Running
  <2>2. CASE todo'[s] = PopsAt(s, position'[s])
    BY <1>3, <1>4, <2>2 DEF PopsAt
  <2> QED BY <2>1, <2>2, ExecuteMoves
<1>9. Got(q, k)' <=> Past(s, b, k)'
  BY <1>3, <1>7, <1>8 DEF Got, Past, Sequentially
<1> QED BY <1>6, <1>9

\* The task has one more value, if the SCC is one of its own.
LEMMA ExecuteSent ==
  ASSUME RunInv, SendableConditions(loop), NEW s \in SCCs, Execute(s), UNCHANGED pipelineVars,
         NEW p \in Available(s), NEW k \in Iterations
  PROVE  Sent(s, p, k)' <=>
           (Sent(s, p, k) \/ (p \in Body(s) /\ p = position[s] /\ k = iter[s]))
<1>1. Fixed /\ Running(s)
  BY ExecuteIs
<1>2. /\ s \in Stages /\ PipelineInv /\ step = "done"
  BY <1>1, RunningFacts
<1>3. Body(s)' = Body(s) /\ popValueQueues(s)' = popValueQueues(s)
  BY <1>1, FixedFacts
<1>4. CASE p \in Body(s)
  <2>1. p \in Relevant(s)
    BY <1>2, RelevantFacts
  <2>2. Past(s, p, k)' <=> Past(s, p, k) \/ (p = position[s] /\ k = iter[s])
    BY <2>1, ExecutePast
  <2> QED BY <1>3, <1>4, <2>2 DEF Sent
<1>5. CASE p \notin Body(s)
  <2>1. \A q \in popValueQueues(s) : Got(q, k)' <=> Got(q, k)
    BY ExecuteGot
  <2> QED BY <1>3, <1>5, <2>1 DEF Sent
<1> QED BY <1>4, <1>5

-----------------------------------------------------------------------------
(* Queues.                                                                 *)

LEMMA CarriesNothing == Carries(<<>>, {})
BY DEF Carries

LEMMA CarriesAppend ==
  ASSUME NEW c, NEW S, Carries(c, S), NEW v \in Nat, \A x \in S : x < v
  PROVE  Carries(Append(c, v), S \cup {v})
<1> DEFINE d == Append(c, v)
<1>1. c \in Seq(Nat) /\ Len(c) \in Nat
  BY DEF Carries
<1>2. /\ d \in Seq(Nat) /\ Len(d) = Len(c) + 1 /\ d[Len(c) + 1] = v
      /\ \A j \in 1 .. Len(c) : d[j] = c[j]
  BY <1>1
<1> HIDE DEF d
<1>3. \A j \in 1 .. Len(d) : j \in 1 .. Len(c) \/ j = Len(c) + 1
  BY <1>1, <1>2
<1>4. \A j \in 1 .. Len(c) : j \in 1 .. Len(d) /\ c[j] \in S /\ c[j] < v
  <2>1. \A j \in 1 .. Len(c) : c[j] \in S
    BY DEF Carries
  <2> QED BY <1>1, <1>2, <2>1
<1>5. Len(c) + 1 \in 1 .. Len(d)
  BY <1>1, <1>2
<1>6. {d[j] : j \in 1 .. Len(d)} = S \cup {v}
  <2>1. ASSUME NEW x \in S PROVE \E j \in 1 .. Len(d) : x = d[j]
    <3>1. PICK j \in 1 .. Len(c) : x = c[j]
      BY DEF Carries
    <3> QED BY <1>2, <1>4, <3>1
  <2>2. \A j \in 1 .. Len(d) : d[j] \in S \cup {v}
    BY <1>2, <1>3, <1>4
  <2>3. \E j \in 1 .. Len(d) : v = d[j]
    BY <1>2, <1>5
  <2> QED BY <2>1, <2>2, <2>3
<1>7. ASSUME NEW j \in 1 .. Len(d), NEW k \in 1 .. Len(d), j < k PROVE d[j] < d[k]
  <2>1. j \in 1 .. Len(c)
    BY <1>1, <1>2, <1>7
  <2>2. CASE k \in 1 .. Len(c)
    <3>1. c[j] < c[k]
      BY <1>7, <2>1, <2>2 DEF Carries
    <3> QED BY <1>2, <2>1, <2>2, <3>1
  <2>3. CASE k = Len(c) + 1
    BY <1>2, <1>4, <2>1, <2>3
  <2> QED BY <1>3, <2>2, <2>3
<1> QED BY <1>2, <1>6, <1>7 DEF Carries, d

LEMMA CarriesTail ==
  ASSUME NEW c, NEW S, Carries(c, S), c # <<>>
  PROVE  /\ Head(c) \in S /\ Head(c) \in Nat /\ \A x \in S : x \in Nat /\ Head(c) <= x
         /\ Carries(Tail(c), S \ {Head(c)})
<1> DEFINE d == Tail(c)
           h == Head(c)
<1>1. c \in Seq(Nat) /\ Len(c) \in Nat /\ Len(c) # 0
  BY DEF Carries
<1>2. /\ d \in Seq(Nat) /\ Len(d) = Len(c) - 1 /\ h = c[1] /\ h \in Nat
      /\ \A j \in 1 .. Len(c) : c[j] \in Nat
      /\ \A j \in 1 .. Len(d) : d[j] = c[j + 1]
  BY <1>1
<1> HIDE DEF d, h
<1>3. 1 \in 1 .. Len(c) /\ \A j \in 1 .. Len(d) : j + 1 \in 1 .. Len(c)
  BY <1>1, <1>2
<1>4. S = {c[j] : j \in 1 .. Len(c)} /\ \A j, k \in 1 .. Len(c) : j < k => c[j] < c[k]
  BY DEF Carries
<1>5. h \in S
  BY <1>2, <1>3, <1>4
<1>6. \A j \in 1 .. Len(c) : j # 1 => h < c[j] /\ j - 1 \in 1 .. Len(d) /\ d[j - 1] = c[j]
  <2> SUFFICES ASSUME NEW j \in 1 .. Len(c), j # 1
               PROVE  h < c[j] /\ j - 1 \in 1 .. Len(d) /\ d[j - 1] = c[j]
    OBVIOUS
  <2>1. 1 < j /\ j - 1 \in 1 .. Len(d) /\ (j - 1) + 1 = j
    BY <1>1, <1>2
  <2> QED BY <1>2, <1>3, <1>4, <2>1
<1>7. \A x \in S : x \in Nat /\ h <= x
  <2> SUFFICES ASSUME NEW x \in S PROVE x \in Nat /\ h <= x
    OBVIOUS
  <2>1. PICK j \in 1 .. Len(c) : x = c[j]
    BY <1>4
  <2> QED BY <1>2, <1>6, <2>1
<1>8. {d[j] : j \in 1 .. Len(d)} = S \ {h}
  <2>1. ASSUME NEW x \in S \ {h} PROVE \E j \in 1 .. Len(d) : x = d[j]
    <3>1. PICK j \in 1 .. Len(c) : x = c[j]
      BY <1>4
    <3> QED BY <1>2, <1>6, <3>1
  <2>2. ASSUME NEW j \in 1 .. Len(d) PROVE d[j] \in S \ {h}
    <3>1. PICK m \in 1 .. Len(c) : m = j + 1 /\ m # 1
      BY <1>2, <1>3
    <3>2. d[j] = c[m] /\ h < c[m] /\ c[m] \in Nat
      BY <1>2, <1>6, <3>1
    <3> QED BY <1>2, <1>4, <3>2
  <2> QED BY <2>1, <2>2
<1>9. \A j, k \in 1 .. Len(d) : j < k => d[j] < d[k]
  <2> SUFFICES ASSUME NEW j \in 1 .. Len(d), NEW k \in 1 .. Len(d), j < k
               PROVE  d[j] < d[k]
    OBVIOUS
  <2>1. j + 1 \in 1 .. Len(c) /\ k + 1 \in 1 .. Len(c) /\ j + 1 < k + 1
    BY <1>2, <1>3
  <2>2. c[j + 1] < c[k + 1]
    BY <1>4, <2>1
  <2> QED BY <1>2, <2>2
<1> QED BY <1>2, <1>5, <1>7, <1>8, <1>9 DEF Carries, d, h

\* A stage sends the values of an SCC in the order of the iterations.
LEMMA SentInOrder ==
  ASSUME PipelineInv, step = "done", RunTypes, NEW s \in Stages, StageInv(s),
         NEW p \in Available(s), NEW k \in Iterations, Sent(s, p, k)
  PROVE  /\ Begun(s) /\ k <= iter[s] /\ Sequentially(p, k)
         /\ \A j \in Iterations : j < k /\ Sequentially(p, j) => Sent(s, p, j)
<1>1. loop \in Loops /\ s \in SCCs /\ p \in SCCs
  BY StageFacts, AvailableFacts DEF PipelineInv
<1>2. trip \in Nat /\ iter[s] \in Nat /\ Iterations \subseteq Nat
  <2>1. trip \in Nat
    BY DSWPAssumption DEF RunTypes, DSWPAssumption
  <2> QED BY <1>1, <2>1 DEF RunTypes, Iterations
<1>3. CASE p \in Body(s)
  <2>1. Past(s, p, k)
    BY <1>3 DEF Sent
  <2>2. Begun(s) /\ k <= iter[s] /\ Sequentially(p, k)
    BY <1>2, <2>1 DEF Past
  <2>3. \A j \in Iterations : j < k => j < iter[s]
    BY <1>2, <2>2
  <2> QED BY <1>3, <2>2, <2>3 DEF Sent, Past
<1>4. CASE p \notin Body(s)
  <2>1. PICK q \in popValueQueues(s) : q.producer = p /\ Got(q, k)
    BY <1>4 DEF Sent
  <2>2. q.to = s
    BY DEF popValueQueues
  <2>3. PICK b : b = BlockOf(p)
    OBVIOUS
  <2>4. \A j : Sequentially(b, j) <=> Sequentially(p, j)
    BY <1>1, <2>3, SequentialBlock
  <2>5. Past(s, b, k) \/ (Running(s) /\ k = iter[s] /\ position[s] = b)
    BY <2>1, <2>2, <2>3 DEF Got
  <2>6. Begun(s) /\ k <= iter[s]
    BY <1>2, <2>5 DEF Past, Begun, Running
  <2>7. Sequentially(p, k)
    BY <2>4, <2>5 DEF Past, StageInv
  <2>8. ASSUME NEW j \in Iterations, j < k, Sequentially(p, j) PROVE Sent(s, p, j)
    <3>1. j < iter[s]
      BY <1>2, <2>6, <2>8
    <3>2. Past(s, b, j)
      BY <2>4, <2>6, <2>8, <3>1 DEF Past
    <3>3. Got(q, j)
      BY <2>1, <2>2, <2>3, <3>2 DEF Got
    <3> QED BY <1>4, <2>1, <3>3 DEF Sent
  <2> QED BY <2>6, <2>7, <2>8
<1> QED BY <1>3, <1>4

-----------------------------------------------------------------------------
(* Pop: a task gets the value of the iteration it is in.                   *)

LEMMA PopsRightValue ==
  ASSUME RunInv, NEW s \in SCCs, Running(s), NEW q \in todo[s], contents[q] # <<>>
  PROVE  /\ q \in Queues /\ q.to = s /\ q \in PopsAt(s, position[s])
         /\ BlockOf(q.producer) = position[s]
         /\ ~Got(q, iter[s]) /\ Sent(q.from, q.producer, iter[s])
         /\ Head(contents[q]) = iter[s]
         /\ Carries(Tail(contents[q]), InFlight(q) \ {iter[s]})
<1>1. /\ s \in Stages /\ PipelineInv /\ step = "done" /\ loop \in Loops /\ RunTypes
      /\ StageInv(s) /\ QueueInv /\ pc # "returned" /\ pc # "compile"
      /\ iter[s] \in Iterations /\ iter[s] \in Nat /\ position[s] \in Nat
  BY RunningFacts
<1>2. q \in PopsAt(s, position[s])
  BY <1>1 DEF StageInv
<1>3. q \in Queues /\ q.to = s /\ BlockOf(q.producer) = position[s]
  BY <1>2 DEF PopsAt, popValueQueues
<1>4. q.producer \in SCCs /\ q.from \in Stages /\ q.producer \in Available(q.from)
  BY <1>1, <1>3, QueueFacts
<1>5. ~Got(q, iter[s])
  <2>1. ~Past(s, position[s], iter[s])
    BY <1>1 DEF Past, Running
  <2> QED BY <1>3, <2>1 DEF Got
<1>6. \A k : Sequentially(q.producer, k) <=> Sequentially(position[s], k)
  BY <1>1, <1>3, <1>4, SequentialBlock
<1>7. Sequentially(q.producer, iter[s])
  BY <1>1, <1>6 DEF StageInv
<1>8. Carries(contents[q], InFlight(q))
  BY <1>1, <1>3 DEF QueueInv
<1> DEFINE h == Head(contents[q])
<1>9. /\ h \in InFlight(q) /\ h \in Nat /\ \A x \in InFlight(q) : h <= x
      /\ Carries(Tail(contents[q]), InFlight(q) \ {h})
  BY <1>8, CarriesTail
<1> HIDE DEF h
<1>10. h \in Iterations /\ Sent(q.from, q.producer, h) /\ ~Got(q, h)
  BY <1>9 DEF InFlight
<1>11. StageInv(q.from) /\ q.from \in SCCs
  BY <1>1, <1>4, StageFacts DEF RunInv
<1>12. Sequentially(q.producer, h)
  BY <1>1, <1>4, <1>10, <1>11, SentInOrder
<1>13. ~(h < iter[s])
  <2>1. ASSUME h < iter[s] PROVE Past(s, position[s], h)
    BY <1>6, <1>12, <2>1 DEF Past, Begun, Running
  <2> QED BY <1>3, <1>10, <2>1 DEF Got
<1>14. ~(iter[s] < h)
  <2>1. ASSUME iter[s] < h PROVE FALSE
    <3>1. Sent(q.from, q.producer, iter[s])
      BY <1>1, <1>4, <1>7, <1>10, <1>11, <2>1, SentInOrder
    <3>2. iter[s] \in InFlight(q)
      BY <1>1, <1>5, <3>1 DEF InFlight
    <3>3. h <= iter[s]
      BY <1>9, <3>2
    <3> QED BY <1>1, <1>9, <2>1, <3>3
  <2> QED BY <2>1
<1>15. h = iter[s]
  BY <1>1, <1>9, <1>13, <1>14
<1> QED BY <1>2, <1>3, <1>5, <1>9, <1>10, <1>15 DEF h

\* What popping q does to the progress of its stage.
LEMMA PopProgress ==
  ASSUME RunInv, NEW s \in SCCs, Running(s), NEW q \in todo[s], contents[q] # <<>>,
         Fixed, UNCHANGED <<status, position, iter>>, todo' = [todo EXCEPT ![s] = @ \ {q}]
  PROVE  /\ \A t, n, k : Past(t, n, k)' <=> Past(t, n, k)
         /\ \A r, k : r.to = s => (Got(r, k)' <=> (Got(r, k) \/ (r = q /\ k = iter[s])))
         /\ \A p, k : Sent(s, p, k)' <=> (Sent(s, p, k) \/ (p = q.producer /\ k = iter[s]))
         /\ Sent(s, q.producer, iter[s]) <=>
              ~ \A r \in PopsAt(s, position[s]) \ todo[s] : r.producer # q.producer
<1>1. /\ s \in Stages /\ PipelineInv /\ step = "done" /\ RunTypes /\ loop \in Loops
      /\ position[s] \in Nat /\ iter[s] \in Nat
  BY RunningFacts
<1>2. /\ q \in Queues /\ q.to = s /\ BlockOf(q.producer) = position[s]
      /\ q \in popValueQueues(s)
  BY PopsRightValue DEF popValueQueues
<1>3. ASSUME NEW t, NEW n, NEW k PROVE Past(t, n, k)' <=> Past(t, n, k)
  <2>1. Sequentially(n, k)' <=> Sequentially(n, k)
    BY FixedFacts
  <2> QED BY <2>1 DEF Past, Begun
<1>4. todo'[s] = todo[s] \ {q}
  BY <1>1 DEF RunTypes
<1>5. ASSUME NEW r, NEW k, r.to = s
      PROVE  Got(r, k)' <=> (Got(r, k) \/ (r = q /\ k = iter[s]))
  <2>1. PICK b : b = BlockOf(r.producer) /\ b = BlockOf(r.producer)'
    BY FixedFacts
  <2>2. Got(r, k) <=> Past(s, b, k) \/ (k = iter[s] /\ position[s] = b /\ r \notin todo[s])
    BY <1>5, <2>1 DEF Got
  <2>3. Got(r, k)' <=>
          Past(s, b, k)' \/ (Running(s)' /\ k = iter'[s] /\ position'[s] = b /\ r \notin todo'[s])
    BY <1>5, <2>1 DEF Got, Past, Sequentially
  <2>4. Got(r, k)' <=> Past(s, b, k) \/ (k = iter[s] /\ position[s] = b /\ r \notin todo'[s])
    BY <1>3, <2>3 DEF Running
  <2>5. r = q => b = position[s]
    BY <1>2, <2>1
  <2> QED BY <1>4, <2>2, <2>4, <2>5
<1>6. q.producer \notin Body(s)
  BY <1>1, <1>2, QueueFacts
<1>7. ASSUME NEW p, NEW k
      PROVE  Sent(s, p, k)' <=> (Sent(s, p, k) \/ (p = q.producer /\ k = iter[s]))
  <2>1. Body(s)' = Body(s) /\ popValueQueues(s)' = popValueQueues(s)
    BY FixedFacts
  <2>2. CASE p \in Body(s)
    BY <1>3, <1>6, <2>1, <2>2 DEF Sent
  <2>3. CASE p \notin Body(s)
    <3>1. \A r \in popValueQueues(s) : Got(r, k)' <=> (Got(r, k) \/ (r = q /\ k = iter[s]))
      BY <1>5 DEF popValueQueues
    <3>2. Sent(s, p, k)' <=> \E r \in popValueQueues(s) : r.producer = p /\ Got(r, k)'
      BY <2>1, <2>3 DEF Sent
    <3>3. Sent(s, p, k) <=> \E r \in popValueQueues(s) : r.producer = p /\ Got(r, k)
      BY <2>3 DEF Sent
    <3> QED BY <1>2, <3>1, <3>2, <3>3
  <2> QED BY <2>2, <2>3
<1>8. ASSUME NEW r \in popValueQueues(s), r.producer = q.producer
      PROVE  Got(r, iter[s]) <=> r \in PopsAt(s, position[s]) \ todo[s]
  <2>1. r.to = s /\ BlockOf(r.producer) = position[s]
    BY <1>2, <1>8 DEF popValueQueues
  <2>2. ~Past(s, position[s], iter[s])
    BY <1>1 DEF Past, Running
  <2> QED BY <2>1, <2>2 DEF Got, PopsAt
<1>9. Sent(s, q.producer, iter[s]) <=>
        ~ \A r \in PopsAt(s, position[s]) \ todo[s] : r.producer # q.producer
  <2>1. PopsAt(s, position[s]) \subseteq popValueQueues(s)
    BY DEF PopsAt
  <2> QED BY <1>6, <1>8, <2>1 DEF Sent
<1> QED BY <1>3, <1>5, <1>7, <1>9

-----------------------------------------------------------------------------
(* The queues after a step.                                                *)

\* A queue to which nothing is pushed and from which nothing is popped.
LEMMA SameInFlight ==
  ASSUME Fixed, NEW q, \A k \in Iterations : Got(q, k)' <=> Got(q, k),
         \A k \in Iterations : Sent(q.from, q.producer, k)' <=> Sent(q.from, q.producer, k)
  PROVE  InFlight(q)' = InFlight(q)
BY FixedFacts DEF InFlight

\* A value that is pushed is behind the ones that are on their way.
LEMMA PushCarries ==
  ASSUME RunInv, Fixed, NEW s \in SCCs, Running(s), NEW q \in Queues, q.from = s,
         ~Sent(s, q.producer, iter[s]),
         \A k \in Iterations :
           Sent(s, q.producer, k)' <=> (Sent(s, q.producer, k) \/ k = iter[s]),
         \A k \in Iterations : Got(q, k)' <=> Got(q, k)
  PROVE  Carries(Append(contents[q], iter[s]), InFlight(q)')
<1>1. /\ s \in Stages /\ PipelineInv /\ step = "done" /\ RunTypes /\ StageInv(s)
      /\ QueueInv /\ pc # "returned" /\ iter[s] \in Iterations /\ iter[s] \in Nat
      /\ trip \in Nat
  BY RunningFacts
<1>2. q.producer \in Available(s)
  BY <1>1, QueueFacts
<1>3. ~Got(q, iter[s])
  BY <1>1 DEF QueueInv
<1>4. InFlight(q)' = InFlight(q) \cup {iter[s]}
  <2>1. Iterations' = Iterations
    BY FixedFacts
  <2> QED BY <1>1, <1>3, <2>1 DEF InFlight
<1>5. \A k \in InFlight(q) : k < iter[s]
  <2> SUFFICES ASSUME NEW k \in InFlight(q) PROVE k < iter[s]
    OBVIOUS
  <2>1. k \in Iterations /\ Sent(s, q.producer, k)
    BY DEF InFlight
  <2>2. k <= iter[s]
    BY <1>1, <1>2, <2>1, SentInOrder
  <2>3. k # iter[s] /\ k \in Nat
    BY <1>1, <2>1 DEF Iterations
  <2> QED BY <1>1, <2>2, <2>3
<1>6. Carries(contents[q], InFlight(q))
  BY <1>1 DEF QueueInv
<1> QED BY <1>1, <1>4, <1>5, <1>6, CarriesAppend

LEMMA ExecuteOthers ==
  ASSUME RunInv, SendableConditions(loop), NEW s \in SCCs, Execute(s), UNCHANGED pipelineVars,
         NEW t \in SCCs, t # s
  PROVE  Stays(t) /\ value'[t] = value[t] /\ status'[t] = status[t]
<1>1. Running(s) /\ value' = [value EXCEPT ![s] = After(s)]
  BY ExecuteIs
<1>2. /\ status \in [SCCs -> {"unborn", "submitted", "running", "ended"}]
      /\ position \in [SCCs -> SCCs] /\ iter \in [SCCs -> Iterations]
      /\ todo \in [SCCs -> SUBSET Queues] /\ value \in [SCCs -> [SCCs -> 0 .. trip + 1]]
  BY <1>1, RunningFacts DEF RunTypes
<1>3. CASE status' = [status EXCEPT ![s] = "ended"] /\ UNCHANGED <<position, iter, todo>>
  BY <1>1, <1>2, <1>3 DEF Stays, Running
<1>4. ASSUME NEW m, Goto(s, m), UNCHANGED status
      PROVE  Stays(t) /\ value'[t] = value[t] /\ status'[t] = status[t]
  BY <1>1, <1>2, <1>4 DEF Stays, Running, Goto
<1> QED BY <1>3, <1>4, ExecuteIs

LEMMA ExecuteQueues ==
  ASSUME RunInv, SendableConditions(loop), NEW s \in SCCs, Execute(s), UNCHANGED pipelineVars
  PROVE  QueueInv'
<1>1. /\ Fixed /\ Running(s) /\ UNCHANGED pc
      /\ contents' = IF position[s] \in Body(s)
                     THEN Pushed(s, position[s], iter[s], contents) ELSE contents
  BY ExecuteIs
<1>2. /\ s \in Stages /\ PipelineInv /\ step = "done" /\ loop \in Loops
      /\ QueueInv /\ pc # "returned" /\ iter[s] \in Iterations /\ position[s] \in Nat
      /\ iter[s] \in Nat
  BY <1>1, RunningFacts
<1>3. Queues' = Queues /\ Iterations' = Iterations
  BY <1>1, FixedFacts
<1>4. ASSUME NEW q \in Queues
      PROVE  /\ q.from \in Stages /\ q.to \in Stages /\ q.producer \in Available(q.from)
             /\ q.from \in SCCs /\ q.to \in SCCs
  BY <1>2, QueueFacts, StageFacts
<1>5. ASSUME NEW q \in Queues, NEW k \in Iterations PROVE Got(q, k)' <=> Got(q, k)
  <2>1. CASE q.to = s
    BY <2>1, ExecuteGot DEF popValueQueues
  <2>2. CASE q.to # s
    BY <1>1, <1>4, <2>2, ExecuteOthers, StaysFacts
  <2> QED BY <2>1, <2>2
<1> DEFINE New(q) == /\ q.from = s /\ q.producer = position[s]
                     /\ position[s] \in Body(s)
<1>6. ASSUME NEW q \in Queues, NEW k \in Iterations
      PROVE  Sent(q.from, q.producer, k)' <=>
               (Sent(q.from, q.producer, k) \/ (New(q) /\ k = iter[s]))
  <2>1. CASE q.from = s
    <3>1. q.producer \in Available(s)
      BY <1>4, <2>1
    <3>2. Sent(s, q.producer, k)' <=> (Sent(s, q.producer, k) \/
            (q.producer \in Body(s) /\ q.producer = position[s] /\ k = iter[s]))
      BY <3>1, ExecuteSent
    <3> QED BY <2>1, <3>2
  <2>2. CASE q.from # s
    <3>1. \A p : Sent(q.from, p, k)' <=> Sent(q.from, p, k)
      BY <1>1, <1>4, <2>2, ExecuteOthers, StaysFacts
    <3> QED BY <2>2, <3>1
  <2> QED BY <2>1, <2>2
<1>7. DOMAIN contents' = Queues /\ \A q \in Queues :
        contents'[q] = IF New(q) THEN Append(contents[q], iter[s]) ELSE contents[q]
  <2>1. DOMAIN contents = Queues
    BY <1>2 DEF QueueInv
  <2> QED BY <1>1, <2>1 DEF Pushed
<1> HIDE DEF New
<1>8. ASSUME NEW q \in Queues PROVE Carries(contents'[q], InFlight(q)')
  <2>1. CASE New(q)
    <3>1. q.from = s /\ q.producer = position[s] /\ position[s] \in Body(s)
      BY <2>1 DEF New
    <3>2. ~Sent(s, q.producer, iter[s])
      BY <1>1, <1>2, <3>1 DEF Sent, Past, Running
    <3>3. \A k \in Iterations :
            Sent(s, q.producer, k)' <=> (Sent(s, q.producer, k) \/ k = iter[s])
      <4> SUFFICES ASSUME NEW k \in Iterations
                   PROVE  Sent(s, q.producer, k)' <=> (Sent(s, q.producer, k) \/ k = iter[s])
        OBVIOUS
      <4> QED BY <1>6, <2>1, <3>1
    <3>4. Carries(Append(contents[q], iter[s]), InFlight(q)')
      BY <1>1, <1>5, <3>1, <3>2, <3>3, PushCarries
    <3> QED BY <1>7, <2>1, <3>4
  <2>2. CASE ~New(q)
    <3>1. InFlight(q)' = InFlight(q)
      BY <1>1, <1>5, <1>6, <2>2, SameInFlight
    <3> QED BY <1>2, <1>7, <2>2, <3>1 DEF QueueInv
  <2> QED BY <2>1, <2>2
<1>9. ASSUME NEW q \in Queues, NEW k \in Iterations, Got(q, k)'
      PROVE  Sent(q.from, q.producer, k)'
  BY <1>2, <1>5, <1>6, <1>9 DEF QueueInv
<1> QED BY <1>3, <1>7, <1>8, <1>9 DEF QueueInv

LEMMA ExecuteTypes ==
  ASSUME RunInv, SendableConditions(loop), NEW s \in SCCs, Execute(s), UNCHANGED pipelineVars
  PROVE  RunTypes'
<1>1. /\ Fixed /\ Running(s) /\ value' = [value EXCEPT ![s] = After(s)]
      /\ IF Leaves(s)
         THEN /\ status' = [status EXCEPT ![s] = "ended"]
              /\ UNCHANGED <<position, iter, todo>>
         ELSE Goto(s, Follow(s, position[s], After(s))) /\ UNCHANGED status
  BY ExecuteIs
<1>2. /\ trip \in 0 .. MaxIterations /\ trip \in Nat /\ N \in Nat
      /\ status \in [SCCs -> {"unborn", "submitted", "running", "ended"}]
      /\ position \in [SCCs -> SCCs] /\ iter \in [SCCs -> Iterations]
      /\ todo \in [SCCs -> SUBSET Queues] /\ value \in [SCCs -> [SCCs -> 0 .. trip + 1]]
      /\ position[s] \in SCCs /\ iter[s] \in Iterations
  BY <1>1, RunningFacts DEF RunTypes
<1>3. trip' = trip /\ Queues' = Queues /\ Iterations' = Iterations
  BY <1>1, FixedFacts
<1>4. After(s) \in [SCCs -> 0 .. trip + 1]
  <2>1. value[s] \in [SCCs -> 0 .. trip + 1] /\ iter[s] \in 0 .. trip + 1
    BY <1>2 DEF Iterations
  <2> QED BY <1>2, <2>1 DEF After
<1>5. value' \in [SCCs -> [SCCs -> 0 .. trip + 1]]
  BY <1>1, <1>2, <1>4
<1>6. CASE Leaves(s)
  BY <1>1, <1>2, <1>3, <1>5, <1>6 DEF RunTypes
<1>7. CASE ~Leaves(s)
  <2>1. PICK m : m = Follow(s, position[s], After(s))
    OBVIOUS
  <2>2. m \in Nat /\ (m <= N => m \in SCCs)
    BY <1>1, <1>7, <2>1, Target DEF Execute
  <2>3. Goto(s, m) /\ UNCHANGED status
    BY <1>1, <1>7, <2>1
  <2>4. (IF m > N THEN Exit ELSE m) \in SCCs
    BY <1>2, <2>2, LoopFacts, RunningFacts, <1>1
  <2>5. position' \in [SCCs -> SCCs]
    BY <1>2, <2>3, <2>4 DEF Goto
  <2>6. todo' \in [SCCs -> SUBSET Queues]
    BY <1>2, <2>3 DEF Goto, PopsAt, popValueQueues
  <2>7. iter[s] + 1 \in Iterations
    <3>1. iter[s] # trip + 1
      BY <1>1, <1>7, LeavesInTheEnd DEF Execute
    <3>2. trip \in Nat /\ iter[s] \in 1 .. trip + 1
      BY <1>2 DEF Iterations
    <3>3. iter[s] + 1 \in 1 .. trip + 1
      BY <3>1, <3>2
    <3> QED BY <3>3 DEF Iterations
  <2>8. iter' \in [SCCs -> Iterations]
    BY <1>2, <2>3, <2>7 DEF Goto
  <2> QED BY <1>2, <1>3, <1>5, <2>3, <2>5, <2>6, <2>8 DEF RunTypes
<1> QED BY <1>6, <1>7

LEMMA ExecuteStage ==
  ASSUME RunInv, SendableConditions(loop), NEW s \in SCCs, Execute(s), UNCHANGED pipelineVars
  PROVE  StageInv(s)'
<1>1. /\ Fixed /\ Running(s) /\ todo[s] = {} /\ value' = [value EXCEPT ![s] = After(s)]
  BY ExecuteIs
<1>2. /\ s \in Stages /\ PipelineInv /\ step = "done" /\ loop \in Loops /\ StageInv(s)
      /\ iter[s] \in Nat /\ trip \in Nat /\ N \in Nat /\ RunTypes /\ position[s] \in SCCs
      /\ iter[s] \in Iterations
  BY <1>1, RunningFacts
<1>3. trip' = trip
  BY <1>1, FixedFacts
<1>4. CASE /\ iter[s] = trip + 1 /\ status'[s] = "ended" /\ iter'[s] = iter[s]
           /\ position'[s] = Exit /\ todo'[s] = {}
  BY <1>3, <1>4 DEF StageInv, Begun, Running
<1>5. ASSUME NEW m \in Nat, m = Follow(s, position[s], After(s)), ~Leaves(s), iter[s] <= trip,
             status'[s] = "running",
             \/ m <= N /\ m \in SCCs /\ position'[s] = m /\ iter'[s] = iter[s]
             \/ m = N + 1 /\ position'[s] = Exit /\ iter'[s] = iter[s] + 1,
             todo'[s] = PopsAt(s, position'[s])
      PROVE  StageInv(s)'
  <2>1. PICK a, k : a = position'[s] /\ k = iter'[s]
    OBVIOUS
  <2>2. k \in Iterations
    BY <1>2, <1>5, <2>1 DEF Iterations
  <2>3. Sequentially(a, k)
    <3>1. CASE m <= N /\ position'[s] = m /\ iter'[s] = iter[s]
      BY <1>1, <1>5, <2>1, <3>1, Target
    <3>2. CASE m = N + 1 /\ position'[s] = Exit /\ iter'[s] = iter[s] + 1
      BY <1>2, <2>1, <3>2, Nesting, LoopFacts DEF Sequentially
    <3> QED BY <1>5, <3>1, <3>2
  <2>4. (Sequentially(position[s], iter[s]) /\ todo[s] \subseteq PopsAt(s, position[s]))'
    <3>1. Sequentially(a, k)' /\ PopsAt(s, a)' = PopsAt(s, a)
      BY <1>1, <2>3, FixedFacts
    <3> QED BY <1>5, <2>1, <3>1 DEF Sequentially, PopsAt
  <2>5. ASSUME NEW p \in Available(s), Sent(s, p, k)' PROVE value'[s][p] = k
    <3>1. \/ Sent(s, p, k)
          \/ p \in Body(s) /\ p = position[s] /\ k = iter[s]
      BY <2>2, <2>5, ExecuteSent
    <3>2. Sent(s, p, k) => k <= iter[s]
      BY <1>2, <2>2, SentInOrder
    <3>3. k = iter[s]
      BY <1>2, <1>5, <2>1, <3>1, <3>2
    <3>4. value'[s] = After(s) /\ value[s] \in [SCCs -> 0 .. trip + 1] /\ p \in SCCs
      BY <1>1, <1>2, AvailableFacts DEF RunTypes
    <3>5. CASE p \in Body(s) /\ p = position[s]
      BY <3>3, <3>4, <3>5 DEF After
    <3>6. CASE ~(p \in Body(s) /\ p = position[s])
      <4>1. value[s][p] = k
        BY <1>1, <1>2, <3>1, <3>3, <3>6 DEF StageInv
      <4> QED BY <1>2, <3>4, <3>6, <4>1 DEF After
    <3> QED BY <3>5, <3>6
  <2>6. (\A p \in Available(s) : Sent(s, p, iter[s]) => value[s][p] = iter[s])'
    <3>1. Available(s)' = Available(s)
      BY <1>1, FixedFacts
    <3> QED BY <2>1, <2>5, <3>1 DEF Sent, Got, Past, Sequentially
  <2> QED BY <1>5, <2>4, <2>6 DEF StageInv, Begun, Running
<1> QED BY <1>4, <1>5, ExecuteMoves

LEMMA ExecuteExecuted ==
  ASSUME RunInv, SendableConditions(loop), NEW s \in SCCs, Execute(s), UNCHANGED pipelineVars
  PROVE  ExecutedInv'
<1>1. /\ Fixed /\ Running(s)
      /\ executed' = IF position[s] \in stageSCCs(s)
                     THEN executed \cup {<<position[s], iter[s]>>} ELSE executed
  BY ExecuteIs
<1>2. /\ s \in Stages /\ PipelineInv /\ step = "done" /\ loop \in Loops /\ ExecutedInv
      /\ iter[s] \in Iterations
  BY <1>1, RunningFacts
<1>3. /\ Iterations' = Iterations /\ loop' = loop /\ sccToStage' = sccToStage
  BY <1>1, FixedFacts
<1>4. /\ DOMAIN sccToStage = Partitioned(loop)
      /\ \A n \in Partitioned(loop) : sccToStage[n] \in SCCs
      /\ stageSCCs(s) \subseteq Relevant(s)
  BY <1>2, StageFacts, AvailableFacts, RelevantFacts
<1>5. ASSUME NEW n \in Partitioned(loop), NEW k \in Iterations
      PROVE  Past(sccToStage[n], n, k)' <=> \/ Past(sccToStage[n], n, k)
                                           \/ /\ position[s] \in stageSCCs(s)
                                              /\ n = position[s] /\ k = iter[s]
  <2>1. PICK t \in SCCs : t = sccToStage[n]
    BY <1>4
  <2>2. Past(sccToStage[n], n, k)' <=> Past(t, n, k)'
    BY <1>3, <2>1 DEF Past, Sequentially, Begun
  <2>3. CASE t = s
    <3>1. n \in stageSCCs(s) /\ n \in Relevant(s)
      BY <1>4, <2>1, <2>3 DEF stageSCCs
    <3>2. Past(s, n, k)' <=> Past(s, n, k) \/ (n = position[s] /\ k = iter[s])
      BY <3>1, ExecutePast
    <3> QED BY <2>1, <2>2, <2>3, <3>1, <3>2
  <2>4. CASE t # s
    <3>1. Past(t, n, k)' <=> Past(t, n, k)
      BY <1>1, <2>4, ExecuteOthers, StaysFacts
    <3>2. n \notin stageSCCs(s)
      BY <2>1, <2>4 DEF stageSCCs
    <3> QED BY <2>1, <2>2, <3>1, <3>2
  <2> QED BY <2>3, <2>4
<1>6. stageSCCs(s) \subseteq Partitioned(loop)
  BY <1>4 DEF stageSCCs
<1> DEFINE X == Partitioned(loop) \X Iterations
           Was(x) == Past(sccToStage[x[1]], x[1], x[2])
           New(x) == position[s] \in stageSCCs(s) /\ x = <<position[s], iter[s]>>
<1>7. ASSUME NEW x \in X PROVE Was(x)' <=> (Was(x) \/ New(x))
  <2>1. PICK n \in Partitioned(loop), k \in Iterations : x = <<n, k>>
    OBVIOUS
  <2>2. Was(x) <=> Past(sccToStage[n], n, k)
    BY <2>1
  <2>3. Was(x)' <=> Past(sccToStage[n], n, k)'
    BY <2>1
  <2>4. New(x) <=> /\ position[s] \in stageSCCs(s)
                   /\ n = position[s] /\ k = iter[s]
    BY <2>1
  <2> QED BY <1>5, <2>2, <2>3, <2>4
<1>8. executed = {x \in X : Was(x)}
  BY <1>2 DEF ExecutedInv
<1>9. executed' = {x \in X : Was(x) \/ New(x)}
  <2>1. position[s] \in stageSCCs(s) => <<position[s], iter[s]>> \in X
    BY <1>2, <1>6
  <2> HIDE DEF X, Was
  <2> QED BY <1>1, <1>8, <2>1
<1>10. executed' = {x \in X : Was(x)'}
  <2> HIDE DEF X, Was, New
  <2> QED BY <1>7, <1>9
<1>11. X' = X
  BY <1>3
<1> QED BY <1>10, <1>11 DEF ExecutedInv

LEMMA ExecuteDispatch ==
  ASSUME RunInv, SendableConditions(loop), NEW s \in SCCs, Execute(s), UNCHANGED pipelineVars
  PROVE  DispatchInv'
<1>1. Fixed /\ Running(s) /\ UNCHANGED <<pc, i, pool>>
  BY ExecuteIs
<1>2. DispatchInv /\ s \in Stages /\ Stages \subseteq SCCs
  BY <1>1, RunningFacts, StageFacts
<1>3. Stages' = Stages
  BY <1>1, FixedFacts
<1>4. \A t \in SCCs : t # s => status'[t] = status[t]
  BY ExecuteOthers
<1>5. status[s] = "running" /\ status'[s] \in {"running", "ended"}
  BY <1>1, ExecuteMoves DEF Running
<1>6. \A j \in 1 .. Len(pool) : pool[j] \in SCCs /\ pool[j] # s /\ status[pool[j]] = "submitted"
  BY <1>2, <1>5 DEF DispatchInv
<1>7. \A j \in 1 .. Len(pool') : status'[pool'[j]] = "submitted"
  BY <1>1, <1>4, <1>6
<1>8. \A t \in SCCs : (status'[t] # "unborn" <=> status[t] # "unborn")
                       /\ (status[t] = "ended" => status'[t] = "ended")
  BY <1>4, <1>5
<1> QED BY <1>1, <1>2, <1>3, <1>7, <1>8 DEF DispatchInv

-----------------------------------------------------------------------------
(* The invariant after a pop.                                              *)

\* The step, with the queue and the value it pops.
LEMMA PopIs ==
  ASSUME RunInv, NEW s \in SCCs, Pop(s), UNCHANGED pipelineVars
  PROVE  /\ Fixed /\ Running(s)
         /\ UNCHANGED <<pc, i, pool, status, position, iter, executed>>
         /\ \E q \in todo[s] :
              /\ contents[q] # <<>> /\ todo' = [todo EXCEPT ![s] = @ \ {q}]
              /\ LET rest == [contents EXCEPT ![q] = Tail(contents[q])]
                 IN  IF ~Sent(s, q.producer, iter[s])
                     THEN /\ value' = [value EXCEPT ![s][q.producer] = iter[s]]
                          /\ contents' = Pushed(s, q.producer, iter[s], rest)
                     ELSE contents' = rest /\ UNCHANGED value
<1>1. Fixed /\ Running(s) /\ UNCHANGED <<pc, i, pool, status, position, iter, executed>>
  BY DEF Pop, Fixed
<1>2. PICK q \in todo[s] :
        /\ contents[q] # <<>> /\ todo' = [todo EXCEPT ![s] = @ \ {q}]
        /\ LET v == Head(contents[q])
               rest == [contents EXCEPT ![q] = Tail(contents[q])]
           IN  IF \A r \in PopsAt(s, position[s]) \ todo[s] : r.producer # q.producer
               THEN /\ value' = [value EXCEPT ![s][q.producer] = v]
                    /\ contents' = Pushed(s, q.producer, v, rest)
               ELSE contents' = rest /\ UNCHANGED value
  BY DEF Pop
<1>3. Head(contents[q]) = iter[s]
  BY <1>1, <1>2, PopsRightValue
<1>4. Sent(s, q.producer, iter[s]) <=>
        ~ \A r \in PopsAt(s, position[s]) \ todo[s] : r.producer # q.producer
  BY <1>1, <1>2, PopProgress
<1> QED BY <1>1, <1>2, <1>3, <1>4

LEMMA PopInv ==
  ASSUME RunInv, NEW s \in SCCs, Pop(s), UNCHANGED pipelineVars
  PROVE  /\ RunTypes' /\ DispatchInv' /\ (\A t \in SCCs : StageInv(t)')
         /\ QueueInv' /\ ExecutedInv'
<1>1. /\ Fixed /\ Running(s)
      /\ UNCHANGED <<pc, i, pool, status, position, iter, executed>>
  BY PopIs
<1>2. PICK q \in todo[s] :
        /\ contents[q] # <<>> /\ todo' = [todo EXCEPT ![s] = @ \ {q}]
        /\ LET rest == [contents EXCEPT ![q] = Tail(contents[q])]
           IN  IF ~Sent(s, q.producer, iter[s])
               THEN /\ value' = [value EXCEPT ![s][q.producer] = iter[s]]
                    /\ contents' = Pushed(s, q.producer, iter[s], rest)
               ELSE contents' = rest /\ UNCHANGED value
  BY PopIs
<1>3. /\ s \in Stages /\ PipelineInv /\ step = "done" /\ loop \in Loops /\ RunTypes
      /\ DispatchInv /\ StageInv(s) /\ QueueInv /\ ExecutedInv /\ pc # "returned"
      /\ pc # "compile" /\ iter[s] \in Iterations /\ iter[s] \in Nat /\ trip \in Nat
      /\ Stages \subseteq SCCs
  BY <1>1, RunningFacts, StageFacts
<1>4. /\ q \in Queues /\ q.to = s /\ q \in PopsAt(s, position[s])
      /\ ~Got(q, iter[s]) /\ Sent(q.from, q.producer, iter[s])
      /\ Carries(Tail(contents[q]), InFlight(q) \ {iter[s]})
  BY <1>1, <1>2, PopsRightValue
<1>5. /\ \A t, n, k : Past(t, n, k)' <=> Past(t, n, k)
      /\ \A r, k : r.to = s => (Got(r, k)' <=> (Got(r, k) \/ (r = q /\ k = iter[s])))
      /\ \A p, k : Sent(s, p, k)' <=> (Sent(s, p, k) \/ (p = q.producer /\ k = iter[s]))
  BY <1>1, <1>2, PopProgress
<1>6. /\ Queues' = Queues /\ Iterations' = Iterations /\ Stages' = Stages /\ trip' = trip
      /\ loop' = loop /\ sccToStage' = sccToStage
  BY <1>1, FixedFacts
<1>7. q.producer \in SCCs /\ q.from # s /\ q.producer \in Available(s)
  <2>1. q.from < q.to /\ q.from \in Stages
    BY <1>3, <1>4, PipelineInvImpliesForward, QueueFacts DEF QueuesGoForward
  <2>2. SCCs \subseteq Nat
    BY <1>1, RunningFacts
  <2> QED BY <1>3, <1>4, <2>1, <2>2, QueueFacts
<1>8. /\ todo \in [SCCs -> SUBSET Queues] /\ value \in [SCCs -> [SCCs -> 0 .. trip + 1]]
      /\ iter[s] \in 0 .. trip + 1
  BY <1>3 DEF RunTypes, Iterations
<1>9. todo' \in [SCCs -> SUBSET Queues] /\ value' \in [SCCs -> [SCCs -> 0 .. trip + 1]]
  <2>1. todo' \in [SCCs -> SUBSET Queues]
    BY <1>2, <1>8
  <2>2. CASE value' = [value EXCEPT ![s][q.producer] = iter[s]]
    <3>1. value[s] \in [SCCs -> 0 .. trip + 1]
      BY <1>8
    <3>2. [value[s] EXCEPT ![q.producer] = iter[s]] \in [SCCs -> 0 .. trip + 1]
      BY <1>7, <1>8, <3>1
    <3>3. value' = [value EXCEPT ![s] = [value[s] EXCEPT ![q.producer] = iter[s]]]
      BY <2>2
    <3>4. value' \in [SCCs -> [SCCs -> 0 .. trip + 1]]
      BY <1>8, <3>2, <3>3
    <3> QED BY <2>1, <3>4
  <2>3. CASE UNCHANGED value
    BY <1>8, <2>1, <2>3
  <2> QED BY <1>2, <2>2, <2>3
<1>10. RunTypes'
  BY <1>1, <1>3, <1>6, <1>9 DEF RunTypes
<1>11. DispatchInv'
  BY <1>1, <1>3, <1>6 DEF DispatchInv
<1>12. ExecutedInv'
  BY <1>1, <1>3, <1>5, <1>6 DEF ExecutedInv
<1>13. ASSUME NEW t \in SCCs, t # s PROVE Stays(t) /\ value'[t] = value[t]
  BY <1>1, <1>2, <1>8, <1>13 DEF Stays, Running
<1>14. StageInv(s)'
  <2>1. Sequentially(position[s], iter[s])' /\ (todo[s] \subseteq PopsAt(s, position[s]))'
    <3>1. PICK a, k : a = position[s] /\ k = iter[s]
      OBVIOUS
    <3>2. Sequentially(a, k) /\ todo[s] \subseteq PopsAt(s, a)
      BY <1>1, <1>3, <3>1 DEF StageInv
    <3>3. Sequentially(a, k)' /\ todo'[s] \subseteq PopsAt(s, a)'
      BY <1>1, <1>2, <1>8, <3>2, FixedFacts
    <3> QED BY <1>1, <3>1, <3>3 DEF Sequentially, PopsAt
  <2>2. ASSUME NEW p \in Available(s), Sent(s, p, iter[s])' PROVE value'[s][p] = iter[s]
    <3>1. Sent(s, p, iter[s]) \/ p = q.producer
      <4>1. PICK k : k = iter[s]
        OBVIOUS
      <4>2. Sent(s, p, k)'
        BY <1>1, <2>2, <4>1 DEF Sent, Got, Past, Sequentially
      <4> QED BY <1>5, <4>1, <4>2
    <3>2. Sent(s, p, iter[s]) => value[s][p] = iter[s]
      BY <1>1, <1>3 DEF StageInv
    <3>3. p \in SCCs
      BY <1>3, AvailableFacts
    <3> QED BY <1>2, <1>7, <1>8, <3>1, <3>2, <3>3
  <2>3. Available(s)' = Available(s) /\ iter'[s] = iter[s] /\ Running(s)' /\ Begun(s)'
    BY <1>1, FixedFacts DEF Running, Begun
  <2> QED BY <2>1, <2>2, <2>3 DEF StageInv, Running
<1>15. \A t \in SCCs : StageInv(t)'
  <2>1. \A t \in SCCs : StageInv(t)
    BY <1>3 DEF RunInv
  <2> QED BY <1>1, <1>13, <1>14, <2>1, StaysStageInv
<1>16. ASSUME NEW r \in Queues, NEW k \in Iterations
       PROVE  Got(r, k)' <=> (Got(r, k) \/ (r = q /\ k = iter[s]))
  <2>1. CASE r.to = s
    BY <1>5, <2>1
  <2>2. CASE r.to # s
    <3>1. r.to \in SCCs
      BY <1>3, QueueFacts
    <3> QED BY <1>1, <1>4, <1>13, <2>2, <3>1, StaysFacts
  <2> QED BY <2>1, <2>2
<1>17. ASSUME NEW r \in Queues, NEW k \in Iterations
       PROVE  Sent(r.from, r.producer, k)' <=>
                \/ Sent(r.from, r.producer, k)
                \/ r.from = s /\ r.producer = q.producer /\ k = iter[s]
  <2>1. CASE r.from = s
    BY <1>5, <2>1
  <2>2. CASE r.from # s
    <3>1. r.from \in SCCs
      BY <1>3, QueueFacts
    <3>2. \A p : Sent(r.from, p, k)' <=> Sent(r.from, p, k)
      BY <1>1, <1>13, <2>2, <3>1, StaysFacts
    <3> QED BY <2>2, <3>2
  <2> QED BY <2>1, <2>2
<1> DEFINE New(r) == ~Sent(s, q.producer, iter[s]) /\ r.from = s /\ r.producer = q.producer
<1>18. DOMAIN contents' = Queues /\ \A r \in Queues :
         contents'[r] = IF r = q THEN Tail(contents[q])
                        ELSE IF New(r) THEN Append(contents[r], iter[s]) ELSE contents[r]
  <2>1. DOMAIN contents = Queues
    BY <1>3 DEF QueueInv
  <2> DEFINE rest == [contents EXCEPT ![q] = Tail(contents[q])]
  <2>2. DOMAIN rest = Queues /\ \A r \in Queues :
          rest[r] = IF r = q THEN Tail(contents[q]) ELSE contents[r]
    BY <2>1
  <2> HIDE DEF rest
  <2>3. contents' = IF ~Sent(s, q.producer, iter[s])
                    THEN Pushed(s, q.producer, iter[s], rest) ELSE rest
    BY <1>2 DEF rest
  <2> QED BY <1>4, <1>7, <2>2, <2>3 DEF Pushed
<1>19. ASSUME NEW r \in Queues PROVE Carries(contents'[r], InFlight(r)')
  <2>1. CASE r = q
    <3>1. InFlight(q)' = InFlight(q) \ {iter[s]}
      <4>1. \A k \in Iterations : Sent(q.from, q.producer, k)' <=> Sent(q.from, q.producer, k)
        BY <1>4, <1>7, <1>17
      <4>2. \A k \in Iterations : Got(q, k)' <=> (Got(q, k) \/ k = iter[s])
        BY <1>4, <1>16
      <4> QED BY <1>6, <4>1, <4>2 DEF InFlight
    <3> QED BY <1>4, <1>18, <2>1, <3>1
  <2>2. CASE r # q /\ New(r)
    <3>1. \A k \in Iterations :
            Sent(s, r.producer, k)' <=> (Sent(s, r.producer, k) \/ k = iter[s])
      BY <1>5, <2>2
    <3>2. \A k \in Iterations : Got(r, k)' <=> Got(r, k)
      BY <1>16, <2>2
    <3>3. Carries(Append(contents[r], iter[s]), InFlight(r)')
      BY <1>1, <2>2, <3>1, <3>2, PushCarries
    <3> QED BY <1>18, <2>2, <3>3
  <2>3. CASE r # q /\ ~New(r)
    <3>1. \A k \in Iterations : Sent(r.from, r.producer, k)' <=> Sent(r.from, r.producer, k)
      BY <1>17, <2>3
    <3>2. \A k \in Iterations : Got(r, k)' <=> Got(r, k)
      BY <1>16, <2>3
    <3>3. InFlight(r)' = InFlight(r)
      BY <1>1, <3>1, <3>2, SameInFlight
    <3> QED BY <1>3, <1>18, <2>3, <3>3 DEF QueueInv
  <2> QED BY <2>1, <2>2, <2>3
<1>20. ASSUME NEW r \in Queues, NEW k \in Iterations, Got(r, k)'
       PROVE  Sent(r.from, r.producer, k)'
  BY <1>3, <1>4, <1>16, <1>17, <1>20 DEF QueueInv
<1>21. QueueInv'
  <2> HIDE DEF New
  <2> QED BY <1>6, <1>18, <1>19, <1>20 DEF QueueInv
<1> QED BY <1>10, <1>11, <1>12, <1>15, <1>21

-----------------------------------------------------------------------------
(* The dispatcher and the workers: no task makes progress.                 *)

LEMMA NotBegun ==
  ASSUME NEW s, ~Begun(s)
  PROVE  /\ \A n, k : ~Past(s, n, k)
         /\ \A q, k : q.to = s => ~Got(q, k)
         /\ \A p, k : ~Sent(s, p, k)
<1>1. \A n, k : ~Past(s, n, k)
  BY DEF Past
<1>2. \A q, k : q.to = s => ~Got(q, k)
  BY <1>1 DEF Got, Begun, Running
<1>3. \A p, k : ~Sent(s, p, k)
  BY <1>1, <1>2 DEF Sent, popValueQueues
<1> QED BY <1>1, <1>2, <1>3

\* No value is produced, pushed or popped.
NoProgress ==
  \A s \in SCCs : \A k \in Iterations :
    /\ \A n \in SCCs : Past(s, n, k)' <=> Past(s, n, k)
    /\ \A q \in Queues : q.to = s => (Got(q, k)' <=> Got(q, k))
    /\ \A p \in SCCs : Sent(s, p, k)' <=> Sent(s, p, k)

\* The first part of QueueInv.
PoppedAfterPushed ==
  \A q \in Queues : \A k \in Iterations : Got(q, k) => Sent(q.from, q.producer, k)

LEMMA NoProgressFacts ==
  ASSUME Fixed, PipelineInv, step = "done", NoProgress
  PROVE  /\ \A q \in Queues : InFlight(q)' = InFlight(q)
         /\ PoppedAfterPushed => PoppedAfterPushed'
         /\ ExecutedInv /\ UNCHANGED executed => ExecutedInv'
<1>1. \A q \in Queues : q.producer \in SCCs /\ q.from \in SCCs /\ q.to \in SCCs
  BY QueueFacts, StageFacts
<1>2. \A q \in Queues : \A k \in Iterations :
        /\ Got(q, k)' <=> Got(q, k)
        /\ Sent(q.from, q.producer, k)' <=> Sent(q.from, q.producer, k)
  BY <1>1 DEF NoProgress
<1>3. \A q \in Queues : InFlight(q)' = InFlight(q)
  BY <1>2, SameInFlight
<1>4. Queues' = Queues /\ Iterations' = Iterations /\ loop' = loop /\ sccToStage' = sccToStage
  BY FixedFacts
<1>5. PoppedAfterPushed => PoppedAfterPushed'
  BY <1>2, <1>4 DEF PoppedAfterPushed
<1>6. ASSUME ExecutedInv, UNCHANGED executed PROVE ExecutedInv'
  <2>1. \A n \in Partitioned(loop) : n \in SCCs /\ sccToStage[n] \in SCCs
    BY StageFacts
  <2>2. ASSUME NEW n \in Partitioned(loop), NEW k \in Iterations
        PROVE  Past(sccToStage[n], n, k)' <=> Past(sccToStage[n], n, k)
    <3>1. PICK t \in SCCs : t = sccToStage[n] /\ t = sccToStage'[n]
      BY <1>4, <2>1
    <3>2. Past(t, n, k)' <=> Past(t, n, k)
      BY <2>1, <3>1 DEF NoProgress
    <3> QED BY <3>1, <3>2 DEF Past, Sequentially, Begun
  <2> DEFINE X == Partitioned(loop) \X Iterations
             Was(x) == Past(sccToStage[x[1]], x[1], x[2])
  <2>3. ASSUME NEW x \in X PROVE Was(x)' <=> Was(x)
    BY <2>2
  <2>4. X' = X
    BY <1>4
  <2>5. executed = {x \in X : Was(x)}
    BY <1>6 DEF ExecutedInv
  <2>6. executed' = {x \in X : Was(x)'}
    <3> HIDE DEF X, Was
    <3> QED BY <1>6, <2>3, <2>5
  <2> QED BY <2>4, <2>6 DEF ExecutedInv
<1> QED BY <1>3, <1>5, <1>6

LEMMA AllStay ==
  ASSUME Fixed, UNCHANGED value, \A s \in SCCs : Stays(s), \A s \in SCCs : StageInv(s)
  PROVE  NoProgress /\ \A s \in SCCs : StageInv(s)'
BY StaysFacts, StaysStageInv DEF NoProgress

\* The parts of the invariant that a quiet step of the run leaves alone.
LEMMA QuietStep ==
  ASSUME RunInv, pc # "compile", Fixed, NoProgress, UNCHANGED executed,
         pc' # "returned" => pc # "returned" /\ UNCHANGED contents
  PROVE  QueueInv' /\ ExecutedInv'
<1>1. PipelineInv /\ step = "done" /\ QueueInv /\ ExecutedInv
  BY DEF RunInv
<1>2. Queues' = Queues
  BY FixedFacts
<1>3. PoppedAfterPushed'
  BY <1>1, NoProgressFacts DEF QueueInv, PoppedAfterPushed
<1>4. ASSUME pc' # "returned"
      PROVE  /\ DOMAIN contents' = Queues'
             /\ \A q \in Queues : Carries(contents'[q], InFlight(q)')
  BY <1>1, <1>2, <1>4, NoProgressFacts DEF QueueInv
<1> QED BY <1>1, <1>2, <1>3, <1>4, NoProgressFacts DEF QueueInv, PoppedAfterPushed

LEMMA DispatchStep ==
  ASSUME RunInv, Dispatch, UNCHANGED pipelineVars
  PROVE  RunInv'
<1>1. /\ step = "done" /\ pc = "compile" /\ loop \in RunLoops /\ pc' = "submit"
      /\ contents' = [q \in Queues |-> <<>>]
      /\ UNCHANGED <<i, pool, status, position, iter, todo, value, executed>>
      /\ Fixed
  BY DEF Dispatch, Fixed
<1>2. PipelineInv /\ RunTypes /\ Idle
  BY <1>1 DEF RunInv
<1>3. \A s \in SCCs : Stays(s)
  BY <1>1 DEF Stays, Running
<1>4. \A s \in SCCs : /\ ~Begun(s) /\ status[s] = "unborn" /\ position[s] = Exit
                      /\ iter[s] = 1 /\ todo[s] = {}
  BY <1>2 DEF Idle, Begun
<1>5. \A s \in SCCs : StageInv(s)
  BY <1>4 DEF StageInv, Running
<1>6. NoProgress /\ \A s \in SCCs : StageInv(s)'
  BY <1>1, <1>3, <1>5, AllStay
<1>7. \A q \in Queues : q.producer \in SCCs /\ q.from \in SCCs /\ q.to \in SCCs
  BY <1>1, <1>2, QueueFacts, StageFacts
<1>8. PoppedAfterPushed /\ \A q \in Queues : InFlight(q) = {}
  BY <1>4, <1>7, NotBegun DEF PoppedAfterPushed, InFlight
<1>9. ExecutedInv
  <2>1. ASSUME NEW x \in Partitioned(loop) \X Iterations
        PROVE  ~Past(sccToStage[x[1]], x[1], x[2])
    BY <1>1, <1>2, <1>4, NotBegun, StageFacts
  <2> QED BY <1>2, <2>1 DEF ExecutedInv, Idle
<1>10. Queues' = Queues /\ Stages' = Stages /\ Iterations' = Iterations /\ trip' = trip
  BY <1>1, FixedFacts
<1>11. QueueInv'
  <2>1. PoppedAfterPushed'
    BY <1>1, <1>2, <1>6, <1>8, NoProgressFacts
  <2>2. ASSUME NEW q \in Queues PROVE Carries(contents'[q], InFlight(q)')
    BY <1>1, <1>2, <1>6, <1>8, CarriesNothing, NoProgressFacts
  <2>3. DOMAIN contents' = Queues
    BY <1>1
  <2> QED BY <1>10, <2>1, <2>2, <2>3 DEF QueueInv, PoppedAfterPushed
<1>12. ExecutedInv'
  BY <1>1, <1>2, <1>6, <1>9, NoProgressFacts
<1>13. DispatchInv'
  <2>1. PICK k \in SCCs : Stages = 1 .. k
    BY <1>1, <1>2, StagesAre
  <2>2. k \in Nat /\ 1 <= k
    BY <1>2, LoopFacts DEF PipelineInv, SCCs
  <2>3. i = 1 /\ pool = <<>> /\ i \in Stages /\ \A s \in Stages : ~(s < i)
    BY <1>2, <2>1, <2>2 DEF Idle
  <2> QED BY <1>1, <1>4, <1>10, <2>3 DEF DispatchInv
<1>14. RunTypes'
  BY <1>1, <1>2, <1>10 DEF RunTypes
<1>15. PipelineInv' /\ step' = "done" /\ loop' \in RunLoops
  BY <1>1, <1>2, PipelineInvNext, FixedFacts
<1> QED BY <1>1, <1>6, <1>11, <1>12, <1>13, <1>14, <1>15 DEF RunInv

LEMMA SubmitStep ==
  ASSUME RunInv, Submit, UNCHANGED pipelineVars
  PROVE  RunInv'
<1>1. /\ pc = "submit" /\ pool' = Append(pool, i)
      /\ status' = [status EXCEPT ![i] = "submitted"]
      /\ IF i = Cardinality(Stages) THEN pc' = "join" /\ i' = 1 ELSE pc' = pc /\ i' = i + 1
      /\ UNCHANGED <<position, iter, todo, value, contents, executed>> /\ Fixed
  BY DEF Submit, Fixed
<1>2. /\ PipelineInv /\ RunTypes /\ step = "done" /\ loop \in RunLoops /\ loop \in Loops
      /\ DispatchInv /\ \A s \in SCCs : StageInv(s)
  BY <1>1 DEF RunInv, PipelineInv
<1>3. PICK k \in SCCs : Stages = 1 .. k /\ Cardinality(Stages) = k
  BY <1>2, StagesAre
<1>4. k \in Nat /\ 1 <= k /\ i \in Stages /\ i \in SCCs /\ i \in Nat /\ 1 <= i /\ i <= k
      /\ Stages \subseteq SCCs /\ SCCs \subseteq Nat
  <2>1. N \in Nat /\ Stages \subseteq SCCs /\ SCCs \subseteq Nat
    BY <1>2, StageFacts, LoopFacts
  <2>2. i \in Stages
    BY <1>2 DEF DispatchInv
  <2> QED BY <1>3, <2>1, <2>2 DEF SCCs
<1>5. /\ status \in [SCCs -> {"unborn", "submitted", "running", "ended"}]
      /\ status[i] = "unborn"
  BY <1>1, <1>2, <1>4 DEF DispatchInv, RunTypes
<1>6. \A s \in SCCs : Stays(s)
  BY <1>1, <1>5 DEF Stays, Running
<1>7. NoProgress /\ \A s \in SCCs : StageInv(s)'
  BY <1>1, <1>2, <1>6, AllStay
<1>8. QueueInv' /\ ExecutedInv'
  BY <1>1, <1>7, QuietStep
<1>9. Stages' = Stages /\ Iterations' = Iterations /\ trip' = trip /\ Queues' = Queues
  BY <1>1, FixedFacts
<1>10. RunTypes'
  BY <1>1, <1>2, <1>4, <1>5, <1>9 DEF RunTypes
<1>11. /\ status'[i] = "submitted" /\ \A s \in SCCs : s # i => status'[s] = status[s]
  BY <1>4, <1>5, <1>1
<1>12. DispatchInv'
  <2>1. /\ pool \in Seq(Stages) /\ \A j \in 1 .. Len(pool) : status[pool[j]] = "submitted"
        /\ \A j, m \in 1 .. Len(pool) : pool[j] = pool[m] => j = m
        /\ \A s \in SCCs : status[s] # "unborn" <=> (s \in Stages /\ s < i)
    BY <1>1, <1>2 DEF DispatchInv
  <2>2. \A j \in 1 .. Len(pool) : pool[j] \in SCCs /\ pool[j] # i
    <3>1. \A j \in 1 .. Len(pool) : pool[j] \in Stages
      BY <2>1
    <3> QED BY <1>4, <1>5, <2>1, <3>1
  <2>3. /\ pool' \in Seq(Stages) /\ Len(pool') = Len(pool) + 1 /\ Len(pool) \in Nat
        /\ pool'[Len(pool) + 1] = i /\ \A j \in 1 .. Len(pool) : pool'[j] = pool[j]
    BY <1>1, <1>4, <2>1
  <2>4. \A j \in 1 .. Len(pool') : j \in 1 .. Len(pool) \/ j = Len(pool) + 1
    BY <2>3
  <2>5. \A j \in 1 .. Len(pool') : status'[pool'[j]] = "submitted"
    BY <1>11, <2>1, <2>2, <2>3, <2>4
  <2>6. \A j, m \in 1 .. Len(pool') : pool'[j] = pool'[m] => j = m
    BY <2>1, <2>2, <2>3, <2>4
  <2>7. CASE i = k
    <3>1. pc' = "join" /\ i' = 1 /\ 1 \in Stages
      BY <1>1, <1>3, <1>4, <2>7
    <3>2. \A s \in Stages : s \in SCCs /\ (s = i \/ s < i) /\ ~(s < 1)
      BY <1>3, <1>4, <2>7
    <3>3. \A s \in SCCs : status'[s] # "unborn" <=> s \in Stages
      BY <1>4, <1>11, <2>1, <3>2
    <3> QED BY <1>9, <2>3, <2>5, <2>6, <3>1, <3>2, <3>3 DEF DispatchInv
  <2>8. CASE i # k
    <3>1. pc' = "submit" /\ i' = i + 1 /\ i + 1 \in Stages
      BY <1>1, <1>3, <1>4, <2>8
    <3>2. \A s \in SCCs : s < i + 1 <=> (s = i \/ s < i)
      BY <1>4
    <3>3. \A s \in SCCs : status'[s] # "unborn" <=> (s \in Stages /\ s < i + 1)
      BY <1>4, <1>11, <2>1, <3>2
    <3> QED BY <1>9, <2>3, <2>5, <2>6, <3>1, <3>3 DEF DispatchInv
  <2> QED BY <2>7, <2>8
<1>13. PipelineInv' /\ step' = "done" /\ loop' \in RunLoops /\ pc' # "compile"
  BY <1>1, <1>2, PipelineInvNext, FixedFacts
<1> QED BY <1>7, <1>8, <1>10, <1>12, <1>13 DEF RunInv

LEMMA JoinStep ==
  ASSUME RunInv, Join, UNCHANGED pipelineVars
  PROVE  RunInv'
<1>1. /\ pc = "join" /\ status[i] = "ended"
      /\ IF i = Cardinality(Stages) THEN pc' = "free" /\ i' = i ELSE pc' = pc /\ i' = i + 1
      /\ UNCHANGED <<pool, status, position, iter, todo, value, contents, executed>> /\ Fixed
  BY DEF Join, Fixed
<1>2. /\ PipelineInv /\ RunTypes /\ step = "done" /\ loop \in RunLoops /\ loop \in Loops
      /\ DispatchInv /\ \A s \in SCCs : StageInv(s)
  BY <1>1 DEF RunInv, PipelineInv
<1>3. PICK k \in SCCs : Stages = 1 .. k /\ Cardinality(Stages) = k
  BY <1>2, StagesAre
<1>4. k \in Nat /\ i \in Stages /\ i \in Nat /\ 1 <= i /\ i <= k
  <2>1. N \in Nat
    BY <1>2, LoopFacts
  <2>2. i \in Stages
    BY <1>2 DEF DispatchInv
  <2> QED BY <1>3, <2>1, <2>2 DEF SCCs
<1>5. \A s \in SCCs : Stays(s)
  BY <1>1 DEF Stays, Running
<1>6. NoProgress /\ \A s \in SCCs : StageInv(s)'
  BY <1>1, <1>2, <1>5, AllStay
<1>7. QueueInv' /\ ExecutedInv'
  BY <1>1, <1>6, QuietStep
<1>8. Stages' = Stages /\ Iterations' = Iterations /\ trip' = trip /\ Queues' = Queues
  BY <1>1, FixedFacts
<1>9. RunTypes'
  BY <1>1, <1>2, <1>8 DEF RunTypes
<1>10. DispatchInv'
  <2>1. \A s \in Stages : s < i => status[s] = "ended"
    BY <1>1, <1>2 DEF DispatchInv
  <2>2. CASE i = k
    <3>1. \A s \in Stages : s < i \/ s = i
      BY <1>3, <1>4, <2>2
    <3>2. pc' = "free" /\ i' = i
      BY <1>1, <1>3, <2>2
    <3> QED BY <1>1, <1>2, <1>8, <2>1, <3>1, <3>2 DEF DispatchInv
  <2>3. CASE i # k
    <3>1. pc' = "join" /\ i' = i + 1 /\ i + 1 \in Stages
      BY <1>1, <1>3, <1>4, <2>3
    <3>2. \A s \in Stages : s < i + 1 => (s < i \/ s = i)
      BY <1>3, <1>4
    <3> QED BY <1>1, <1>2, <1>8, <2>1, <3>1, <3>2 DEF DispatchInv
  <2> QED BY <2>2, <2>3
<1>11. PipelineInv' /\ step' = "done" /\ loop' \in RunLoops /\ pc' # "compile"
  BY <1>1, <1>2, PipelineInvNext, FixedFacts
<1> QED BY <1>6, <1>7, <1>9, <1>10, <1>11 DEF RunInv

LEMMA FreeQueuesStep ==
  ASSUME RunInv, FreeQueues, UNCHANGED pipelineVars
  PROVE  RunInv'
<1>1. /\ pc = "free" /\ pc' = "returned"
      /\ UNCHANGED <<i, pool, status, position, iter, todo, value, executed>> /\ Fixed
  BY DEF FreeQueues, Fixed
<1>2. /\ PipelineInv /\ RunTypes /\ step = "done" /\ loop \in RunLoops
      /\ DispatchInv /\ \A s \in SCCs : StageInv(s)
  BY <1>1 DEF RunInv
<1>3. \A s \in SCCs : Stays(s)
  BY <1>1 DEF Stays, Running
<1>4. NoProgress /\ \A s \in SCCs : StageInv(s)'
  BY <1>1, <1>2, <1>3, AllStay
<1>5. QueueInv' /\ ExecutedInv'
  BY <1>1, <1>4, QuietStep
<1>6. Stages' = Stages /\ Iterations' = Iterations /\ trip' = trip /\ Queues' = Queues
  BY <1>1, FixedFacts
<1>7. RunTypes'
  BY <1>1, <1>2, <1>6 DEF RunTypes
<1>8. DispatchInv'
  BY <1>1, <1>2, <1>6 DEF DispatchInv
<1>9. PipelineInv' /\ step' = "done" /\ loop' \in RunLoops /\ pc' # "compile"
  BY <1>1, <1>2, PipelineInvNext, FixedFacts
<1> QED BY <1>4, <1>5, <1>7, <1>8, <1>9 DEF RunInv

LEMMA StartStep ==
  ASSUME RunInv, Start, UNCHANGED pipelineVars
  PROVE  RunInv'
<1>1. /\ pool # <<>> /\ pool' = Tail(pool)
      /\ status' = [status EXCEPT ![Head(pool)] = "running"]
      /\ todo' = [todo EXCEPT ![Head(pool)] = PopsAt(Head(pool), Exit)]
      /\ UNCHANGED <<pc, i, position, iter, value, contents, executed>> /\ Fixed
  BY DEF Start, Fixed
<1>2. pc # "compile"
  BY <1>1 DEF RunInv, Idle
<1>3. /\ PipelineInv /\ RunTypes /\ step = "done" /\ loop \in RunLoops /\ loop \in Loops
      /\ DispatchInv /\ \A s \in SCCs : StageInv(s)
  BY <1>2 DEF RunInv, PipelineInv
<1>4. /\ pool \in Seq(Stages) /\ \A j \in 1 .. Len(pool) : status[pool[j]] = "submitted"
      /\ \A j, m \in 1 .. Len(pool) : pool[j] = pool[m] => j = m
  BY <1>3 DEF DispatchInv
<1>5. /\ Len(pool) \in Nat /\ 1 \in 1 .. Len(pool) /\ Head(pool) = pool[1]
      /\ Tail(pool) \in Seq(Stages) /\ Len(Tail(pool)) = Len(pool) - 1
      /\ \A j \in 1 .. Len(Tail(pool)) : j + 1 \in 1 .. Len(pool) /\ Tail(pool)[j] = pool[j + 1]
  BY <1>1, <1>4
<1>6. PICK s \in Stages : s = Head(pool) /\ status[s] = "submitted"
  BY <1>4, <1>5
<1>7. Stages \subseteq SCCs /\ s \in SCCs /\ SCCs \subseteq Nat /\ trip \in Nat
  BY <1>3, <1>6, StageFacts, DSWPAssumption DEF RunTypes, DSWPAssumption
<1>8. /\ status \in [SCCs -> {"unborn", "submitted", "running", "ended"}]
      /\ todo \in [SCCs -> SUBSET Queues] /\ position[s] = Exit /\ iter[s] = 1 /\ ~Begun(s)
  <2>1. StageInv(s) /\ ~Begun(s) /\ ~Running(s)
    BY <1>3, <1>6, <1>7 DEF Begun, Running
  <2> QED BY <1>3, <2>1 DEF RunTypes, StageInv
<1>9. /\ status'[s] = "running" /\ todo'[s] = PopsAt(s, Exit)
      /\ \A t \in SCCs : t # s => status'[t] = status[t] /\ todo'[t] = todo[t]
  BY <1>1, <1>6, <1>7, <1>8
<1>10. /\ Stages' = Stages /\ Iterations' = Iterations /\ trip' = trip /\ Queues' = Queues
       /\ popValueQueues(s)' = popValueQueues(s) /\ Body(s)' = Body(s)
       /\ PopsAt(s, Exit)' = PopsAt(s, Exit) /\ Available(s)' = Available(s)
  BY <1>1, FixedFacts
<1>11. ASSUME NEW t \in SCCs, t # s PROVE Stays(t)
  BY <1>1, <1>9, <1>11 DEF Stays, Running
<1>12. ASSUME NEW n \in SCCs, NEW k \in Iterations PROVE ~Past(s, n, k)'
  <2>1. n \in Nat /\ k \in Nat /\ 1 <= k /\ 1 <= n
    <3>1. N \in Nat
      BY <1>3, LoopFacts
    <3> QED BY <1>7, <3>1 DEF Iterations, SCCs
  <2>2. iter'[s] = 1 /\ position'[s] = 1 /\ status'[s] # "ended"
    BY <1>1, <1>8, <1>9 DEF Exit
  <2> QED BY <2>1, <2>2 DEF Past
<1>13. ASSUME NEW q \in Queues, q.to = s, NEW k \in Iterations PROVE ~Got(q, k)'
  <2>1. q.producer \in SCCs
    BY <1>3, QueueFacts
  <2>2. PICK b \in SCCs : b = BlockOf(q.producer) /\ b = BlockOf(q.producer)'
    BY <1>1, <1>3, <2>1, BlockFacts, FixedFacts
  <2>3. ~Past(s, b, k)'
    BY <1>12
  <2>4. position'[s] = b => q \in todo'[s]
    BY <1>1, <1>8, <1>9, <1>13, <2>2 DEF PopsAt, popValueQueues
  <2> QED BY <1>13, <2>2, <2>3, <2>4 DEF Got, Past, Sequentially
<1>14. ASSUME NEW p \in SCCs, NEW k \in Iterations PROVE ~Sent(s, p, k)'
  <2>1. \A q \in popValueQueues(s) : q \in Queues /\ q.to = s
    BY DEF popValueQueues
  <2> QED BY <1>10, <1>12, <1>13, <2>1 DEF Sent
<1>15. NoProgress
  <2> SUFFICES ASSUME NEW t \in SCCs, NEW k \in Iterations
               PROVE  /\ \A n \in SCCs : Past(t, n, k)' <=> Past(t, n, k)
                      /\ \A q \in Queues : q.to = t => (Got(q, k)' <=> Got(q, k))
                      /\ \A p \in SCCs : Sent(t, p, k)' <=> Sent(t, p, k)
    BY DEF NoProgress
  <2>1. CASE t = s
    BY <1>8, <1>12, <1>13, <1>14, <2>1, NotBegun
  <2>2. CASE t # s
    BY <1>1, <1>11, <2>2, StaysFacts
  <2> QED BY <2>1, <2>2
<1>16. QueueInv' /\ ExecutedInv'
  BY <1>1, <1>2, <1>15, QuietStep
<1>17. StageInv(s)'
  <2>1. Sequentially(position[s], iter[s])'
    <3>1. PICK a : a = Exit /\ a = position'[s]
      BY <1>1, <1>8
    <3>2. \A k : Sequentially(a, k)
      BY <1>3, <3>1, Nesting, LoopFacts DEF Sequentially
    <3>3. \A k : Sequentially(a, k)'
      BY <1>1, <3>2, FixedFacts
    <3> QED BY <3>1, <3>3 DEF Sequentially
  <2>2. (todo[s] \subseteq PopsAt(s, position[s]))'
    BY <1>1, <1>8, <1>9, <1>10 DEF PopsAt
  <2>3. ASSUME NEW p \in Available(s) PROVE ~Sent(s, p, iter[s])'
    <3>1. p \in SCCs
      BY <1>3, AvailableFacts
    <3>2. PICK k \in Iterations : k = iter'[s]
      BY <1>1, <1>3, <1>7 DEF RunTypes
    <3>3. ~Sent(s, p, k)'
      BY <1>14, <3>1
    <3> QED BY <3>2, <3>3 DEF Sent, Got, Past, Sequentially
  <2> QED BY <1>9, <1>10, <2>1, <2>2, <2>3 DEF StageInv, Begun, Running
<1>18. \A t \in SCCs : StageInv(t)'
  BY <1>1, <1>3, <1>11, <1>17, StaysStageInv
<1>19. RunTypes'
  <2>1. PopsAt(s, Exit) \subseteq Queues
    BY DEF PopsAt, popValueQueues
  <2> QED BY <1>1, <1>3, <1>6, <1>7, <1>8, <1>10, <2>1 DEF RunTypes
<1>20. DispatchInv'
  <2>1. \A j \in 1 .. Len(pool') :
          pool'[j] \in SCCs /\ pool'[j] # s /\ status[pool'[j]] = "submitted"
    <3> SUFFICES ASSUME NEW j \in 1 .. Len(Tail(pool))
                 PROVE  pool'[j] \in SCCs /\ pool'[j] # s /\ status[pool'[j]] = "submitted"
      BY <1>1
    <3>1. PICK m \in 1 .. Len(pool) : m # 1 /\ Tail(pool)[j] = pool[m]
      BY <1>5
    <3>2. pool[m] \in Stages /\ pool[m] # pool[1]
      BY <1>4, <1>5, <3>1
    <3> QED BY <1>1, <1>4, <1>5, <1>6, <1>7, <3>1, <3>2
  <2>2. \A j \in 1 .. Len(pool') : status'[pool'[j]] = "submitted"
    BY <1>9, <2>1
  <2>3. \A j, m \in 1 .. Len(pool') : pool'[j] = pool'[m] => j = m
    BY <1>1, <1>4, <1>5
  <2>4. \A t \in SCCs : (status'[t] # "unborn" <=> status[t] # "unborn")
                         /\ (status[t] = "ended" => status'[t] = "ended")
    BY <1>6, <1>9
  <2> QED BY <1>1, <1>3, <1>5, <1>7, <1>10, <2>2, <2>3, <2>4 DEF DispatchInv
<1>21. PipelineInv' /\ step' = "done" /\ loop' \in RunLoops
  BY <1>1, <1>3, PipelineInvNext, FixedFacts
<1> QED BY <1>1, <1>2, <1>16, <1>18, <1>19, <1>20, <1>21 DEF RunInv

-----------------------------------------------------------------------------
(* Every step keeps the invariant.                                         *)

LEMMA RunInvInit == RunInit => RunInv
<1> SUFFICES ASSUME RunInit PROVE RunInv
  OBVIOUS
<1>1. PipelineInv /\ loop \in Loops
  BY PipelineInvInit DEF RunInit, PipelineInv
<1>2. trip \in 0 .. MaxIterations /\ trip \in Nat
  BY DSWPAssumption DEF RunInit, DSWPAssumption
<1>3. 1 \in Iterations /\ 0 \in 0 .. trip + 1 /\ Exit \in SCCs
  BY <1>1, <1>2, LoopFacts DEF Iterations
<1>4. RunTypes
  BY <1>2, <1>3 DEF RunInit, RunTypes
<1>5. pc = "compile" /\ Idle
  BY DEF RunInit, Idle
<1> QED BY <1>1, <1>4, <1>5 DEF RunInv

\* The run starts after the compiler has finished.
LEMMA CompileStep ==
  ASSUME RunInv, Compile, UNCHANGED pipelineRun
  PROVE  RunInv'
<1>1. PipelineInv'
  BY PipelineInvNext DEF RunInv, Next
<1>2. step # "done"
  BY DEF Compile, GenerateStagesFromPartitionedSCCs, AddClonableSCCsToStages,
         CollectDataQueueInfo, CollectControlQueueInfo
<1>3. pc = "compile" /\ Idle /\ RunTypes
  BY <1>2 DEF RunInv
<1>4. UNCHANGED <<trip, taken, pc, i, pool, status, position, iter, todo, value, contents,
                  executed>>
  BY DEF pipelineRun
<1>5. Idle'
  BY <1>3, <1>4 DEF Idle
<1>6. todo' \in [SCCs -> SUBSET Queues']
  BY <1>3, <1>4 DEF Idle
<1>7. RunTypes'
  BY <1>3, <1>4, <1>6 DEF RunTypes, Iterations
<1> QED BY <1>1, <1>3, <1>4, <1>5, <1>7 DEF RunInv

LEMMA StutterStep ==
  ASSUME RunInv, UNCHANGED <<pipelineVars, pipelineRun>>
  PROVE  RunInv'
<1>1. /\ Fixed /\ UNCHANGED <<pc, i, pool, status, position, iter, todo, value, contents, executed>>
  BY DEF Fixed, pipelineRun
<1>2. PipelineInv' /\ RunTypes
  BY <1>1, PipelineInvNext DEF RunInv
<1>3. /\ Stages' = Stages /\ Iterations' = Iterations /\ trip' = trip /\ Queues' = Queues
      /\ step' = step /\ loop' = loop
  BY <1>1, FixedFacts
<1>4. RunTypes'
  BY <1>1, <1>2, <1>3 DEF RunTypes
<1>5. CASE pc = "compile"
  <2>1. Idle'
    BY <1>1, <1>5 DEF RunInv, Idle
  <2> QED BY <1>1, <1>2, <1>4, <1>5, <2>1 DEF RunInv
<1>6. CASE pc # "compile"
  <2>1. /\ step = "done" /\ loop \in RunLoops /\ DispatchInv /\ \A s \in SCCs : StageInv(s)
    BY <1>6 DEF RunInv
  <2>2. \A s \in SCCs : Stays(s)
    BY <1>1 DEF Stays, Running
  <2>3. NoProgress /\ \A s \in SCCs : StageInv(s)'
    BY <1>1, <2>1, <2>2, AllStay
  <2>4. QueueInv' /\ ExecutedInv'
    BY <1>1, <1>6, <2>3, QuietStep
  <2>5. DispatchInv'
    BY <1>1, <1>3, <2>1 DEF DispatchInv
  <2> QED BY <1>1, <1>2, <1>3, <1>4, <1>6, <2>1, <2>3, <2>4, <2>5 DEF RunInv
<1> QED BY <1>5, <1>6

LEMMA PopStep ==
  ASSUME RunInv, NEW s \in SCCs, Pop(s), UNCHANGED pipelineVars
  PROVE  RunInv'
<1>1. Fixed /\ Running(s) /\ UNCHANGED pc
  BY PopIs
<1>2. PipelineInv /\ step = "done" /\ loop \in RunLoops /\ pc # "compile"
  BY <1>1, RunningFacts
<1>3. PipelineInv' /\ step' = "done" /\ loop' \in RunLoops
  BY <1>1, <1>2, PipelineInvNext, FixedFacts
<1> QED BY <1>1, <1>2, <1>3, PopInv DEF RunInv

LEMMA ExecuteStep ==
  ASSUME RunInv, \A l \in RunLoops : SendableConditions(l), NEW s \in SCCs, Execute(s),
         UNCHANGED pipelineVars
  PROVE  RunInv'
<1>1. Running(s)
  BY DEF Execute
<1>2. PipelineInv /\ step = "done" /\ loop \in RunLoops /\ pc # "compile"
  BY <1>1, RunningFacts
<1>3. SendableConditions(loop)
  BY <1>2
<1>4. Fixed /\ UNCHANGED pc
  BY <1>3, ExecuteIs
<1>5. PipelineInv' /\ step' = "done" /\ loop' \in RunLoops
  BY <1>2, <1>4, PipelineInvNext, FixedFacts
<1>6. \A t \in SCCs : StageInv(t)'
  <2>1. \A t \in SCCs : StageInv(t)
    BY <1>2 DEF RunInv
  <2>2. ASSUME NEW t \in SCCs, t # s PROVE StageInv(t)'
    BY <1>3, <1>4, <2>1, <2>2, ExecuteOthers, StaysStageInv
  <2> QED BY <1>3, <2>2, ExecuteStage
<1> QED BY <1>2, <1>3, <1>4, <1>5, <1>6, ExecuteTypes, ExecuteDispatch, ExecuteQueues,
           ExecuteExecuted DEF RunInv

LEMMA RunInvNext ==
  ASSUME \A l \in RunLoops : SendableConditions(l)
  PROVE  RunInv /\ [RunNext]_<<pipelineVars, pipelineRun>> => RunInv'
<1> SUFFICES ASSUME RunInv, [RunNext]_<<pipelineVars, pipelineRun>> PROVE RunInv'
  OBVIOUS
<1>1. CASE Compile /\ UNCHANGED pipelineRun
  BY <1>1, CompileStep
<1>2. CASE Dispatch /\ UNCHANGED pipelineVars
  BY <1>2, DispatchStep
<1>3. CASE Submit /\ UNCHANGED pipelineVars
  BY <1>3, SubmitStep
<1>4. CASE Join /\ UNCHANGED pipelineVars
  BY <1>4, JoinStep
<1>5. CASE FreeQueues /\ UNCHANGED pipelineVars
  BY <1>5, FreeQueuesStep
<1>6. CASE Start /\ UNCHANGED pipelineVars
  BY <1>6, StartStep
<1>7. ASSUME NEW s \in SCCs, Pop(s), UNCHANGED pipelineVars PROVE RunInv'
  BY <1>7, PopStep
<1>8. ASSUME NEW s \in SCCs, Execute(s), UNCHANGED pipelineVars PROVE RunInv'
  BY <1>8, ExecuteStep
<1>9. CASE UNCHANGED <<pipelineVars, pipelineRun>>
  BY <1>9, StutterStep
<1> QED BY <1>1, <1>2, <1>3, <1>4, <1>5, <1>6, <1>7, <1>8, <1>9 DEF RunNext

-----------------------------------------------------------------------------
(* What the invariant says.                                                *)

LEMMA RunInvImpliesTypes == RunInv => RunTypeOK
<1> SUFFICES ASSUME RunInv PROVE RunTypeOK
  OBVIOUS
<1>1. TypeOK /\ loop \in Loops /\ RunTypes
  BY PipelineInvImpliesTypes DEF RunInv, PipelineInv
<1>2. trip \in 0 .. MaxIterations /\ trip \in Nat /\ MaxIterations \in Nat
  BY <1>1, DSWPAssumption DEF RunTypes, DSWPAssumption
<1>3. 1 .. trip + 1 \subseteq 1 .. MaxIterations + 1 /\ 0 .. trip + 1 \subseteq 0 .. MaxIterations + 1
  BY <1>2
<1>4. Iterations \subseteq 1 .. MaxIterations + 1
  BY <1>3 DEF Iterations
<1>5. /\ status \in [SCCs -> {"unborn", "submitted", "running", "ended"}]
      /\ position \in [SCCs -> SCCs] /\ \A s \in SCCs : todo[s] \subseteq Queues
  BY <1>1 DEF RunTypes
<1>6. iter \in [SCCs -> 1 .. MaxIterations + 1]
  BY <1>1, <1>4 DEF RunTypes
<1>7. value \in [SCCs -> [SCCs -> 0 .. MaxIterations + 1]]
  <2>1. value \in [SCCs -> [SCCs -> 0 .. trip + 1]]
    BY <1>1 DEF RunTypes
  <2>2. [SCCs -> 0 .. trip + 1] \subseteq [SCCs -> 0 .. MaxIterations + 1]
    BY <1>3
  <2> QED BY <2>1, <2>2
<1>8. pc \in {"compile", "submit", "join", "free", "returned"} /\ i \in SCCs
  <2>1. CASE pc = "compile"
    BY <1>1, <2>1, LoopFacts DEF RunInv, Idle, Exit
  <2>2. CASE pc # "compile"
    BY <2>2, StageFacts DEF RunInv, DispatchInv
  <2> QED BY <2>1, <2>2
<1>9. executed \subseteq SCCs \X (1 .. MaxIterations + 1)
  <2>1. CASE pc = "compile"
    BY <2>1 DEF RunInv, Idle
  <2>2. CASE pc # "compile"
    <3>1. executed \subseteq Partitioned(loop) \X Iterations
      BY <2>2 DEF RunInv, ExecutedInv
    <3> QED BY <1>4, <3>1 DEF Partitioned
  <2> QED BY <2>1, <2>2
<1> QED BY <1>1, <1>2, <1>5, <1>6, <1>7, <1>8, <1>9 DEF RunTypeOK

LEMMA RunInvImpliesRight == RunInv => RightIteration
<1> SUFFICES ASSUME RunInv, NEW s \in Stages, Running(s), todo[s] = {}, position[s] \in Body(s)
             PROVE  /\ Sequentially(position[s], iter[s])
                    /\ \A e \in loop.data :
                         e[2] = position[s] /\ Sequentially(e[1], iter[s]) =>
                           value[s][e[1]] = iter[s]
  BY DEF RightIteration
<1>1. s \in SCCs
  <2>1. CASE step = "partition"
    BY <2>1 DEF Stages, RunInv, PipelineInv
  <2>2. CASE step # "partition"
    BY <2>2, StageFacts DEF RunInv
  <2> QED BY <2>1, <2>2
<1>2. /\ PipelineInv /\ step = "done" /\ loop \in Loops /\ StageInv(s) /\ SCCs \subseteq Nat
      /\ position[s] \in Nat
  BY <1>1, RunningFacts
<1>3. ASSUME NEW e \in loop.data, e[2] = position[s], Sequentially(e[1], iter[s])
      PROVE  value[s][e[1]] = iter[s]
  <2>1. e[1] \in SCCs /\ e[1] < e[2]
    BY <1>2, LoopFacts
  <2>2. e[1] \in Available(s)
    BY <1>2, <1>3, OperandAvailable
  <2>3. e[1] <= position[s] /\ e[1] # position[s]
    <3>1. e[1] \in Nat /\ e[1] < position[s]
      BY <1>2, <1>3, <2>1
    <3> QED BY <1>2, <3>1
  <2>4. Sent(s, e[1], iter[s])
    BY <1>1, <1>3, <2>2, <2>3, Ready
  <2> QED BY <1>2, <2>2, <2>4 DEF StageInv
<1> QED BY <1>2, <1>3 DEF StageInv

\* When all stages have ended they have passed what the loop executes.
LEMMA EndedFacts ==
  ASSUME RunInv, pc \in {"free", "returned"}, NEW s \in Stages
  PROVE  /\ status[s] = "ended" /\ s \in SCCs /\ PipelineInv /\ step = "done"
         /\ \A n : \A k \in Iterations : Past(s, n, k) <=> Sequentially(n, k)
<1>1. /\ PipelineInv /\ step = "done" /\ status[s] = "ended" /\ s \in SCCs
  BY StageFacts DEF RunInv, DispatchInv
<1>2. iter[s] = trip + 1 /\ trip \in Nat
  BY <1>1, DSWPAssumption DEF RunInv, StageInv, RunTypes, DSWPAssumption
<1>3. \A k \in Iterations : k < iter[s] \/ k = iter[s]
  BY <1>2 DEF Iterations
<1> QED BY <1>1, <1>3 DEF Past, Begun

LEMMA RunInvImpliesDrained == RunInv => QueuesDrained
<1> SUFFICES ASSUME RunInv, pc = "free"
             PROVE  /\ \A s \in Stages : status[s] = "ended"
                    /\ \A q \in Queues : contents[q] = <<>>
  BY DEF QueuesDrained
<1>1. \A s \in Stages : status[s] = "ended"
  BY EndedFacts
<1>2. /\ PipelineInv /\ step = "done" /\ loop \in Loops /\ RunTypes /\ QueueInv
      /\ \A s \in SCCs : StageInv(s)
  BY DEF RunInv, PipelineInv
<1>3. ASSUME NEW q \in Queues PROVE contents[q] = <<>>
  <2>1. /\ q.producer \in SCCs /\ q.from \in Stages /\ q.to \in Stages
        /\ q.producer \in Available(q.from)
    BY <1>2, QueueFacts
  <2>2. ASSUME NEW k \in InFlight(q) PROVE FALSE
    <3>1. k \in Iterations /\ Sent(q.from, q.producer, k) /\ ~Got(q, k)
      BY DEF InFlight
    <3>2. q.from \in SCCs
      BY <2>1, EndedFacts
    <3>3. Sequentially(q.producer, k)
      BY <1>2, <2>1, <3>1, <3>2, SentInOrder
    <3>4. Sequentially(BlockOf(q.producer), k)
      BY <1>2, <2>1, <3>3, SequentialBlock
    <3>5. Past(q.to, BlockOf(q.producer), k)
      BY <2>1, <3>1, <3>4, EndedFacts
    <3> QED BY <3>1, <3>5 DEF Got
  <2>3. contents[q] \in Seq(Nat) /\ {contents[q][j] : j \in 1 .. Len(contents[q])} = {}
    <3>1. InFlight(q) = {}
      BY <2>2
    <3>2. Carries(contents[q], InFlight(q))
      BY <1>2 DEF QueueInv
    <3> QED BY <3>1, <3>2 DEF Carries
  <2>4. Len(contents[q]) \in Nat
    BY <2>3
  <2>5. 1 \notin 1 .. Len(contents[q])
    BY <2>3, Zenon
  <2>6. Len(contents[q]) = 0
    BY <2>4, <2>5
  <2> QED BY <2>3, <2>6
<1> QED BY <1>1, <1>3

LEMMA RunInvImpliesExecuted == RunInv => EverythingExecuted
<1> SUFFICES ASSUME RunInv, pc = "returned"
             PROVE  executed = {x \in Partitioned(loop) \X (1 .. trip + 1) :
                                  Sequentially(x[1], x[2])}
  BY DEF EverythingExecuted
<1>1. PipelineInv /\ step = "done" /\ ExecutedInv
  BY DEF RunInv
<1>2. ASSUME NEW x \in Partitioned(loop) \X Iterations
      PROVE  Past(sccToStage[x[1]], x[1], x[2]) <=> Sequentially(x[1], x[2])
  <2>1. sccToStage[x[1]] \in Stages /\ x[2] \in Iterations
    BY <1>1, StageFacts
  <2> QED BY <2>1, EndedFacts
<1>3. executed = {x \in Partitioned(loop) \X Iterations : Sequentially(x[1], x[2])}
  BY <1>1, <1>2 DEF ExecutedInv
<1> QED BY <1>3 DEF Iterations

-----------------------------------------------------------------------------

LEMMA RunInvariance ==
  ASSUME \A l \in RunLoops : SendableConditions(l)
  PROVE  RunSpec => []RunInv
<1>1. RunInv /\ [RunNext]_<<pipelineVars, pipelineRun>> => RunInv'
  BY RunInvNext
<1> QED BY <1>1, RunInvInit, PTL DEF RunSpec

\* The state of a pipeline that is executed has its types: a task is at an SCC
\* in one of the loop's iterations, pops only queues that exist, and its values
\* are numbers of iterations.
THEOREM PipelineRunTypes ==
  ASSUME \A l \in RunLoops : SendableConditions(l)
  PROVE  RunSpec => []RunTypeOK
BY RunInvariance, RunInvImpliesTypes, PTL

\* If no branch that stays in one stage decides on a cloned value, which is what
\* collectControlQueueInfo asserts, a task executes an SCC in an iteration only
\* if the sequential loop does, with the operands of this iteration: the queues
\* that popValueQueues reads never get out of step with each other or with the
\* branches, for any number of workers and any schedule.
THEOREM StagesKeepInStep ==
  ASSUME \A l \in RunLoops : SendableConditions(l)
  PROVE  RunSpec => []RightIteration
BY RunInvariance, RunInvImpliesRight, PTL

\* When NOELLE_DSWPDispatcher deletes the queues, every task has ended and the
\* queues are empty: what the stages pushed they also popped.
THEOREM QueuesAreDrained ==
  ASSUME \A l \in RunLoops : SendableConditions(l)
  PROVE  RunSpec => []QueuesDrained
BY RunInvariance, RunInvImpliesDrained, PTL

\* When NOELLE_DSWPDispatcher returns, the tasks have executed the instances of
\* the SCCs that the sequential loop executes, each in its iteration, and no
\* others.
THEOREM PipelineExecutesTheLoop ==
  ASSUME \A l \in RunLoops : SendableConditions(l)
  PROVE  RunSpec => []EverythingExecuted
BY RunInvariance, RunInvImpliesExecuted, PTL
=============================================================================
