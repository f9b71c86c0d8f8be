------------------------ MODULE SegmentFrontierProofs ------------------------
(***************************************************************************)
(* For every loop of the model, every sequential segment and every order   *)
(* of traversal: the entries and exits that are found cut all paths of an  *)
(* iteration, so that no iteration is in the segment without its wait or   *)
(* after its signal, and none ends without both.                           *)
(***************************************************************************)
EXTENDS SegmentFrontier, FiniteSetTheorems, WellFoundedInduction, SequenceTheorems,
        TLAPS

\* Edges that go on: the one of a nested loop to itself is left out.
Onward(p, q) == q \in succ[p] /\ q # p

\* What is used of the control-flow graph of a loop.
GraphInv ==
  /\ succ \in [Nodes -> SUBSET Nodes]
  /\ ssI \in Segments
  /\ succ[N] = {}
  /\ \A p \in Nodes : \A q \in succ[p] : p <= q
  /\ \A p \in Nodes \ {N} : \E q \in succ[p] : q # p
  /\ \A i \in Nodes \ {1} : \E p \in Nodes : Onward(p, i)
  /\ \A p, q, i \in Nodes : Onward(p, i) /\ Onward(q, i) /\ Conditional(p) => p = q
  /\ \A i \in Nodes : InNestedLoop(i) =>
       \E p \in Nodes : succ[p] = {i} /\ \A q \in Nodes : Onward(q, i) <=> q = p
  /\ \A p \in Nodes : \A q, r \in succ[p] : q # r => Conditional(p)
  /\ \A p \in Nodes, i \in Nodes : succ[p] = {i} => ~ Conditional(p)

-----------------------------------------------------------------------------
(* Induction over the instructions, in both directions.                    *)

\* A set of natural numbers that is not empty has a smallest element.
LEMMA SmallestOf ==
  ASSUME NEW S, S \subseteq Nat, S # {}
  PROVE  \E x \in S : \A y \in S : x <= y
<1>1. \A x, y \in Nat : <<x, y>> \in OpToRel(<, Nat) <=> x < y
  BY DEF OpToRel
<1>2. IsWellFoundedOn(OpToRel(<, Nat), Nat)
  BY NatLessThanWellFounded
<1>3. PICK x \in S : \A y \in S : ~(<<y, x>> \in OpToRel(<, Nat))
  BY <1>2, WFMin
<1>4. ASSUME NEW y \in S PROVE x <= y
  <2>1. x \in Nat /\ y \in Nat
    OBVIOUS
  <2>2. ~(y < x)
    BY <1>1, <1>3, <2>1, Zenon
  <2> QED BY <2>1, <2>2
<1> QED BY <1>4

\* The instructions are finitely many numbers.
LEMMA NodeFacts ==
  /\ N \in Nat /\ N > 0 /\ 1 \in Nodes /\ N \in Nodes /\ Nodes \subseteq Nat
  /\ \A i \in Nodes : 1 <= i /\ i <= N
  /\ IsFiniteSet(Nodes) /\ \A S \in SUBSET Nodes : IsFiniteSet(S)
<1>1. N \in Nat /\ N # 0
  BY FrontierAssumption DEF FrontierAssumption
<1>2. IsFiniteSet(Nodes)
  BY <1>1, FS_Interval DEF Nodes
<1>3. \A S \in SUBSET Nodes : IsFiniteSet(S)
  BY <1>2, FS_Subset
<1> QED BY <1>1, <1>2, <1>3 DEF Nodes

\* Induction from the first instruction to the last.
LEMMA FirstToLast ==
  ASSUME NEW S, S \subseteq Nodes,
         \A i \in Nodes : (\A j \in Nodes : j < i => j \in S) => i \in S
  PROVE  S = Nodes
<1> DEFINE Bad == {i \in Nodes : i \notin S}
<1>1. Bad \subseteq Nat
  BY NodeFacts
<1>2. ASSUME Bad # {} PROVE FALSE
  <2>1. PICK i \in Bad : \A j \in Bad : i <= j
    <3> HIDE DEF Bad
    <3> QED BY <1>1, <1>2, SmallestOf
  <2>2. i \in Nodes /\ i \notin S
    OBVIOUS
  <2>3. ASSUME NEW j \in Nodes, j < i PROVE j \in S
    <3>1. j \in Nat /\ i \in Nat
      BY <2>2, NodeFacts
    <3> QED BY <2>1, <2>3, <3>1
  <2> QED BY <2>2, <2>3
<1> QED BY <1>2

\* Induction from the last instruction to the first.
LEMMA LastToFirst ==
  ASSUME NEW S, S \subseteq Nodes,
         \A i \in Nodes : (\A j \in Nodes : i < j => j \in S) => i \in S
  PROVE  S = Nodes
<1> DEFINE T == {i \in Nodes : N + 1 - i \in S}
<1>1. ASSUME NEW i \in Nodes
      PROVE  N + 1 - i \in Nodes /\ N + 1 - (N + 1 - i) = i
  BY NodeFacts DEF Nodes
<1>2. ASSUME NEW i \in Nodes, \A j \in Nodes : j < i => j \in T PROVE i \in T
  <2>1. ASSUME NEW j \in Nodes, N + 1 - i < j PROVE j \in S
    <3>1. N + 1 - j \in Nodes /\ N + 1 - (N + 1 - j) = j
      BY <1>1
    <3>2. N + 1 - j < i
      <4>1. N \in Nat /\ i \in Nat /\ j \in Nat
        BY NodeFacts
      <4> QED BY <2>1, <4>1
    <3> QED BY <1>2, <3>1, <3>2
  <2> QED BY <1>1, <2>1
<1>3. T = Nodes
  <2>1. T \subseteq Nodes
    OBVIOUS
  <2> HIDE DEF T
  <2> QED BY <1>2, <2>1, FirstToLast
<1>4. ASSUME NEW i \in Nodes PROVE i \in S
  <2>1. N + 1 - i \in T
    BY <1>1, <1>3
  <2> QED BY <1>1, <2>1
<1> QED BY <1>4

-----------------------------------------------------------------------------
(* The loops that the analysis is run on.                                  *)

\* The graphs of the instructions from k on, made of those behind k.
Step(F, k) == IF k = N THEN {With(<<>>, N, {})}
              ELSE {f \in {With(g, k, t) : g \in F[k + 1], t \in Targets(k)} :
                      NoCriticalEdge(f)}

\* F has the graphs of the instructions from each k on.
Graphs(F) == F = [k \in Nodes |-> Step(F, k)]

\* The graphs are built from the last instruction to the first.
LEMMA GraphsExist == \E F : Graphs(F)
<1> DEFINE D(m) == {k \in Nodes : N - k < m}
           Upto(m, F) == F = [k \in D(m) |-> Step(F, k)]
           Bad == {m \in Nat : ~ \E F : Upto(m, F)}
<1>1. ASSUME NEW m \in Nat, NEW F, Upto(m, F) PROVE \E H : Upto(m + 1, H)
  <2> DEFINE H == [k \in D(m + 1) |-> Step(F, k)]
  <2>1. ASSUME NEW k \in D(m) PROVE H[k] = F[k]
    <3>1. k \in D(m + 1)
      BY NodeFacts
    <3>2. F[k] = Step(F, k)
      BY <1>1, Zenon
    <3> HIDE DEF D
    <3> QED BY <3>1, <3>2
  <2>2. ASSUME NEW k \in D(m + 1) PROVE Step(F, k) = Step(H, k)
    <3>1. CASE k = N
      BY <3>1 DEF Step
    <3>2. CASE k # N
      <4>1. k + 1 \in D(m)
        BY <3>2, NodeFacts DEF Nodes
      <4>2. H[k + 1] = F[k + 1]
        BY <2>1, <4>1
      <4> HIDE DEF H
      <4> QED BY <3>2, <4>2 DEF Step
    <3> QED BY <3>1, <3>2
  <2>3. Upto(m + 1, H)
    <3> HIDE DEF D
    <3> QED BY <2>2, Zenon
  <2> HIDE DEF Upto, H
  <2> QED BY <2>3
<1>2. ASSUME Bad # {} PROVE FALSE
  <2>1. PICK m \in Bad : \A j \in Bad : m <= j
    BY <1>2, SmallestOf
  <2>2. m \in Nat /\ ~ \E F : Upto(m, F)
    OBVIOUS
  <2>3. m # 0
    <3> DEFINE Z == [k \in D(0) |-> {}]
    <3>1. \A k \in D(0) : FALSE
      BY NodeFacts
    <3>2. Upto(0, Z)
      <4> HIDE DEF D
      <4> QED BY <3>1, Zenon
    <3> HIDE DEF Upto, Z
    <3> QED BY <2>2, <3>2
  <2> HIDE DEF Upto
  <2>4. m - 1 \in Nat /\ m - 1 \notin Bad
    <3> HIDE DEF Bad
    <3> QED BY <2>1, <2>2, <2>3
  <2>5. PICK F : Upto(m - 1, F)
    BY <2>4
  <2>6. \E H : Upto((m - 1) + 1, H)
    BY <1>1, <2>4, <2>5
  <2>7. (m - 1) + 1 = m
    BY <2>2
  <2> QED BY <2>2, <2>6, <2>7
<1>3. PICK F : Upto(N, F)
  <2>1. N \in Nat
    BY NodeFacts
  <2> HIDE DEF Upto
  <2> QED BY <1>2, <2>1
<1>4. D(N) = Nodes
  <2>1. \A k \in Nodes : N - k < N
    BY NodeFacts
  <2> QED BY <2>1, Zenon
<1> QED BY <1>3, <1>4, Zenon DEF Graphs

\* A graph of the instructions from k on.
Forward(f, k) ==
  /\ f = [j \in k .. N |-> f[j]]
  /\ \A j \in k .. N : f[j] \subseteq j .. N
  /\ f[N] = {}
  /\ \A j \in k .. N - 1 : f[j] # {j} /\ Cardinality(f[j]) \in {1, 2}
  /\ NoCriticalEdge(f)

\* Every graph that is built is one.
LEMMA GraphsForward ==
  ASSUME NEW F, Graphs(F), NEW k \in Nodes, NEW f \in F[k]
  PROVE  Forward(f, k)
<1> DEFINE S == {i \in Nodes : \A h \in F[i] : Forward(h, i)}
<1>1. ASSUME NEW i \in Nodes, \A j \in Nodes : i < j => j \in S, NEW h \in F[i]
      PROVE  Forward(h, i)
  <2>1. F[i] = Step(F, i)
    BY Zenon DEF Graphs
  <2>2. N \in Nat /\ i \in Nat /\ 1 <= i /\ i <= N
    BY NodeFacts
  <2>3. CASE i = N
    <3>1. h = With(<<>>, N, {})
      BY <2>1, <2>3 DEF Step
    <3>2. /\ h = [j \in N .. N |-> {}] /\ h = [j \in N .. N |-> h[j]]
          /\ DOMAIN h = N .. N
      BY <3>1 DEF With
    <3>3. \A j \in N .. N : h[j] = {}
      BY <3>2
    <3>4. NoCriticalEdge(h)
      BY <3>2, <3>3 DEF NoCriticalEdge
    <3>5. N \in N .. N /\ N .. N - 1 = {}
      BY <2>2
    <3> QED BY <2>3, <3>2, <3>3, <3>4, <3>5 DEF Forward
  <2>4. CASE i # N
    <3>1. /\ NoCriticalEdge(h)
          /\ \E g \in F[i + 1], t \in Targets(i) : h = With(g, i, t)
      BY <2>1, <2>4 DEF Step
    <3>2. PICK g \in F[i + 1], t \in Targets(i) : h = With(g, i, t)
      BY <3>1
    <3>3. i + 1 \in Nodes /\ i < i + 1
      BY <2>2, <2>4 DEF Nodes
    <3>4. Forward(g, i + 1)
      BY <1>1, <3>3
    <3>5. /\ h = [j \in i .. N |-> h[j]] /\ h[i] = t
          /\ \A j \in i + 1 .. N : h[j] = g[j]
      BY <2>2, <3>2 DEF With
    <3>6. /\ t \subseteq i .. N /\ t # {i} /\ Cardinality(t) \in {1, 2}
      BY DEF Targets
    <3>7. \A j \in i .. N : j = i \/ j \in i + 1 .. N
      BY <2>2
    <3>8. \A j \in i .. N : h[j] \subseteq j .. N
      BY <3>4, <3>5, <3>6, <3>7 DEF Forward
    <3>9. h[N] = {}
      <4>1. N \in i + 1 .. N
        BY <2>2, <2>4
      <4> QED BY <3>4, <3>5, <4>1 DEF Forward
    <3>10. ASSUME NEW j \in i .. N - 1 PROVE h[j] # {j} /\ Cardinality(h[j]) \in {1, 2}
      <4>1. CASE j = i
        BY <3>5, <3>6, <4>1
      <4>2. CASE j # i
        <5>1. j \in i + 1 .. N - 1 /\ j \in i + 1 .. N
          BY <2>2, <4>2
        <5> QED BY <3>4, <3>5, <5>1 DEF Forward
      <4> QED BY <4>1, <4>2
    <3> QED BY <3>1, <3>5, <3>8, <3>9, <3>10 DEF Forward
  <2> QED BY <2>3, <2>4
<1>2. S = Nodes
  <2>1. S \subseteq Nodes /\ \A i \in Nodes : (\A j \in Nodes : i < j => j \in S) => i \in S
    BY <1>1
  <2> HIDE DEF S
  <2> QED BY <2>1, LastToFirst
<1> QED BY <1>2

\* The graphs of F that are loops.
LoopsOf(F) ==
  {f \in F[1] : \A i \in Nodes :
     /\ i # 1 => Entering(f, i) # {}
     /\ i \in f[i] => \E p \in Nodes : Entering(f, i) = {p} /\ f[p] = {i}}

\* A loop is a graph in which every instruction is reached and a nested loop has a
\* preheader.
LEMMA LoopsForward ==
  ASSUME NEW f \in Loops
  PROVE  /\ Forward(f, 1)
         /\ \A i \in Nodes :
              /\ i # 1 => Entering(f, i) # {}
              /\ i \in f[i] => \E p \in Nodes : Entering(f, i) = {p} /\ f[p] = {i}
<1> DEFINE F == CHOOSE G : Graphs(G)
<1>1. Graphs(F)
  BY GraphsExist, Zenon
<1>2. Loops = LoopsOf(F)
  BY DEF Loops, LoopsOf, Graphs, Step
<1> HIDE DEF F
<1>3. f \in F[1]
  BY <1>2 DEF LoopsOf
<1>4. Forward(f, 1)
  BY <1>1, <1>3, GraphsForward, NodeFacts
<1> QED BY <1>2, <1>4 DEF LoopsOf

\* The control-flow graph of a loop.
LEMMA LoopsAreGraphs ==
  ASSUME succ \in Loops, ssI \in Segments
  PROVE  GraphInv
<1>1. Forward(succ, 1)
  BY LoopsForward
<1>2. \A i \in Nodes :
        /\ i # 1 => Entering(succ, i) # {}
        /\ i \in succ[i] => \E p \in Nodes : Entering(succ, i) = {p} /\ succ[p] = {i}
  BY LoopsForward
<1>3. N \in Nat /\ Nodes = 1 .. N /\ \A j \in Nodes : j \in Nat
  BY NodeFacts DEF Nodes
<1>4. succ = [j \in Nodes |-> succ[j]] /\ \A j \in Nodes : succ[j] \subseteq j .. N
  BY <1>1, <1>3 DEF Forward
<1>5. \A j \in Nodes : j .. N \subseteq Nodes
  BY <1>3
<1>6. succ \in [Nodes -> SUBSET Nodes]
  BY <1>4, <1>5
<1>7. \A p \in Nodes : \A q \in succ[p] : p <= q
  BY <1>3, <1>4
<1>8. \A j \in Nodes \ {N} : succ[j] # {j} /\ Cardinality(succ[j]) \in {1, 2}
  <2>1. \A j \in Nodes \ {N} : j \in 1 .. N - 1
    BY <1>3
  <2> QED BY <1>1, <2>1 DEF Forward
<1>9. ASSUME NEW p \in Nodes \ {N} PROVE \E q \in succ[p] : q # p
  <2>1. succ[p] # {}
    BY <1>8, FS_EmptySet
  <2> QED BY <1>8, <2>1
<1>10. \A i \in Nodes \ {1} : \E p \in Nodes : Onward(p, i)
  BY <1>2 DEF Entering, Onward
<1>11. ASSUME NEW p \in Nodes, NEW i \in Nodes, succ[p] = {i} PROVE ~ Conditional(p)
  <2>1. Cardinality(succ[p]) = 1
    BY <1>11, FS_Singleton
  <2> QED BY <2>1 DEF Conditional
<1>12. ASSUME NEW p \in Nodes, NEW q \in succ[p], NEW r \in succ[p], q # r PROVE Conditional(p)
  <2>1. IsFiniteSet(succ[p])
    BY <1>6, NodeFacts
  <2>2. Cardinality(succ[p]) # 1
    BY <1>12, <2>1, FS_Singleton
  <2>3. Cardinality(succ[p]) # 0 /\ Cardinality(succ[p]) \in Nat
    BY <1>12, <2>1, FS_EmptySet, FS_CardinalityType
  <2> QED BY <2>2, <2>3 DEF Conditional
<1>13. ASSUME NEW p \in Nodes, NEW q \in Nodes, NEW i \in Nodes,
              Onward(p, i), Onward(q, i), Conditional(p)
       PROVE  p = q
  <2>1. NoCriticalEdge(succ) /\ DOMAIN succ = Nodes
    BY <1>1, <1>6 DEF Forward
  <2>2. i \in (succ[p] \ {p}) \cap (succ[q] \ {q})
    BY <1>13 DEF Onward
  <2>3. p # q => Cardinality(succ[p]) = 1
    BY <2>1, <2>2 DEF NoCriticalEdge
  <2> QED BY <1>13, <2>3 DEF Conditional
<1>14. ASSUME NEW i \in Nodes, InNestedLoop(i)
       PROVE  \E p \in Nodes : succ[p] = {i} /\ \A q \in Nodes : Onward(q, i) <=> q = p
  <2>1. PICK p \in Nodes : Entering(succ, i) = {p} /\ succ[p] = {i}
    BY <1>2, <1>14 DEF InNestedLoop
  <2> QED BY <2>1 DEF Entering, Onward
<1>15. succ[N] = {}
  BY <1>1 DEF Forward
<1> QED BY <1>6, <1>7, <1>9, <1>10, <1>11, <1>12, <1>13, <1>14, <1>15 DEF GraphInv

-----------------------------------------------------------------------------
(* The invariant.                                                          *)

\* What is in a queue.
Elements(q) == {q[k] : k \in 1 .. Len(q)}

\* Instructions that cannot be an exit.
NoExit ==
  {x \in Nodes : ~ checkIfAfterExitFrontier(x) \/ (InNestedLoop(x) /\ x \in ssI)}

\* Instructions that become exits when they are looked at, whatever the order.
Boundary(v) ==
  ~ InNestedLoop(v) /\ checkIfAfterExitFrontier(v) /\ Before(v) \subseteq NoExit

\* The search for entries has been at v, and went on to W where v is no entry.
EntrySearched(v, W) == v \in entries \/ (v # 1 /\ Preds(v) \subseteq W)

\* The same for the search for exits, downwards.
ExitSearched(v, W) == v \in exits \/ (~ Boundary(v) /\ succ[v] \subseteq W)

\* What the search for entries must at least have visited.
UpClosed(V) == ssI \subseteq V /\ \A v \in V : EntrySearched(v, V)

\* What the search for exits has visited in the end.
DownClosed(V) == ssI \subseteq V /\ \A v \in V : ExitSearched(v, V)

\* What every such search has visited: the segment, what is between its
\* instructions, and the way up from there to the entries.
Above == {v \in Nodes : \A V \in SUBSET Nodes : UpClosed(V) => v \in V}

\* What the searches have found.  Entries are not behind the segment, exits not
\* before it, and a search leaves out neighbours only at an entry or exit.
SearchInv ==
  /\ \A e \in entries : checkIfBeforeEntryFrontier(e)
  /\ exits \cap NoExit = {}
  /\ phase = "entries" =>
       /\ ssI \subseteq visited \cup Elements(queue)
       /\ \A v \in visited : EntrySearched(v, visited \cup Elements(queue))
  /\ phase # "entries" => \E V \in SUBSET Nodes : UpClosed(V)
  /\ phase = "exits" =>
       /\ ssI \subseteq visited \cup Elements(queue)
       /\ \A v \in visited : ExitSearched(v, visited \cup Elements(queue))
  /\ phase \in {"extend", "run", "done"} => \E V \in SUBSET Nodes : DownClosed(V)

\* The blocks that the frontiers are extended to.
Around ==
  {i \in BlockStarts \ ssI : checkIfBeforeEntryFrontier(i) /\ checkIfAfterExitFrontier(i)}

\* A block around the segment that has been looked at has an entry that dominates
\* it and an exit before it, or is one itself.
ExtensionInv ==
  /\ todo \subseteq Around
  /\ phase \in {"extend", "run", "done"} => \A i \in Around \ todo :
       /\ i \in entries \/ isDominatedByOtherEntry(i)
       /\ i \in exits \/ isReachableFromOtherExit(i)
  /\ phase \in {"run", "done"} => todo = {}
  /\ phase \in {"entries", "exits", "extend"} => at = 1 /\ waited = FALSE /\ signals = 0

\* The segment cannot be reached from i any more.
Late(i) == Reachable[i] \cap ssI = {}

\* The segment can be reached, and the entries are still to come.
Early(p) == p \notin entries /\ p \notin Above /\ ~ Late(p)

\* An iteration that is at i and has not waited.
NotWaited(i) ==
  /\ i = 1 \/ \E p \in Nodes : Onward(p, i) /\ Early(p)
  /\ \A e \in entries : ~ Dominates(e, i)
  /\ i \notin entries => Early(i)

\* An iteration that is at i and has not signalled will come to an exit or has
\* just left one.
NotSignalled(i) ==
  \/ \E x \in exits : Conditional(x) /\ i \in succ[x]
  \/ \E p \in SignalPoints : Conditional(p) /\ ~ BeforeWait(p) /\ i \in succ[p]
  \/ i \in exits
  \/ ~ Late(i)

\* An iteration signals only when the segment is behind it, and has then waited.
IterationInv ==
  /\ phase = "run" =>
       /\ ~ waited => signals = 0 /\ NotWaited(at)
       /\ signals > 0 => Late(at)
       /\ signals = 0 => NotSignalled(at)
  /\ phase = "done" => waited /\ signals > 0

\* The inductive invariant.
FrontierInv == TypeOK /\ GraphInv /\ SearchInv /\ ExtensionInv /\ IterationInv

-----------------------------------------------------------------------------
(* Paths.  Both recursive functions of the model collect what can be       *)
(* reached; Dominates leaves out what is behind one instruction.           *)

\* One step of the recursion.  No instruction is 0, so that d = 0 leaves out
\* nothing.
Further(R, d, i) ==
  IF i = d THEN {} ELSE {i} \cup UNION {R[j] : j \in succ[i] \ {i}}

\* R[i] is what can be reached from i without passing d.
Reaches(R, d) == R = [i \in Nodes |-> Further(R, d, i)]

\* The function inside Dominates.
Avoiding(d) ==
  LET Avoiding[j \in Nodes] ==
        IF j = d THEN {} ELSE {j} \cup UNION {Avoiding[k] : k \in succ[j] \ {j}}
  IN  Avoiding

\* There is such a function, because edges lead forward.
LEMMA ReachesExist ==
  ASSUME GraphInv, NEW d
  PROVE  \E R : Reaches(R, d)
<1> DEFINE D(m) == {k \in Nodes : N - k < m}
           Upto(m, F) == F = [k \in D(m) |-> Further(F, d, k)]
           Bad == {m \in Nat : ~ \E F : Upto(m, F)}
<1>0. \A k \in Nodes : \A j \in succ[k] \ {k} : j \in Nodes /\ k \in Nat /\ j \in Nat /\ k < j
  <2> SUFFICES ASSUME NEW k \in Nodes, NEW j \in succ[k] \ {k}
               PROVE  j \in Nodes /\ k \in Nat /\ j \in Nat /\ k < j
    OBVIOUS
  <2>1. j \in Nodes /\ k <= j /\ j # k
    BY DEF GraphInv
  <2>2. j \in Nat /\ k \in Nat
    BY <2>1, NodeFacts
  <2> QED BY <2>1, <2>2
<1>1. ASSUME NEW m \in Nat, NEW F, Upto(m, F) PROVE \E H : Upto(m + 1, H)
  <2> DEFINE H == [k \in D(m + 1) |-> Further(F, d, k)]
  <2>1. ASSUME NEW k \in D(m) PROVE H[k] = F[k]
    <3>1. k \in D(m + 1)
      BY NodeFacts
    <3>2. F[k] = Further(F, d, k)
      BY <1>1, Zenon
    <3> HIDE DEF D
    <3> QED BY <3>1, <3>2
  <2>2. ASSUME NEW k \in D(m + 1) PROVE Further(F, d, k) = Further(H, d, k)
    <3>1. ASSUME NEW j \in succ[k] \ {k} PROVE j \in D(m)
      <4>1. k \in Nodes /\ N - k < m + 1 /\ N \in Nat
        BY NodeFacts
      <4>2. j \in Nodes /\ k \in Nat /\ j \in Nat /\ k < j
        BY <1>0, <4>1
      <4>3. N - j < m
        BY <4>1, <4>2
      <4> QED BY <4>2, <4>3
    <3>2. \A j \in succ[k] \ {k} : H[j] = F[j]
      BY <2>1, <3>1
    <3> HIDE DEF H, D
    <3>3. {H[j] : j \in succ[k] \ {k}} = {F[j] : j \in succ[k] \ {k}}
      BY <3>2, Zenon
    <3> QED BY <3>3 DEF Further
  <2>3. Upto(m + 1, H)
    <3> HIDE DEF D
    <3> QED BY <2>2, Zenon
  <2> HIDE DEF Upto, H
  <2> QED BY <2>3
<1>2. ASSUME Bad # {} PROVE FALSE
  <2>1. PICK m \in Bad : \A j \in Bad : m <= j
    BY <1>2, SmallestOf
  <2>2. m \in Nat /\ ~ \E F : Upto(m, F)
    OBVIOUS
  <2>3. m # 0
    <3> DEFINE Z == [k \in D(0) |-> {}]
    <3>1. \A k \in D(0) : FALSE
      BY NodeFacts
    <3>2. Upto(0, Z)
      <4> HIDE DEF D
      <4> QED BY <3>1, Zenon
    <3> HIDE DEF Upto, Z
    <3> QED BY <2>2, <3>2
  <2> HIDE DEF Upto
  <2>4. m - 1 \in Nat /\ m - 1 \notin Bad
    <3> HIDE DEF Bad
    <3> QED BY <2>1, <2>2, <2>3
  <2>5. PICK F : Upto(m - 1, F)
    BY <2>4
  <2>6. \E H : Upto((m - 1) + 1, H)
    BY <1>1, <2>4, <2>5
  <2>7. (m - 1) + 1 = m
    BY <2>2
  <2> QED BY <2>2, <2>6, <2>7
<1>3. PICK F : Upto(N, F)
  <2>1. N \in Nat
    BY NodeFacts
  <2> HIDE DEF Upto
  <2> QED BY <1>2, <2>1
<1>4. D(N) = Nodes
  <2>1. \A k \in Nodes : N - k < N
    BY NodeFacts
  <2> QED BY <2>1, Zenon
<1> QED BY <1>3, <1>4, Zenon DEF Reaches

\* The function inside Dominates is what can be reached without passing d.
LEMMA AvoidingIs ==
  ASSUME GraphInv, NEW d
  PROVE  Reaches(Avoiding(d), d)
<1>1. Avoiding(d) = CHOOSE R : Reaches(R, d)
  BY DEF Avoiding, Reaches, Further
<1> QED BY <1>1, ReachesExist, Zenon

\* Reachable is what can be reached.
LEMMA ReachableIs ==
  ASSUME GraphInv
  PROVE  Reaches(Reachable, 0)
<1> DEFINE Q(R) == R = [i \in Nodes |-> {i} \cup UNION {R[j] : j \in succ[i] \ {i}}]
<1>1. \A R : Reaches(R, 0) <=> Q(R)
  <2>1. \A i \in Nodes : i # 0
    BY NodeFacts
  <2>2. \A R : [i \in Nodes |-> {i} \cup UNION {R[j] : j \in succ[i] \ {i}}]
               = [i \in Nodes |-> Further(R, 0, i)]
    BY <2>1 DEF Further
  <2> QED BY <2>2, Zenon DEF Reaches
<1>2. Reachable = CHOOSE R : Q(R)
  BY DEF Reachable
<1>3. \E R : Q(R)
  BY <1>1, ReachesExist
<1>4. Q(Reachable)
  <2> HIDE DEF Q
  <2> QED BY <1>2, <1>3, Zenon
<1> HIDE DEF Q
<1> QED BY <1>1, <1>4

\* What d dominates cannot be reached from the header without passing d.
LEMMA DominatesIs ==
  ASSUME NEW d, NEW i
  PROVE  Dominates(d, i) <=> d # i /\ i \notin Avoiding(d)[1]
BY DEF Dominates, Avoiding

\* An edge that goes on leads forward.
LEMMA OnwardFacts ==
  ASSUME GraphInv, NEW p \in Nodes, NEW q, Onward(p, q)
  PROVE  q \in Nodes /\ p \in Nat /\ q \in Nat /\ p < q
<1>1. q \in Nodes /\ p <= q /\ q # p
  BY DEF GraphInv, Onward
<1>2. q \in Nat /\ p \in Nat
  BY <1>1, NodeFacts
<1> QED BY <1>1, <1>2

\* A path has a first step.
LEMMA ReachesStep ==
  ASSUME NEW R, NEW d, Reaches(R, d), NEW i \in Nodes
  PROVE  /\ i = d => R[i] = {}
         /\ i # d => i \in R[i]
         /\ i # d => \A k : Onward(i, k) => R[k] \subseteq R[i]
         /\ i # d => \A j \in R[i] \ {i} : \E k : Onward(i, k) /\ j \in R[k]
<1>1. R[i] = Further(R, d, i)
  BY Zenon DEF Reaches
<1> QED BY <1>1 DEF Further, Onward

\* What is reached is a node behind, and not d.
LEMMA ReachesForward ==
  ASSUME GraphInv, NEW R, NEW d, Reaches(R, d), NEW i \in Nodes, NEW j \in R[i]
  PROVE  j \in Nodes /\ i <= j /\ j # d /\ i # d
<1> DEFINE S == {k \in Nodes : \A n \in R[k] : n \in Nodes /\ k <= n /\ n # d /\ k # d}
<1>1. ASSUME NEW k \in Nodes, \A m \in Nodes : k < m => m \in S, NEW n \in R[k]
      PROVE  n \in Nodes /\ k <= n /\ n # d /\ k # d
  <2>1. k # d
    BY ReachesStep
  <2>2. CASE n = k
    BY <2>1, <2>2, NodeFacts
  <2>3. CASE n # k
    <3>1. PICK m : Onward(k, m) /\ n \in R[m]
      BY <2>1, <2>3, ReachesStep
    <3>2. m \in Nodes /\ k \in Nat /\ m \in Nat /\ k < m
      BY <3>1, OnwardFacts
    <3>3. n \in Nodes /\ m <= n /\ n # d
      BY <1>1, <3>1, <3>2
    <3>4. n \in Nat
      BY <3>3, NodeFacts
    <3> QED BY <2>1, <3>2, <3>3, <3>4
  <2> QED BY <2>2, <2>3
<1>2. S = Nodes
  <2>1. S \subseteq Nodes /\ \A k \in Nodes : (\A m \in Nodes : k < m => m \in S) => k \in S
    BY <1>1
  <2> HIDE DEF S
  <2> QED BY <2>1, LastToFirst
<1> QED BY <1>2

\* What is reached from what is reached is reached.
LEMMA ReachesTransitive ==
  ASSUME GraphInv, NEW R, NEW d, Reaches(R, d), NEW i \in Nodes, NEW j \in R[i]
  PROVE  R[j] \subseteq R[i]
<1> DEFINE S == {k \in Nodes : \A n \in R[k] : R[n] \subseteq R[k]}
<1>1. ASSUME NEW k \in Nodes, \A m \in Nodes : k < m => m \in S, NEW n \in R[k]
      PROVE  R[n] \subseteq R[k]
  <2>1. k # d
    BY ReachesStep
  <2>2. CASE n = k
    BY <2>2
  <2>3. CASE n # k
    <3>1. PICK m : Onward(k, m) /\ n \in R[m]
      BY <2>1, <2>3, ReachesStep
    <3>2. m \in Nodes /\ k < m
      BY <3>1, OnwardFacts
    <3>3. R[n] \subseteq R[m]
      BY <1>1, <3>1, <3>2
    <3>4. R[m] \subseteq R[k]
      BY <2>1, <3>1, ReachesStep
    <3> QED BY <3>3, <3>4
  <2> QED BY <2>2, <2>3
<1>2. S = Nodes
  <2>1. S \subseteq Nodes /\ \A k \in Nodes : (\A m \in Nodes : k < m => m \in S) => k \in S
    BY <1>1
  <2> HIDE DEF S
  <2> QED BY <2>1, LastToFirst
<1> QED BY <1>2

\* A path has a last step.
LEMMA ReachesLast ==
  ASSUME GraphInv, NEW R, NEW d, Reaches(R, d), NEW i \in Nodes, NEW j \in R[i], j # i
  PROVE  \E p \in Nodes : p \in R[i] /\ Onward(p, j)
<1> DEFINE S == {k \in Nodes : \A n \in R[k] :
                   n # k => \E p \in Nodes : p \in R[k] /\ Onward(p, n)}
<1>1. ASSUME NEW k \in Nodes, \A m \in Nodes : k < m => m \in S, NEW n \in R[k], n # k
      PROVE  \E p \in Nodes : p \in R[k] /\ Onward(p, n)
  <2>1. k # d
    BY ReachesStep
  <2>2. PICK m : Onward(k, m) /\ n \in R[m]
    BY <1>1, <2>1, ReachesStep
  <2>3. m \in Nodes /\ k < m
    BY <2>2, OnwardFacts
  <2>4. k \in R[k] /\ R[m] \subseteq R[k]
    BY <2>1, <2>2, ReachesStep
  <2>5. CASE n = m
    BY <2>2, <2>4, <2>5
  <2>6. CASE n # m
    <3>1. \E p \in Nodes : p \in R[m] /\ Onward(p, n)
      BY <1>1, <2>2, <2>3, <2>6
    <3> QED BY <2>4, <3>1
  <2> QED BY <2>5, <2>6
<1>2. S = Nodes
  <2>1. S \subseteq Nodes /\ \A k \in Nodes : (\A m \in Nodes : k < m => m \in S) => k \in S
    BY <1>1
  <2> HIDE DEF S
  <2> QED BY <2>1, LastToFirst
<1> QED BY <1>2

\* Reachable is a partial order on the instructions.
LEMMA ReachableFacts ==
  ASSUME GraphInv, NEW i \in Nodes
  PROVE  /\ i \in Reachable[i] /\ Reachable[i] \subseteq Nodes
         /\ \A j \in Reachable[i] : i <= j /\ Reachable[j] \subseteq Reachable[i]
         /\ \A q : Onward(i, q) => Reachable[q] \subseteq Reachable[i] \ {i}
         /\ \A j \in Reachable[i] \ {i} : \E k : Onward(i, k) /\ j \in Reachable[k]
         /\ \A j \in Reachable[i] \ {i} : \E p \in Nodes : p \in Reachable[i] /\ Onward(p, j)
<1>1. Reaches(Reachable, 0) /\ i # 0
  BY ReachableIs, NodeFacts
<1>2. i \in Reachable[i] /\ Reachable[i] \subseteq Nodes
  BY <1>1, ReachesStep, ReachesForward
<1>3. \A j \in Reachable[i] : i <= j /\ Reachable[j] \subseteq Reachable[i]
  BY <1>1, ReachesForward, ReachesTransitive
<1>4. ASSUME NEW q, Onward(i, q) PROVE Reachable[q] \subseteq Reachable[i] \ {i}
  <2>1. q \in Nodes /\ i \in Nat /\ q \in Nat /\ i < q
    BY <1>4, OnwardFacts
  <2>2. Reachable[q] \subseteq Reachable[i]
    BY <1>1, <1>4, ReachesStep
  <2>3. i \notin Reachable[q]
    <3>1. ASSUME i \in Reachable[q] PROVE q <= i
      BY <1>1, <2>1, <3>1, ReachesForward
    <3> QED BY <2>1, <3>1
  <2> QED BY <2>2, <2>3
<1>5. \A j \in Reachable[i] \ {i} : \E k : Onward(i, k) /\ j \in Reachable[k]
  BY <1>1, ReachesStep
<1>6. \A j \in Reachable[i] \ {i} : \E p \in Nodes : p \in Reachable[i] /\ Onward(p, j)
  BY <1>1, ReachesLast
<1> QED BY <1>2, <1>3, <1>4, <1>5, <1>6

\* The header comes before everything else and nothing before it.
LEMMA HeaderFacts ==
  ASSUME GraphInv
  PROVE  /\ \A i \in Nodes : i \in Reachable[1]
         /\ Preds(1) = {} /\ ~ InNestedLoop(1) /\ Before(1) = {}
         /\ \A d : ~ Dominates(d, 1)
<1>1. 1 \in Nodes /\ \A i \in Nodes : i \in Nat /\ 1 <= i
  BY NodeFacts
<1>2. \A p \in Nodes : ~ Onward(p, 1)
  <2>1. ASSUME NEW p \in Nodes, Onward(p, 1) PROVE FALSE
    <3>1. p < 1 /\ p \in Nat
      BY <2>1, OnwardFacts
    <3> QED BY <1>1, <3>1
  <2> QED BY <2>1
<1>3. ~ InNestedLoop(1)
  <2>1. ASSUME InNestedLoop(1) PROVE FALSE
    <3>1. PICK p \in Nodes : \A q \in Nodes : Onward(q, 1) <=> q = p
      BY <1>1, <2>1 DEF GraphInv
    <3> QED BY <1>2, <3>1
  <2> QED BY <2>1
<1>4. Preds(1) = {}
  BY <1>2, <1>3 DEF Preds, Onward, InNestedLoop
<1>5. ASSUME NEW j \in Before(1) PROVE FALSE
  <2>1. j \in Nodes /\ j # 1 /\ 1 \in Reachable[j]
    BY DEF Before
  <2>2. j <= 1
    BY <2>1, ReachableFacts
  <2> QED BY <1>1, <2>1, <2>2
<1>6. ASSUME NEW d PROVE ~ Dominates(d, 1)
  <2>1. CASE d = 1
    BY <2>1, DominatesIs
  <2>2. CASE d # 1
    <3>1. 1 \in Avoiding(d)[1]
      BY <1>1, <2>2, AvoidingIs, ReachesStep
    <3> QED BY <3>1, DominatesIs
  <2> QED BY <2>1, <2>2
<1>7. \A i \in Nodes : i \in Reachable[1]
  <2> DEFINE S == {i \in Nodes : i \in Reachable[1]}
  <2>1. ASSUME NEW i \in Nodes, \A j \in Nodes : j < i => j \in S PROVE i \in S
    <3>1. CASE i = 1
      BY <1>1, <3>1, ReachableFacts
    <3>2. CASE i # 1
      <4>1. PICK p \in Nodes : Onward(p, i)
        BY <3>2 DEF GraphInv
      <4>2. p < i
        BY <4>1, OnwardFacts
      <4>3. p \in Reachable[1]
        BY <2>1, <4>2
      <4>4. i \in Reachable[p]
        BY <4>1, ReachableFacts
      <4>5. Reachable[p] \subseteq Reachable[1]
        BY <1>1, <4>3, ReachableFacts
      <4> QED BY <4>4, <4>5
    <3> QED BY <3>1, <3>2
  <2>2. S \subseteq Nodes
    OBVIOUS
  <2>3. S = Nodes
    <3> HIDE DEF S
    <3> QED BY <2>1, <2>2, FirstToLast
  <2> QED BY <2>3
<1> QED BY <1>3, <1>4, <1>5, <1>6, <1>7

\* A path that has not come through d can go on without it.
LEMMA NotDominated ==
  ASSUME GraphInv, NEW d \in Nodes, NEW p \in Nodes, NEW q, Onward(p, q), d # p,
         ~ Dominates(d, p)
  PROVE  ~ Dominates(d, q)
<1>1. p \in Avoiding(d)[1] /\ Reaches(Avoiding(d), d) /\ 1 \in Nodes
  BY DominatesIs, AvoidingIs, NodeFacts
<1>2. CASE d = q
  BY <1>2, DominatesIs
<1>3. CASE d # q
  <2>1. q \in Nodes
    BY OnwardFacts
  <2>2. q \in Avoiding(d)[q] /\ Avoiding(d)[q] \subseteq Avoiding(d)[p]
    BY <1>1, <1>3, <2>1, ReachesStep
  <2>3. Avoiding(d)[p] \subseteq Avoiding(d)[1]
    BY <1>1, ReachesTransitive
  <2> QED BY <2>2, <2>3, DominatesIs
<1> QED BY <1>2, <1>3

\* A nested loop is left through a conditional branch and entered through a
\* preheader.
LEMMA NestedFacts ==
  ASSUME GraphInv, NEW i \in Nodes, InNestedLoop(i)
  PROVE  /\ Conditional(i) /\ i # N /\ i # 1
         /\ \A p \in Nodes : Onward(p, i) => ~ Conditional(p) /\ succ[p] = {i}
<1>1. i # N
  BY DEF GraphInv, InNestedLoop
<1>2. Conditional(i)
  <2>1. PICK q \in succ[i] : q # i
    BY <1>1 DEF GraphInv
  <2> QED BY <2>1 DEF GraphInv, InNestedLoop
<1>3. i # 1
  BY HeaderFacts
<1>4. PICK p \in Nodes : succ[p] = {i} /\ \A q \in Nodes : Onward(q, i) <=> q = p
  BY DEF GraphInv
<1>5. ~ Conditional(p)
  BY <1>4 DEF GraphInv
<1> QED BY <1>1, <1>2, <1>3, <1>4, <1>5

\* What comes after an unconditional instruction.
LEMMA StraightFacts ==
  ASSUME GraphInv, NEW p \in Nodes, ~ Conditional(p), NEW q \in succ[p]
  PROVE  /\ Onward(p, q) /\ succ[p] = {q} /\ ~ InNestedLoop(p)
         /\ Reachable[p] = {p} \cup Reachable[q]
<1>1. ~ InNestedLoop(p)
  BY NestedFacts
<1>2. succ[p] = {q}
  BY DEF GraphInv
<1>3. Onward(p, q)
  BY <1>1 DEF Onward, InNestedLoop
<1>4. \A k : Onward(p, k) => k = q
  BY <1>2 DEF Onward
<1>5. Reachable[p] = {p} \cup Reachable[q]
  BY <1>3, <1>4, ReachableFacts
<1> QED BY <1>1, <1>2, <1>3, <1>5

\* What comes after a conditional branch starts a block that has no other way in.
LEMMA BranchFacts ==
  ASSUME GraphInv, NEW p \in Nodes, Conditional(p), NEW q, Onward(p, q)
  PROVE  /\ q \in BlockStarts /\ ~ InNestedLoop(q)
         /\ \A b \in Nodes \ {q} : q \in Reachable[b] => p \in Reachable[b]
<1>1. q \in Nodes
  BY OnwardFacts
<1>2. ~ InNestedLoop(q)
  BY <1>1, NestedFacts
<1>3. q \in BlockStarts
  BY <1>1 DEF BlockStarts, Preds, Onward
<1>4. ASSUME NEW b \in Nodes \ {q}, q \in Reachable[b] PROVE p \in Reachable[b]
  <2>1. PICK r \in Nodes : r \in Reachable[b] /\ Onward(r, q)
    BY <1>4, ReachableFacts
  <2>2. r = p
    BY <1>1, <2>1 DEF GraphInv
  <2> QED BY <2>1, <2>2
<1> QED BY <1>2, <1>3, <1>4

\* The latch.
LEMMA LatchFacts ==
  ASSUME GraphInv
  PROVE  /\ N \in Nodes /\ succ[N] = {} /\ Reachable[N] = {N}
         /\ ~ Conditional(N) /\ ~ InNestedLoop(N)
<1>1. N \in Nodes /\ succ[N] = {}
  BY NodeFacts DEF GraphInv
<1>2. ~ Conditional(N)
  BY <1>1, FS_EmptySet DEF Conditional
<1>3. \A k : ~ Onward(N, k)
  BY <1>1 DEF Onward
<1> QED BY <1>1, <1>2, <1>3, ReachableFacts DEF InNestedLoop

\* Behind the segment it stays behind.
LEMMA LateFacts ==
  ASSUME GraphInv, NEW p \in Nodes, NEW q \in succ[p]
  PROVE  /\ Late(p) => Late(q)
         /\ Onward(p, q) /\ checkIfAfterExitFrontier(p) => Late(q)
         /\ checkIfAfterExitFrontier(p) /\ p \notin ssI => Late(p)
<1>1. Onward(p, q) \/ q = p
  BY DEF Onward
<1>2. Onward(p, q) => Reachable[q] \subseteq Reachable[p] \ {p}
  BY ReachableFacts
<1> QED BY <1>1, <1>2 DEF Late, checkIfAfterExitFrontier

-----------------------------------------------------------------------------
(* The queues of the traversals.                                           *)

\* Each order of a set has all of its elements.
LEMMA OrderFacts ==
  ASSUME NEW S, S \subseteq Nodes, NEW q \in SetToSeqs(S)
  PROVE  q \in Seq(Nodes) /\ Elements(q) = S
<1>1. IsFiniteSet(S)
  BY NodeFacts
<1>2. PICK n : n = Cardinality(S)
  OBVIOUS
<1>3. n \in Nat
  BY <1>1, <1>2, FS_CardinalityType
<1>4. q \in [1 .. n -> S] /\ \A i, j \in 1 .. n : i # j => q[i] # q[j]
  BY <1>2 DEF SetToSeqs
<1>5. q \in Seq(Nodes) /\ Len(q) = n
  BY <1>3, <1>4
<1>6. Elements(q) \subseteq S
  BY <1>4, <1>5 DEF Elements
<1>7. ASSUME NEW s \in S, s \notin Elements(q) PROVE FALSE
  <2>1. q \in [1 .. n -> S \ {s}]
    BY <1>4, <1>5, <1>7 DEF Elements
  <2>2. IsFiniteSet(S \ {s}) /\ Cardinality(S \ {s}) = n - 1
    BY <1>1, <1>2, <1>7, FS_RemoveElement
  <2>3. IsFiniteSet(1 .. n) /\ Cardinality(1 .. n) = n
    <3>1. 1 \in Int /\ n \in Int
      BY <1>3
    <3>2. IsFiniteSet(1 .. n) /\ Cardinality(1 .. n) = IF 1 > n THEN 0 ELSE n - 1 + 1
      BY <3>1, FS_Interval
    <3> QED BY <1>3, <3>2
  <2>4. Cardinality(S \ {s}) < Cardinality(1 .. n)
    BY <1>3, <2>2, <2>3
  <2>5. \E x, y \in 1 .. n : x # y /\ q[x] = q[y]
    <3>1. IsFiniteSet(1 .. n) /\ IsFiniteSet(S \ {s})
      BY <2>2, <2>3
    <3> QED BY ONLY <2>1, <2>4, <3>1, FS_PigeonHole, Zenon
  <2> QED BY <1>4, <2>5
<1> QED BY <1>5, <1>6, <1>7

\* The first element and the others.
LEMMA HeadFacts ==
  ASSUME NEW q \in Seq(Nodes), q # <<>>
  PROVE  /\ Head(q) \in Nodes /\ Tail(q) \in Seq(Nodes)
         /\ Elements(q) = {Head(q)} \cup Elements(Tail(q))
<1>1. Len(q) \in Nat /\ Len(q) > 0 /\ q \in [1 .. Len(q) -> Nodes]
  OBVIOUS
<1>2. Tail(q) \in Seq(Nodes) /\ Head(q) = q[1] /\ Head(q) \in Nodes
  BY <1>1
<1>3. Len(Tail(q)) = Len(q) - 1 /\ \A k \in 1 .. Len(q) - 1 : Tail(q)[k] = q[k + 1]
  BY <1>1
<1>4. \A k \in 1 .. Len(q) : k = 1 \/ (k - 1 \in 1 .. Len(q) - 1 /\ (k - 1) + 1 = k)
  BY <1>1
<1>5. \A k \in 1 .. Len(q) - 1 : k + 1 \in 1 .. Len(q)
  BY <1>1
<1>6. 1 \in 1 .. Len(q)
  BY <1>1
<1>7. Elements(q) \subseteq {Head(q)} \cup Elements(Tail(q))
  <2> SUFFICES ASSUME NEW k \in 1 .. Len(q) PROVE q[k] = Head(q) \/ q[k] \in Elements(Tail(q))
    BY DEF Elements
  <2>1. CASE k = 1
    BY <1>2, <2>1
  <2>2. CASE k # 1
    <3>1. k - 1 \in 1 .. Len(q) - 1 /\ Tail(q)[k - 1] = q[k]
      BY <1>3, <1>4, <2>2
    <3>2. k - 1 \in 1 .. Len(Tail(q))
      BY <1>3, <3>1
    <3> QED BY <3>1, <3>2, Zenon DEF Elements
  <2> QED BY <2>1, <2>2
<1>8. {Head(q)} \cup Elements(Tail(q)) \subseteq Elements(q)
  <2>1. Head(q) \in Elements(q)
    BY <1>2, <1>6 DEF Elements
  <2>2. ASSUME NEW k \in 1 .. Len(q) - 1 PROVE Tail(q)[k] \in Elements(q)
    BY <1>3, <1>5 DEF Elements
  <2> QED BY <1>3, <2>1, <2>2 DEF Elements
<1> QED BY <1>2, <1>7, <1>8

\* The elements of a concatenation.
LEMMA ConcatFacts ==
  ASSUME NEW q \in Seq(Nodes), NEW r \in Seq(Nodes)
  PROVE  q \o r \in Seq(Nodes) /\ Elements(q \o r) = Elements(q) \cup Elements(r)
<1>1. PICK m, n : m = Len(q) /\ n = Len(r)
  OBVIOUS
<1>2. m \in Nat /\ n \in Nat /\ q \o r \in Seq(Nodes) /\ Len(q \o r) = m + n
  BY <1>1
<1>3. \A k \in 1 .. m + n : (q \o r)[k] = IF k <= m THEN q[k] ELSE r[k - m]
  BY <1>1
<1>4. ASSUME NEW x \in Elements(q \o r) PROVE x \in Elements(q) \cup Elements(r)
  <2>1. PICK k \in 1 .. m + n : x = (q \o r)[k]
    BY <1>2 DEF Elements
  <2>2. CASE k <= m
    <3>1. k \in 1 .. m /\ x = q[k]
      BY <1>2, <1>3, <2>1, <2>2
    <3> QED BY <1>1, <3>1 DEF Elements
  <2>3. CASE ~(k <= m)
    <3>1. k - m \in 1 .. n /\ x = r[k - m]
      BY <1>2, <1>3, <2>1, <2>3
    <3> QED BY <1>1, <3>1, Zenon DEF Elements
  <2> QED BY <2>2, <2>3
<1>5. ASSUME NEW x \in Elements(q) PROVE x \in Elements(q \o r)
  <2>1. PICK k \in 1 .. m : x = q[k]
    BY <1>1 DEF Elements
  <2>2. k \in 1 .. m + n /\ (q \o r)[k] = x
    BY <1>2, <1>3, <2>1
  <2> QED BY <1>2, <2>2 DEF Elements
<1>6. ASSUME NEW x \in Elements(r) PROVE x \in Elements(q \o r)
  <2>1. PICK k \in 1 .. n : x = r[k]
    BY <1>1 DEF Elements
  <2>2. k + m \in 1 .. m + n /\ ~(k + m <= m) /\ (k + m) - m = k
    BY <1>2
  <2>3. (q \o r)[k + m] = x
    BY <1>3, <2>1, <2>2
  <2>4. k + m \in 1 .. Len(q \o r)
    BY <1>2, <2>2
  <2> QED BY <2>3, <2>4, Zenon DEF Elements
<1> QED BY <1>2, <1>4, <1>5, <1>6

\* An empty queue.
LEMMA EmptyFacts == Elements(<<>>) = {}
BY DEF Elements

-----------------------------------------------------------------------------
(* What the analysis has found when it is done.                            *)

\* SearchInv and ExtensionInv when nothing is left to do.
Placed ==
  /\ GraphInv /\ entries \subseteq Nodes /\ exits \subseteq Nodes
  /\ \A e \in entries : checkIfBeforeEntryFrontier(e)
  /\ exits \cap NoExit = {}
  /\ \E V \in SUBSET Nodes : UpClosed(V)
  /\ \E V \in SUBSET Nodes : DownClosed(V)
  /\ \A i \in Around :
       /\ i \in entries \/ isDominatedByOtherEntry(i)
       /\ i \in exits \/ isReachableFromOtherExit(i)

\* A segment has instructions, and they are in the loop.
LEMMA SegmentFacts ==
  ASSUME GraphInv
  PROVE  ssI \subseteq Nodes /\ ssI # {}
BY FrontierAssumption DEF GraphInv, FrontierAssumption

\* What every search has visited is itself closed.
LEMMA AboveClosed ==
  ASSUME Placed
  PROVE  Above \subseteq Nodes /\ UpClosed(Above)
<1>1. PICK W \in SUBSET Nodes : UpClosed(W)
  BY DEF Placed
<1>2. ssI \subseteq Above
  BY SegmentFacts DEF Placed, Above, UpClosed
<1>3. ASSUME NEW v \in Above, v \notin entries PROVE v # 1 /\ Preds(v) \subseteq Above
  <2>1. ASSUME NEW V \in SUBSET Nodes, UpClosed(V) PROVE v # 1 /\ Preds(v) \subseteq V
    BY <1>3, <2>1 DEF Above, UpClosed, EntrySearched
  <2>2. v # 1
    BY <1>1, <2>1
  <2>3. Preds(v) \subseteq Nodes
    BY DEF Preds
  <2> QED BY <2>1, <2>2, <2>3 DEF Above
<1>4. Above \subseteq Nodes
  BY DEF Above
<1> QED BY <1>2, <1>3, <1>4 DEF UpClosed, EntrySearched

\* What lies between two instructions of the segment has been visited.
LEMMA BetweenIsAbove ==
  ASSUME Placed, NEW p \in Nodes, NEW s \in ssI, p \in Reachable[s], ~ Late(p)
  PROVE  p \in Above
<1> DEFINE S == {i \in Nodes : i \in Reachable[s] /\ ~ Late(i) => i \in Above}
<1>1. GraphInv /\ UpClosed(Above) /\ s \in Nodes
  BY AboveClosed, SegmentFacts DEF Placed
<1>2. ASSUME NEW i \in Nodes, \A j \in Nodes : i < j => j \in S, i \in Reachable[s], ~ Late(i)
      PROVE  i \in Above
  <2>1. CASE i \in ssI
    BY <1>1, <2>1 DEF UpClosed
  <2>2. CASE i \notin ssI
    <3>1. PICK t \in ssI : t \in Reachable[i] \ {i}
      BY <1>2, <2>2 DEF Late
    <3>2. PICK k : Onward(i, k) /\ t \in Reachable[k]
      BY <1>1, <3>1, ReachableFacts
    <3>3. k \in Nodes /\ i < k
      BY <1>1, <3>2, OnwardFacts
    <3>4. k \in Reachable[i] /\ Reachable[i] \subseteq Reachable[s]
      BY <1>1, <1>2, <3>2, <3>3, ReachableFacts
    <3>5. k \in Above
      BY <1>2, <3>2, <3>3, <3>4 DEF Late
    <3>6. k # s
      <4>1. s \notin Reachable[k]
        <5>1. ASSUME s \in Reachable[k] PROVE FALSE
          <6>1. s \in Reachable[i] \ {i}
            BY <1>1, <3>2, <5>1, ReachableFacts
          <6>2. i <= s /\ s <= i /\ i \in Nat /\ s \in Nat
            BY <1>1, <1>2, <6>1, ReachableFacts, NodeFacts
          <6>3. i = s
            BY <6>2
          <6> QED BY <6>1, <6>3
        <5> QED BY <5>1
      <4> QED BY <1>1, <4>1, ReachableFacts
    <3>7. s \in Before(k)
      BY <1>1, <3>4, <3>6 DEF Before
    <3>8. k \notin entries
      BY <3>7 DEF Placed, checkIfBeforeEntryFrontier
    <3>9. Preds(k) \subseteq Above
      BY <1>1, <3>5, <3>8 DEF UpClosed, EntrySearched
    <3> QED BY <3>2, <3>9 DEF Preds, Onward
  <2> QED BY <2>1, <2>2
<1>3. S = Nodes
  <2>1. S \subseteq Nodes /\ \A i \in Nodes : (\A j \in Nodes : i < j => j \in S) => i \in S
    BY <1>2
  <2> HIDE DEF S
  <2> QED BY <2>1, LastToFirst
<1> QED BY <1>3

\* The same for the search for exits.
LEMMA BetweenIsBelow ==
  ASSUME Placed, NEW V \in SUBSET Nodes, DownClosed(V),
         NEW p \in Nodes, NEW s \in ssI, p \in Reachable[s], ~ Late(p)
  PROVE  p \in V
<1> DEFINE S == {i \in Nodes : i \in Reachable[s] /\ ~ Late(i) => i \in V}
<1>1. GraphInv /\ s \in Nodes
  BY SegmentFacts DEF Placed
<1>2. ASSUME NEW i \in Nodes, \A j \in Nodes : j < i => j \in S, i \in Reachable[s], ~ Late(i)
      PROVE  i \in V
  <2>1. CASE i \in ssI
    BY <2>1 DEF DownClosed
  <2>2. CASE i \notin ssI
    <3>1. PICK r \in Nodes : r \in Reachable[s] /\ Onward(r, i)
      BY <1>1, <1>2, <2>2, ReachableFacts
    <3>2. r < i
      BY <1>1, <3>1, OnwardFacts
    <3>3. Reachable[i] \subseteq Reachable[r] \ {r}
      BY <1>1, <3>1, ReachableFacts
    <3>4. r \in V
      BY <1>2, <3>1, <3>2, <3>3 DEF Late
    <3>5. r \notin exits
      BY <1>2, <3>3 DEF Placed, NoExit, Late, checkIfAfterExitFrontier
    <3>6. succ[r] \subseteq V
      BY <3>4, <3>5 DEF DownClosed, ExitSearched
    <3> QED BY <3>1, <3>6 DEF Onward
  <2> QED BY <2>1, <2>2
<1>3. S = Nodes
  <2>1. S \subseteq Nodes /\ \A i \in Nodes : (\A j \in Nodes : j < i => j \in S) => i \in S
    BY <1>2
  <2> HIDE DEF S
  <2> QED BY <2>1, FirstToLast
<1> QED BY <1>3

\* The last instruction of the segment is an exit.
LEMMA LastIsExit ==
  ASSUME Placed, NEW p \in ssI, ~ InNestedLoop(p), checkIfAfterExitFrontier(p)
  PROVE  p \in exits
<1>1. GraphInv /\ p \in Nodes
  BY SegmentFacts DEF Placed
<1>2. PICK V \in SUBSET Nodes : DownClosed(V)
  BY DEF Placed
<1>3. Before(p) \subseteq NoExit
  <2> SUFFICES ASSUME NEW b \in Before(p) PROVE b \in NoExit
    OBVIOUS
  <2>1. b \in Nodes \ {p} /\ p \in Reachable[b]
    BY DEF Before
  <2> QED BY <2>1 DEF NoExit, checkIfAfterExitFrontier
<1> QED BY <1>2, <1>3 DEF DownClosed, ExitSearched, Boundary

\* Where an iteration leaves the segment behind it finds an exit.
LEMMA LeavingIsExit ==
  ASSUME Placed, NEW p \in Nodes, ~ Late(p), p \notin exits, NEW q \in succ[p], Late(q)
  PROVE  q \in exits
<1>1. GraphInv /\ q \in Nodes /\ q # p /\ Onward(p, q)
  BY DEF Placed, GraphInv, Onward
<1>2. q \notin ssI /\ checkIfAfterExitFrontier(q)
  BY <1>1, ReachableFacts DEF Late, checkIfAfterExitFrontier
<1>3. Conditional(p)
  <2>1. ASSUME ~ Conditional(p) PROVE FALSE
    <3>1. ~ InNestedLoop(p) /\ Reachable[p] = {p} \cup Reachable[q]
      BY <1>1, <2>1, StraightFacts
    <3>2. p \in ssI /\ checkIfAfterExitFrontier(p)
      BY <3>1 DEF Late, checkIfAfterExitFrontier
    <3> QED BY <3>1, <3>2, LastIsExit
  <2> QED BY <2>1
<1>4. /\ q \in BlockStarts /\ ~ InNestedLoop(q)
      /\ \A b \in Nodes \ {q} : q \in Reachable[b] => p \in Reachable[b]
  BY <1>1, <1>3, BranchFacts
<1>5. p \in NoExit
  BY LastIsExit DEF NoExit, Late, checkIfAfterExitFrontier
<1>6. Before(q) \subseteq NoExit
  <2> SUFFICES ASSUME NEW b \in Before(q), b # p PROVE b \in NoExit
    BY <1>5
  <2>1. b \in Nodes \ {q} /\ p \in Reachable[b]
    BY <1>4 DEF Before
  <2>2. Reachable[p] \subseteq Reachable[b]
    BY <1>1, <2>1, ReachableFacts
  <2>3. b \notin Reachable[p]
    <3>1. b \in Nat /\ p \in Nat
      BY <2>1, NodeFacts
    <3>2. b <= p
      BY <1>1, <2>1, ReachableFacts
    <3>3. ASSUME b \in Reachable[p] PROVE p <= b
      BY <1>1, <3>3, ReachableFacts
    <3> QED BY <3>1, <3>2, <3>3
  <2> QED BY <2>1, <2>2, <2>3 DEF NoExit, Late, checkIfAfterExitFrontier
<1>7. CASE \E s \in ssI : p \in Reachable[s]
  <2>1. PICK V \in SUBSET Nodes : DownClosed(V)
    BY DEF Placed
  <2>2. p \in V
    BY <1>7, <2>1, BetweenIsBelow
  <2>3. q \in V
    BY <2>1, <2>2 DEF DownClosed, ExitSearched
  <2>4. Boundary(q)
    BY <1>2, <1>4, <1>6 DEF Boundary
  <2> QED BY <2>1, <2>3, <2>4 DEF DownClosed, ExitSearched
<1>8. CASE ~ \E s \in ssI : p \in Reachable[s]
  <2>1. checkIfBeforeEntryFrontier(q)
    BY <1>4, <1>8 DEF checkIfBeforeEntryFrontier, Before
  <2>2. q \in Around
    BY <1>2, <1>4, <2>1 DEF Around
  <2>3. q \in exits \/ Before(q) \cap exits # {}
    BY <2>2 DEF Placed, isReachableFromOtherExit
  <2> QED BY <1>6, <2>3 DEF Placed
<1> QED BY <1>7, <1>8

\* Where an iteration cannot reach the segment any more there is an entry that
\* it cannot have got around.
LEMMA EarlyGoesOn ==
  ASSUME Placed, NEW p \in Nodes, Early(p), NEW q \in Nodes, Onward(p, q),
         q \notin entries, \A e \in entries : ~ Dominates(e, q)
  PROVE  Early(q)
<1>1. GraphInv /\ UpClosed(Above)
  BY AboveClosed DEF Placed
<1>2. p \notin ssI /\ p \notin Above /\ ~ Late(p)
  BY <1>1 DEF Early, UpClosed
<1>3. q \notin Above
  <2>1. p \in Preds(q)
    BY DEF Preds, Onward
  <2> QED BY <1>1, <1>2, <2>1 DEF UpClosed, EntrySearched
<1>4. ASSUME Late(q) PROVE FALSE
  <2>1. Conditional(p)
    <3>1. ASSUME ~ Conditional(p) PROVE Reachable[p] = {p} \cup Reachable[q]
      BY <1>1, <3>1, StraightFacts DEF Onward
    <3> QED BY <1>2, <1>4, <3>1 DEF Late
  <2>2. /\ q \in BlockStarts
        /\ \A b \in Nodes \ {q} : q \in Reachable[b] => p \in Reachable[b]
    BY <1>1, <2>1, BranchFacts
  <2>3. ASSUME NEW s \in Before(q) \cap ssI PROVE FALSE
    <3>1. p \in Reachable[s]
      BY <2>2 DEF Before
    <3> QED BY <1>2, <3>1, BetweenIsAbove
  <2>4. q \notin ssI /\ checkIfAfterExitFrontier(q)
    BY <1>1, <1>4, ReachableFacts DEF Late, checkIfAfterExitFrontier
  <2>5. q \in Around
    BY <2>2, <2>3, <2>4 DEF Around, checkIfBeforeEntryFrontier
  <2> QED BY <2>5 DEF Placed, isDominatedByOtherEntry
<1> QED BY <1>3, <1>4 DEF Early

-----------------------------------------------------------------------------
(* One iteration over the placement.                                       *)

\* Behind an exit the segment cannot be reached any more.
LEMMA ExitFacts ==
  ASSUME Placed, NEW x \in exits
  PROVE  /\ x \in Nodes /\ checkIfAfterExitFrontier(x)
         /\ \A i \in succ[x] : Late(i)
<1>1. GraphInv /\ x \in Nodes /\ x \notin NoExit
  BY DEF Placed
<1>2. checkIfAfterExitFrontier(x) /\ ~(InNestedLoop(x) /\ x \in ssI)
  BY <1>1 DEF NoExit
<1>3. ASSUME NEW i \in succ[x] PROVE Late(i)
  <2>1. CASE i = x
    BY <1>1, <1>2, <2>1, LateFacts DEF InNestedLoop
  <2>2. CASE i # x
    BY <1>1, <1>2, <2>2, LateFacts DEF Onward
  <2> QED BY <2>1, <2>2
<1> QED BY <1>1, <1>2, <1>3

\* Nor behind a point that a signal is put at.
LEMMA SignalPointFacts ==
  ASSUME Placed, NEW i \in SignalPoints
  PROVE  /\ i \in Nodes /\ checkIfAfterExitFrontier(i)
         /\ Conditional(i) => Late(i)
<1>1. CASE i \in exits /\ ~ Conditional(i)
  BY <1>1, ExitFacts
<1>2. CASE \E x \in exits : Conditional(x) /\ i \in succ[x]
  <2>1. PICK x \in exits : i \in succ[x]
    BY <1>2
  <2>2. Late(i) /\ i \in Nodes
    BY <2>1, ExitFacts DEF Placed, GraphInv
  <2> QED BY <2>2 DEF Late, checkIfAfterExitFrontier
<1> QED BY <1>1, <1>2 DEF SignalPoints

\* The signals of a conditional signal point are in the blocks behind it.
SignalledBranch(p) == p \in SignalPoints /\ Conditional(p) /\ ~ BeforeWait(p)

\* When there is a signal before an instruction.
LEMMA SignalsBeforeIs ==
  ASSUME GraphInv, NEW i \in Nodes
  PROVE  /\ SignalsBefore(i) \in Nat /\ SignalsAfter(i) \in {0, 1}
         /\ SignalsBefore(i) > 0 <=>
              (\E p \in Nodes : i \in succ[p] /\ SignalledBranch(p)) \/ BeforeWait(i)
<1> DEFINE S == {p \in Preds(i) \cap SignalPoints : Conditional(p) /\ ~ BeforeWait(p)}
           b == IF BeforeWait(i) THEN 1 ELSE 0
<1>1. S \subseteq Nodes
  BY DEF Preds
<1>2. IsFiniteSet(S)
  BY <1>1, NodeFacts
<1>3. Cardinality(S) \in Nat /\ (Cardinality(S) = 0 <=> S = {})
  BY <1>2, FS_CardinalityType, FS_EmptySet
<1>4. S # {} <=> \E p \in Nodes : i \in succ[p] /\ SignalledBranch(p)
  BY DEF Preds, SignalledBranch
<1>5. SignalsBefore(i) = Cardinality(S) + b
  BY DEF SignalsBefore
<1>6. b \in Nat /\ (b = 0 <=> ~ BeforeWait(i))
  OBVIOUS
<1>7. SignalsAfter(i) \in {0, 1}
  BY DEF SignalsAfter
<1> HIDE DEF S, b
<1>8. Cardinality(S) + b \in Nat /\ (Cardinality(S) + b > 0 <=> Cardinality(S) # 0 \/ b # 0)
  BY <1>3, <1>6
<1> QED BY <1>3, <1>4, <1>5, <1>6, <1>7, <1>8

\* A signal is sent only where the segment cannot be reached any more.
LEMMA SignalsAreLate ==
  ASSUME Placed, NEW i \in Nodes
  PROVE  /\ SignalsBefore(i) > 0 => Late(i)
         /\ SignalsAfter(i) > 0 => \A j \in succ[i] : Late(j)
<1>1. GraphInv
  BY DEF Placed
<1>2. ASSUME SignalsBefore(i) > 0 PROVE Late(i)
  <2>1. CASE BeforeWait(i)
    BY <2>1, ExitFacts DEF BeforeWait
  <2>2. CASE \E p \in Nodes : i \in succ[p] /\ SignalledBranch(p)
    BY <1>1, <2>2, SignalPointFacts, LateFacts DEF SignalledBranch
  <2> QED BY <1>1, <1>2, <2>1, <2>2, SignalsBeforeIs
<1>3. ASSUME SignalsAfter(i) > 0, NEW j \in succ[i] PROVE Late(j)
  <2>1. i \in SignalPoints /\ ~ Conditional(i)
    BY <1>3 DEF SignalsAfter
  <2>2. Onward(i, j) /\ checkIfAfterExitFrontier(i)
    BY <1>1, <2>1, StraightFacts, SignalPointFacts
  <2> QED BY <1>1, <2>2, LateFacts
<1> QED BY <1>2, <1>3

\* No signal comes before the wait.
LEMMA NoEarlySignal ==
  ASSUME Placed, NEW i \in Nodes, NotWaited(i)
  PROVE  SignalsBefore(i) = 0 /\ (i \notin entries => SignalsAfter(i) = 0)
<1>1. GraphInv /\ UpClosed(Above)
  BY AboveClosed DEF Placed
<1>2. \A p : Early(p) => p \notin ssI /\ ~ Late(p)
  BY <1>1 DEF Early, UpClosed
<1>3. CASE i = 1
  <2>1. Preds(1) = {}
    BY <1>1, HeaderFacts
  <2>2. ~ (SignalsBefore(i) > 0)
    BY <1>1, <1>3, <2>1, SignalsBeforeIs DEF Preds, BeforeWait, Placed
  <2>3. ~ Late(1)
    BY <1>1, HeaderFacts, SegmentFacts DEF Late
  <2>4. ASSUME SignalsAfter(i) > 0 PROVE i \in entries
    <3>1. i \in SignalPoints
      BY <2>4 DEF SignalsAfter
    <3>2. checkIfAfterExitFrontier(i)
      BY <3>1, SignalPointFacts
    <3> QED BY <1>2, <3>2 DEF NotWaited, checkIfAfterExitFrontier, Late
  <2> QED BY <1>1, <2>2, <2>4, SignalsBeforeIs
<1>4. CASE i # 1
  <2>1. PICK p \in Nodes : Onward(p, i) /\ Early(p)
    BY <1>4 DEF NotWaited
  <2>2. p \notin ssI /\ ~ Late(p)
    BY <1>2, <2>1
  <2>3. ~ checkIfAfterExitFrontier(p)
    BY <2>2 DEF checkIfAfterExitFrontier, Late
  <2>4. ASSUME SignalsBefore(i) > 0 PROVE FALSE
    <3>1. Late(i)
      BY <2>4, SignalsAreLate
    <3>2. Conditional(p)
      <4>1. ASSUME ~ Conditional(p) PROVE Reachable[p] = {p} \cup Reachable[i]
        BY <1>1, <2>1, <4>1, StraightFacts DEF Onward
      <4> QED BY <2>2, <3>1, <4>1 DEF Late
    <3>3. \A q \in Nodes : i \in succ[q] => q = p
      BY <1>1, <2>1, <3>2, BranchFacts DEF GraphInv, Onward, InNestedLoop
    <3>4. CASE BeforeWait(i)
      <4>1. PICK x \in exits : i \in succ[x]
        BY <3>4 DEF BeforeWait
      <4>2. x = p
        BY <3>3, <4>1, ExitFacts
      <4> QED BY <2>3, <4>2, ExitFacts
    <3>5. CASE \E q \in Nodes : i \in succ[q] /\ SignalledBranch(q)
      <4>1. SignalledBranch(p)
        BY <3>3, <3>5
      <4> QED BY <2>3, <4>1, SignalPointFacts DEF SignalledBranch
    <3> QED BY <1>1, <2>4, <3>4, <3>5, SignalsBeforeIs
  <2>5. ASSUME SignalsAfter(i) > 0 PROVE i \in entries
    <3>1. i \in SignalPoints
      BY <2>5 DEF SignalsAfter
    <3>2. checkIfAfterExitFrontier(i)
      BY <3>1, SignalPointFacts
    <3> QED BY <1>2, <3>2 DEF NotWaited, checkIfAfterExitFrontier, Late
  <2> QED BY <1>1, <2>4, <2>5, SignalsBeforeIs
<1> QED BY <1>3, <1>4

\* An iteration that has not waited goes on.
LEMMA NotWaitedStep ==
  ASSUME Placed, NEW i \in Nodes, NotWaited(i), i \notin entries, NEW j \in succ[i]
  PROVE  NotWaited(j)
<1>1. CASE j = i
  BY <1>1
<1>2. CASE j # i
  <2>1. GraphInv /\ Onward(i, j) /\ entries \subseteq Nodes /\ j \in Nodes
    BY <1>2 DEF Placed, Onward, GraphInv
  <2>2. Early(i)
    BY DEF NotWaited
  <2>3. \A e \in entries : ~ Dominates(e, j)
    BY <2>1, NotDominated DEF NotWaited
  <2>4. j \notin entries => Early(j)
    BY <2>1, <2>2, <2>3, EarlyGoesOn
  <2> QED BY <2>1, <2>2, <2>3, <2>4 DEF NotWaited
<1> QED BY <1>1, <1>2

\* An iteration that has not signalled goes on.
LEMMA NotSignalledStep ==
  ASSUME Placed, NEW i \in Nodes, NotSignalled(i), SignalsBefore(i) = 0, SignalsAfter(i) = 0
  PROVE  i # N /\ \A j \in succ[i] : NotSignalled(j)
<1>1. GraphInv
  BY DEF Placed
<1>2. ~ BeforeWait(i) /\ ~ \E p \in Nodes : i \in succ[p] /\ SignalledBranch(p)
  BY <1>1, SignalsBeforeIs
<1>3. ~(i \in SignalPoints /\ ~ Conditional(i))
  BY <1>2 DEF SignalsAfter
<1>4. CASE \E x \in exits : Conditional(x) /\ i \in succ[x]
  <2>1. i \in SignalPoints
    BY <1>4 DEF SignalPoints
  <2>2. Conditional(i)
    BY <1>3, <2>1
  <2> QED BY <1>1, <1>2, <2>1, <2>2, LatchFacts DEF NotSignalled
<1>5. CASE \E p \in SignalPoints : Conditional(p) /\ ~ BeforeWait(p) /\ i \in succ[p]
  BY <1>2, <1>5, SignalPointFacts DEF SignalledBranch
<1>6. CASE i \in exits
  <2>1. Conditional(i)
    BY <1>3, <1>6 DEF SignalPoints
  <2> QED BY <1>1, <1>6, <2>1, LatchFacts DEF NotSignalled
<1>7. CASE ~ Late(i) /\ i \notin exits
  <2>1. i # N
    <3>1. ASSUME i = N PROVE FALSE
      <4>1. N \in ssI /\ checkIfAfterExitFrontier(N) /\ ~ InNestedLoop(N)
        BY <1>1, <1>7, <3>1, LatchFacts DEF Late, checkIfAfterExitFrontier
      <4> QED BY <1>7, <3>1, <4>1, LastIsExit
    <3> QED BY <3>1
  <2>2. \A j \in succ[i] : Late(j) => j \in exits
    BY <1>7, LeavingIsExit
  <2> QED BY <2>1, <2>2 DEF NotSignalled
<1> QED BY <1>4, <1>5, <1>6, <1>7 DEF NotSignalled

-----------------------------------------------------------------------------
(* The invariant holds in the beginning and every action preserves it.     *)

\* What is said of the loop alone stays.
LEMMA LoopUnchanged ==
  ASSUME succ' = succ, ssI' = ssI
  PROVE  /\ Reachable' = Reachable /\ NoExit' = NoExit /\ Around' = Around
         /\ GraphInv => GraphInv'
         /\ \A i : /\ Preds(i)' = Preds(i) /\ Before(i)' = Before(i)
                   /\ InNestedLoop(i)' <=> InNestedLoop(i)
                   /\ Conditional(i)' <=> Conditional(i)
                   /\ checkIfBeforeEntryFrontier(i)' <=> checkIfBeforeEntryFrontier(i)
                   /\ checkIfAfterExitFrontier(i)' <=> checkIfAfterExitFrontier(i)
                   /\ Boundary(i)' <=> Boundary(i)
                   /\ Late(i)' <=> Late(i)
                   /\ \A d : Dominates(d, i)' <=> Dominates(d, i)
<1>1. Reachable' = Reachable
  BY DEF Reachable, Nodes
<1>2. \A i : /\ Preds(i)' = Preds(i) /\ (InNestedLoop(i)' <=> InNestedLoop(i))
             /\ Conditional(i)' <=> Conditional(i)
  BY DEF Preds, InNestedLoop, Conditional, Nodes
<1>3. \A i : Before(i)' = Before(i)
  BY <1>1 DEF Before, Nodes
<1>4. \A i : /\ checkIfBeforeEntryFrontier(i)' <=> checkIfBeforeEntryFrontier(i)
             /\ checkIfAfterExitFrontier(i)' <=> checkIfAfterExitFrontier(i)
             /\ Late(i)' <=> Late(i)
  BY <1>1, <1>3 DEF checkIfBeforeEntryFrontier, checkIfAfterExitFrontier, Late
<1>5. NoExit' = NoExit
  BY <1>2, <1>4 DEF NoExit, Nodes
<1>6. \A i : Boundary(i)' <=> Boundary(i)
  BY <1>2, <1>3, <1>4, <1>5 DEF Boundary
<1>7. BlockStarts' = BlockStarts
  BY <1>2 DEF BlockStarts, Nodes
<1>8. Around' = Around
  BY <1>4, <1>7 DEF Around
<1>9. ASSUME GraphInv PROVE GraphInv'
  <2>1. \A p, q : Onward(p, q)' <=> Onward(p, q)
    BY DEF Onward
  <2>2. (succ \in [Nodes -> SUBSET Nodes])' /\ (ssI \in Segments)' /\ (succ[N] = {})'
    BY <1>9 DEF GraphInv, Nodes
  <2>3. /\ (\A p \in Nodes : \A q \in succ[p] : p <= q)'
        /\ (\A p \in Nodes \ {N} : \E q \in succ[p] : q # p)'
    BY <1>9 DEF GraphInv, Nodes
  <2>4. (\A i \in Nodes \ {1} : \E p \in Nodes : Onward(p, i))'
    BY <1>9, <2>1 DEF GraphInv, Nodes
  <2>5. (\A p, q, i \in Nodes : Onward(p, i) /\ Onward(q, i) /\ Conditional(p) => p = q)'
    BY <1>2, <1>9, <2>1 DEF GraphInv, Nodes
  <2>6. (\A i \in Nodes : InNestedLoop(i) =>
           \E p \in Nodes : succ[p] = {i} /\ \A q \in Nodes : Onward(q, i) <=> q = p)'
    <3>1. ASSUME NEW i \in Nodes, InNestedLoop(i)
          PROVE  \E p \in Nodes : succ'[p] = {i} /\ \A q \in Nodes : Onward(q, i)' <=> q = p
      <4>1. PICK p \in Nodes : succ[p] = {i} /\ \A q \in Nodes : Onward(q, i) <=> q = p
        BY <1>9, <3>1 DEF GraphInv
      <4> QED BY <2>1, <4>1
    <3> QED BY <1>2, <3>1 DEF Nodes
  <2>7. (\A p \in Nodes : \A q, r \in succ[p] : q # r => Conditional(p))'
    BY <1>2, <1>9 DEF GraphInv, Nodes
  <2>8. (\A p \in Nodes, i \in Nodes : succ[p] = {i} => ~ Conditional(p))'
    BY <1>2, <1>9 DEF GraphInv, Nodes
  <2> QED BY <2>2, <2>3, <2>4, <2>5, <2>6, <2>7, <2>8 DEF GraphInv
<1>10. \A i, d : Dominates(d, i)' <=> Dominates(d, i)
  BY DEF Dominates, Nodes
<1> QED BY <1>1, <1>2, <1>3, <1>4, <1>5, <1>6, <1>8, <1>9, <1>10

\* What is said of the placement stays when the placement does.
LEMMA PlacementUnchanged ==
  ASSUME succ' = succ, ssI' = ssI, entries' = entries, exits' = exits
  PROVE  /\ \A v, W : /\ EntrySearched(v, W)' <=> EntrySearched(v, W)
                      /\ ExitSearched(v, W)' <=> ExitSearched(v, W)
         /\ \A V : (UpClosed(V)' <=> UpClosed(V)) /\ (DownClosed(V)' <=> DownClosed(V))
         /\ \A i : /\ NotWaited(i)' <=> NotWaited(i)
                   /\ NotSignalled(i)' <=> NotSignalled(i)
                   /\ isDominatedByOtherEntry(i)' <=> isDominatedByOtherEntry(i)
                   /\ isReachableFromOtherExit(i)' <=> isReachableFromOtherExit(i)
<1>1. \A v, W : /\ EntrySearched(v, W)' <=> EntrySearched(v, W)
                /\ ExitSearched(v, W)' <=> ExitSearched(v, W)
  BY LoopUnchanged DEF EntrySearched, ExitSearched
<1>2. \A V : (UpClosed(V)' <=> UpClosed(V)) /\ (DownClosed(V)' <=> DownClosed(V))
  BY <1>1 DEF UpClosed, DownClosed
<1>3. Above' = Above
  BY <1>2 DEF Above, Nodes
<1>4. \A i : Early(i)' <=> Early(i)
  BY <1>3, LoopUnchanged DEF Early
<1>5. \A i : NotWaited(i)' <=> NotWaited(i)
  BY <1>4, LoopUnchanged DEF NotWaited, Onward, Nodes
<1>6. SignalPoints' = SignalPoints
  BY LoopUnchanged DEF SignalPoints
<1>7. \A i : BeforeWait(i)' <=> BeforeWait(i)
  BY LoopUnchanged DEF BeforeWait
<1>8. \A i : NotSignalled(i)' <=> NotSignalled(i)
  BY <1>6, <1>7, LoopUnchanged DEF NotSignalled
<1>9. \A i : /\ isDominatedByOtherEntry(i)' <=> isDominatedByOtherEntry(i)
             /\ isReachableFromOtherExit(i)' <=> isReachableFromOtherExit(i)
  BY LoopUnchanged DEF isDominatedByOtherEntry, isReachableFromOtherExit
<1> QED BY <1>1, <1>2, <1>5, <1>8, <1>9

\* The searches begin with the segment in their queue.
LEMMA FrontierInit == Init => FrontierInv
<1> SUFFICES ASSUME Init PROVE FrontierInv
  OBVIOUS
<1>1. GraphInv
  BY LoopsAreGraphs DEF Init
<1>2. ssI \subseteq Nodes /\ 1 \in Nodes
  BY <1>1, SegmentFacts, NodeFacts
<1>3. queue \in Seq(Nodes) /\ Elements(queue) = ssI
  BY <1>2, OrderFacts DEF Init
<1>4. TypeOK
  BY <1>1, <1>2, <1>3 DEF TypeOK, Init, GraphInv
<1>5. SearchInv
  BY <1>3 DEF SearchInv, Init
<1>6. ExtensionInv
  BY DEF ExtensionInv, Init
<1>7. IterationInv
  BY DEF IterationInv, Init
<1> QED BY <1>1, <1>4, <1>5, <1>6, <1>7 DEF FrontierInv

\* An instruction that is dropped has been visited.
LEMMA SkipStep ==
  ASSUME FrontierInv, Skip
  PROVE  FrontierInv'
<1>1. TypeOK /\ GraphInv /\ SearchInv /\ ExtensionInv /\ IterationInv
  BY DEF FrontierInv
<1>2. /\ UNCHANGED <<succ, ssI, phase, visited, todo, entries, exits, at, waited, signals>>
      /\ queue' = Tail(queue) /\ queue # <<>> /\ Head(queue) \in visited
      /\ phase \in {"entries", "exits"}
  BY DEF Skip, Current, loop, iteration
<1>3. /\ queue' \in Seq(Nodes)
      /\ visited \cup Elements(queue) = visited \cup Elements(queue')
  BY <1>1, <1>2, HeadFacts DEF TypeOK
<1>4. PICK W : W = visited \cup Elements(queue)
  OBVIOUS
<1>5. (visited \cup Elements(queue))' = W
  BY <1>2, <1>3, <1>4 DEF Elements
<1>6. TypeOK' /\ GraphInv'
  BY <1>1, <1>2, <1>3, LoopUnchanged DEF TypeOK, Nodes
<1>7. SearchInv'
  <2>1. phase = "entries" => ssI \subseteq W /\ \A v \in visited : EntrySearched(v, W)
    BY <1>1, <1>4 DEF SearchInv
  <2>2. phase = "exits" => ssI \subseteq W /\ \A v \in visited : ExitSearched(v, W)
    BY <1>1, <1>4 DEF SearchInv
  <2>3. phase # "entries" => \E V \in SUBSET Nodes : UpClosed(V)
    BY <1>1 DEF SearchInv
  <2>4. phase = "entries" => /\ (ssI \subseteq visited \cup Elements(queue))'
                             /\ \A v \in visited' : EntrySearched(v, W)'
    BY <1>2, <1>5, <2>1, PlacementUnchanged
  <2>5. phase = "exits" => /\ (ssI \subseteq visited \cup Elements(queue))'
                           /\ \A v \in visited' : ExitSearched(v, W)'
    BY <1>2, <1>5, <2>2, PlacementUnchanged
  <2>6. phase # "entries" => (\E V \in SUBSET Nodes : UpClosed(V))'
    BY <1>2, <2>3, PlacementUnchanged DEF Nodes
  <2>7. (\A e \in entries : checkIfBeforeEntryFrontier(e))' /\ (exits \cap NoExit = {})'
    BY <1>1, <1>2, LoopUnchanged DEF SearchInv
  <2> QED BY <1>2, <1>5, <2>4, <2>5, <2>6, <2>7 DEF SearchInv
<1>8. ExtensionInv' /\ IterationInv'
  BY <1>1, <1>2, LoopUnchanged DEF ExtensionInv, IterationInv
<1> QED BY <1>6, <1>7, <1>8 DEF FrontierInv

\* What has been searched stays searched when the frontiers grow.
LEMMA FrontiersGrow ==
  ASSUME succ' = succ, ssI' = ssI, entries \subseteq entries', exits \subseteq exits'
  PROVE  /\ \A v, W, X : W \subseteq X => /\ EntrySearched(v, W) => EntrySearched(v, X)'
                                          /\ ExitSearched(v, W) => ExitSearched(v, X)'
         /\ \A V : (UpClosed(V) => UpClosed(V)') /\ (DownClosed(V) => DownClosed(V)')
         /\ \A i : /\ isDominatedByOtherEntry(i) => isDominatedByOtherEntry(i)'
                   /\ isReachableFromOtherExit(i) => isReachableFromOtherExit(i)'
<1>1. \A v, W, X : W \subseteq X => /\ EntrySearched(v, W) => EntrySearched(v, X)'
                                    /\ ExitSearched(v, W) => ExitSearched(v, X)'
  BY LoopUnchanged DEF EntrySearched, ExitSearched
<1>2. \A V : (UpClosed(V) => UpClosed(V)') /\ (DownClosed(V) => DownClosed(V)')
  BY <1>1 DEF UpClosed, DownClosed
<1>3. \A i : /\ isDominatedByOtherEntry(i) => isDominatedByOtherEntry(i)'
             /\ isReachableFromOtherExit(i) => isReachableFromOtherExit(i)'
  BY LoopUnchanged DEF isDominatedByOtherEntry, isReachableFromOtherExit
<1> QED BY <1>1, <1>2, <1>3

\* The header is always found to be an entry, so that the search never goes up to
\* the latch.
LEMMA VisitForEntryStep ==
  ASSUME FrontierInv, VisitForEntry
  PROVE  FrontierInv'
<1>1. TypeOK /\ GraphInv /\ SearchInv /\ ExtensionInv /\ IterationInv
  BY DEF FrontierInv
<1>2. PICK c : c = Head(queue)
  OBVIOUS
<1>3. /\ UNCHANGED <<succ, ssI, phase, todo, exits, at, waited, signals>>
      /\ phase = "entries" /\ queue # <<>> /\ visited' = visited \cup {c}
  BY <1>2 DEF VisitForEntry, Current, loop, iteration
<1>4. /\ c \in Nodes /\ Tail(queue) \in Seq(Nodes)
      /\ Elements(queue) = {c} \cup Elements(Tail(queue))
  BY <1>1, <1>2, <1>3, HeadFacts DEF TypeOK
<1>5. PICK W : W = visited \cup Elements(queue)
  OBVIOUS
<1>6. PICK X : X = visited' \cup Elements(queue')
  OBVIOUS
<1>7. /\ queue' \in Seq(Nodes) /\ W \subseteq X
      /\ entries \subseteq entries' /\ entries' \subseteq entries \cup {c}
      /\ c \in entries' => checkIfBeforeEntryFrontier(c)
      /\ c \in entries' \/ (c # 1 /\ Preds(c) \subseteq X)
  <2>1. CASE IsEntry(c)
    <3>1. entries' = entries \cup {c} /\ queue' = Tail(queue)
      BY <1>2, <2>1 DEF VisitForEntry, Current
    <3>2. W = X
      BY <1>3, <1>4, <1>5, <1>6, <3>1
    <3> QED BY <1>4, <2>1, <3>1, <3>2 DEF IsEntry
  <2>2. CASE ~ IsEntry(c)
    <3>1. c # 1
      BY <1>1, <2>2, HeaderFacts
         DEF IsEntry, checkIfBeforeEntryFrontier, isDominatedByOtherEntry
    <3>2. PICK next \in SetToSeqs(Preds(c)) : queue' = Tail(queue) \o next
      BY <1>2, <2>2, <3>1 DEF VisitForEntry, Current
    <3>3. next \in Seq(Nodes) /\ Elements(next) = Preds(c)
      <4>1. Preds(c) \subseteq Nodes
        BY DEF Preds
      <4> QED BY <4>1, OrderFacts
    <3>4. queue' \in Seq(Nodes) /\ Elements(queue') = Elements(Tail(queue)) \cup Preds(c)
      BY <1>4, <3>2, <3>3, ConcatFacts
    <3>5. X = W \cup Preds(c)
      BY <1>3, <1>4, <1>5, <1>6, <3>4
    <3>6. entries' = entries
      BY <1>2, <2>2 DEF VisitForEntry, Current
    <3> QED BY <1>1, <3>1, <3>4, <3>5, <3>6 DEF SearchInv
  <2> QED BY <2>1, <2>2
<1>8. TypeOK' /\ GraphInv'
  <2>1. GraphInv'
    BY <1>1, <1>3, LoopUnchanged
  <2> QED BY <1>1, <1>3, <1>4, <1>7, <2>1 DEF TypeOK, Nodes
<1>9. SearchInv'
  <2>1. (\A e \in entries : checkIfBeforeEntryFrontier(e))' /\ (exits \cap NoExit = {})'
    BY <1>1, <1>3, <1>7, LoopUnchanged DEF SearchInv
  <2>2. (visited \cup Elements(queue))' = X
    BY <1>6 DEF Elements
  <2>3. ssI' \subseteq X
    BY <1>1, <1>3, <1>5, <1>7 DEF SearchInv
  <2>4. ASSUME NEW v \in visited' PROVE EntrySearched(v, X)'
    <3>1. CASE v = c
      BY <1>3, <1>7, <3>1, LoopUnchanged DEF EntrySearched
    <3>2. CASE v # c
      <4>1. EntrySearched(v, W)
        BY <1>1, <1>3, <1>5, <3>2 DEF SearchInv
      <4> QED BY <1>3, <1>7, <4>1, FrontiersGrow
    <3> QED BY <3>1, <3>2
  <2> QED BY <1>3, <2>1, <2>2, <2>3, <2>4 DEF SearchInv
<1>10. ExtensionInv' /\ IterationInv'
  BY <1>1, <1>3, LoopUnchanged DEF ExtensionInv, IterationInv
<1> QED BY <1>8, <1>9, <1>10 DEF FrontierInv

\* The queue is empty: what has been visited is closed.
LEMMA StartExitsStep ==
  ASSUME FrontierInv, StartExits
  PROVE  FrontierInv'
<1>1. TypeOK /\ GraphInv /\ SearchInv /\ ExtensionInv /\ IterationInv
  BY DEF FrontierInv
<1>2. /\ UNCHANGED <<succ, ssI, todo, entries, exits, at, waited, signals>>
      /\ phase = "entries" /\ phase' = "exits" /\ queue = <<>> /\ visited' = {}
      /\ queue' \in SetToSeqs(ssI)
  BY DEF StartExits, loop, iteration
<1>3. queue' \in Seq(Nodes) /\ Elements(queue') = ssI
  BY <1>1, <1>2, SegmentFacts, OrderFacts
<1>4. TypeOK' /\ GraphInv'
  <2>1. GraphInv'
    BY <1>1, <1>2, LoopUnchanged
  <2> QED BY <1>1, <1>2, <1>3, <2>1 DEF TypeOK, Nodes
<1>5. SearchInv'
  <2>1. UpClosed(visited)
    BY <1>1, <1>2, EmptyFacts DEF SearchInv, UpClosed
  <2>2. \E V \in SUBSET Nodes : UpClosed(V)
    BY <1>1, <2>1 DEF TypeOK
  <2>3. (\E V \in SUBSET Nodes : UpClosed(V))'
    BY <1>2, <2>2, PlacementUnchanged DEF Nodes
  <2>4. (\A e \in entries : checkIfBeforeEntryFrontier(e))' /\ (exits \cap NoExit = {})'
    BY <1>1, <1>2, LoopUnchanged DEF SearchInv
  <2>5. Elements(queue)' = ssI'
    BY <1>2, <1>3 DEF Elements
  <2> QED BY <1>2, <2>3, <2>4, <2>5 DEF SearchInv
<1>6. ExtensionInv' /\ IterationInv'
  BY <1>1, <1>2, LoopUnchanged DEF ExtensionInv, IterationInv
<1> QED BY <1>4, <1>5, <1>6 DEF FrontierInv

\* A boundary is never reachable from another exit, whatever the order.
LEMMA VisitForExitStep ==
  ASSUME FrontierInv, VisitForExit
  PROVE  FrontierInv'
<1>1. TypeOK /\ GraphInv /\ SearchInv /\ ExtensionInv /\ IterationInv
  BY DEF FrontierInv
<1>2. PICK c : c = Head(queue)
  OBVIOUS
<1>3. /\ UNCHANGED <<succ, ssI, phase, todo, entries, at, waited, signals>>
      /\ phase = "exits" /\ queue # <<>> /\ visited' = visited \cup {c}
  BY <1>2 DEF VisitForExit, Current, loop, iteration
<1>4. /\ c \in Nodes /\ Tail(queue) \in Seq(Nodes)
      /\ Elements(queue) = {c} \cup Elements(Tail(queue))
  BY <1>1, <1>2, <1>3, HeadFacts DEF TypeOK
<1>5. PICK W : W = visited \cup Elements(queue)
  OBVIOUS
<1>6. PICK X : X = visited' \cup Elements(queue')
  OBVIOUS
<1>7. /\ queue' \in Seq(Nodes) /\ W \subseteq X
      /\ exits \subseteq exits' /\ exits' \subseteq exits \cup {c}
      /\ c \in exits' => c \notin NoExit
      /\ c \in exits' \/ (~ Boundary(c) /\ succ[c] \subseteq X)
  <2>1. CASE IsExit(c)
    <3>1. exits' = exits \cup {c} /\ queue' = Tail(queue)
      BY <1>2, <2>1 DEF VisitForExit, Current
    <3>2. W = X
      BY <1>3, <1>4, <1>5, <1>6, <3>1
    <3> QED BY <1>4, <2>1, <3>1, <3>2 DEF IsExit, NoExit
  <2>2. CASE ~ IsExit(c)
    <3> DEFINE S == IF c = N THEN {1} ELSE succ[c]
    <3>1. PICK next \in SetToSeqs(S) : queue' = Tail(queue) \o next
      BY <1>2, <2>2 DEF VisitForExit, Current
    <3>2. S \subseteq Nodes /\ succ[c] \subseteq S
      BY <1>1, <1>4, NodeFacts DEF GraphInv
    <3> HIDE DEF S
    <3>3. next \in Seq(Nodes) /\ Elements(next) = S
      BY <3>2, OrderFacts
    <3>4. queue' \in Seq(Nodes) /\ Elements(queue') = Elements(Tail(queue)) \cup S
      BY <1>4, <3>1, <3>3, ConcatFacts
    <3>5. X = W \cup S
      BY <1>3, <1>4, <1>5, <1>6, <3>4
    <3>6. exits' = exits
      BY <1>2, <2>2 DEF VisitForExit, Current
    <3>7. ~ Boundary(c)
      BY <1>1, <2>2 DEF IsExit, Boundary, isReachableFromOtherExit, SearchInv
    <3> QED BY <1>1, <3>2, <3>4, <3>5, <3>6, <3>7 DEF SearchInv
  <2> QED BY <2>1, <2>2
<1>8. TypeOK' /\ GraphInv'
  <2>1. GraphInv'
    BY <1>1, <1>3, LoopUnchanged
  <2> QED BY <1>1, <1>3, <1>4, <1>7, <2>1 DEF TypeOK, Nodes
<1>9. SearchInv'
  <2>1. (\A e \in entries : checkIfBeforeEntryFrontier(e))' /\ (exits \cap NoExit = {})'
    BY <1>1, <1>3, <1>7, LoopUnchanged DEF SearchInv
  <2>2. (visited \cup Elements(queue))' = X
    BY <1>6 DEF Elements
  <2>3. ssI' \subseteq X
    BY <1>1, <1>3, <1>5, <1>7 DEF SearchInv
  <2>4. ASSUME NEW v \in visited' PROVE ExitSearched(v, X)'
    <3>1. CASE v = c
      BY <1>3, <1>7, <3>1, LoopUnchanged DEF ExitSearched
    <3>2. CASE v # c
      <4>1. ExitSearched(v, W)
        BY <1>1, <1>3, <1>5, <3>2 DEF SearchInv
      <4> QED BY <1>3, <1>7, <4>1, FrontiersGrow
    <3> QED BY <3>1, <3>2
  <2>5. (\E V \in SUBSET Nodes : UpClosed(V))'
    <3>1. PICK V \in SUBSET Nodes : UpClosed(V)
      BY <1>1, <1>3 DEF SearchInv
    <3>2. UpClosed(V)'
      BY <1>3, <1>7, <3>1, FrontiersGrow
    <3> QED BY <3>2 DEF Nodes
  <2> QED BY <1>3, <2>1, <2>2, <2>3, <2>4, <2>5 DEF SearchInv
<1>10. ExtensionInv' /\ IterationInv'
  BY <1>1, <1>3, LoopUnchanged DEF ExtensionInv, IterationInv
<1> QED BY <1>8, <1>9, <1>10 DEF FrontierInv

\* The queue is empty again.
LEMMA StartExtensionStep ==
  ASSUME FrontierInv, StartExtension
  PROVE  FrontierInv'
<1>1. TypeOK /\ GraphInv /\ SearchInv /\ ExtensionInv /\ IterationInv
  BY DEF FrontierInv
<1>2. /\ UNCHANGED <<succ, ssI, queue, entries, exits, at, waited, signals>>
      /\ phase = "exits" /\ phase' = "extend" /\ queue = <<>> /\ visited' = {}
      /\ todo' = Around
  BY DEF StartExtension, loop, iteration, Around
<1>3. TypeOK' /\ GraphInv'
  <2>1. GraphInv'
    BY <1>1, <1>2, LoopUnchanged
  <2>2. Around \subseteq Nodes
    BY DEF Around, BlockStarts
  <2> QED BY <1>1, <1>2, <2>1, <2>2 DEF TypeOK, Nodes
<1>4. SearchInv'
  <2>1. DownClosed(visited)
    BY <1>1, <1>2, EmptyFacts DEF SearchInv, DownClosed
  <2>2. /\ \E V \in SUBSET Nodes : DownClosed(V)
        /\ \E V \in SUBSET Nodes : UpClosed(V)
    BY <1>1, <1>2, <2>1 DEF TypeOK, SearchInv
  <2>3. /\ (\E V \in SUBSET Nodes : DownClosed(V))'
        /\ (\E V \in SUBSET Nodes : UpClosed(V))'
    BY <1>2, <2>2, PlacementUnchanged DEF Nodes
  <2>4. (\A e \in entries : checkIfBeforeEntryFrontier(e))' /\ (exits \cap NoExit = {})'
    BY <1>1, <1>2, LoopUnchanged DEF SearchInv
  <2> QED BY <1>2, <2>3, <2>4 DEF SearchInv
<1>5. ExtensionInv' /\ IterationInv'
  BY <1>1, <1>2, LoopUnchanged DEF ExtensionInv, IterationInv
<1> QED BY <1>3, <1>4, <1>5 DEF FrontierInv

\* A block gets its entry and exit, and the others keep theirs.
LEMMA ExtendStep ==
  ASSUME FrontierInv, NEW i \in todo, Extend(i)
  PROVE  FrontierInv'
<1>1. TypeOK /\ GraphInv /\ SearchInv /\ ExtensionInv /\ IterationInv
  BY DEF FrontierInv
<1>2. /\ UNCHANGED <<succ, ssI, phase, queue, visited, at, waited, signals>>
      /\ phase = "extend" /\ todo' = todo \ {i}
      /\ entries' = IF isDominatedByOtherEntry(i) THEN entries ELSE entries \cup {i}
      /\ exits' = IF isReachableFromOtherExit(i) THEN exits ELSE exits \cup {i}
  BY DEF Extend, loop, iteration
<1>3. /\ entries \subseteq entries' /\ entries' \subseteq entries \cup {i}
      /\ exits \subseteq exits' /\ exits' \subseteq exits \cup {i}
      /\ i \in entries' \/ isDominatedByOtherEntry(i)
      /\ i \in exits' \/ isReachableFromOtherExit(i)
  BY <1>2
<1>4. i \in Nodes /\ checkIfBeforeEntryFrontier(i) /\ i \notin NoExit
  BY <1>1 DEF ExtensionInv, Around, TypeOK, NoExit
<1>5. TypeOK' /\ GraphInv'
  <2>1. GraphInv'
    BY <1>1, <1>2, LoopUnchanged
  <2> QED BY <1>1, <1>2, <1>3, <1>4, <2>1 DEF TypeOK, Nodes
<1>6. SearchInv'
  <2>1. PICK V \in SUBSET Nodes : UpClosed(V)
    BY <1>1, <1>2 DEF SearchInv
  <2>2. PICK D \in SUBSET Nodes : DownClosed(D)
    BY <1>1, <1>2 DEF SearchInv
  <2>3. UpClosed(V)' /\ DownClosed(D)'
    BY <1>2, <1>3, <2>1, <2>2, FrontiersGrow
  <2>4. (\E U \in SUBSET Nodes : DownClosed(U))' /\ (\E U \in SUBSET Nodes : UpClosed(U))'
    BY <2>3 DEF Nodes
  <2>5. (\A e \in entries : checkIfBeforeEntryFrontier(e))' /\ (exits \cap NoExit = {})'
    BY <1>1, <1>2, <1>3, <1>4, LoopUnchanged DEF SearchInv
  <2> QED BY <1>2, <2>4, <2>5 DEF SearchInv
<1>7. ExtensionInv'
  <2>1. todo' \subseteq Around' /\ Around' = Around
    BY <1>1, <1>2, LoopUnchanged DEF ExtensionInv
  <2>2. ASSUME NEW k \in Around \ todo'
        PROVE  /\ k \in entries' \/ isDominatedByOtherEntry(k)'
               /\ k \in exits' \/ isReachableFromOtherExit(k)'
    <3>1. CASE k = i
      BY <1>2, <1>3, <3>1, FrontiersGrow
    <3>2. CASE k # i
      <4>1. /\ k \in entries \/ isDominatedByOtherEntry(k)
            /\ k \in exits \/ isReachableFromOtherExit(k)
        BY <1>1, <1>2, <3>2 DEF ExtensionInv
      <4> QED BY <1>2, <1>3, <4>1, FrontiersGrow
    <3> QED BY <3>1, <3>2
  <2> QED BY <1>1, <1>2, <2>1, <2>2 DEF ExtensionInv
<1>8. IterationInv'
  BY <1>1, <1>2 DEF IterationInv
<1> QED BY <1>5, <1>6, <1>7, <1>8 DEF FrontierInv

\* When the frontiers are complete.
LEMMA FrontiersPlaced ==
  ASSUME FrontierInv, phase \in {"extend", "run"}, todo = {}
  PROVE  Placed
BY DEF FrontierInv, TypeOK, SearchInv, ExtensionInv, Placed

\* An iteration starts before the segment.
LEMMA StartIterationStep ==
  ASSUME FrontierInv, StartIteration
  PROVE  FrontierInv'
<1>1. TypeOK /\ GraphInv /\ SearchInv /\ ExtensionInv /\ IterationInv
  BY DEF FrontierInv
<1>2. /\ UNCHANGED <<succ, ssI, queue, visited, todo, entries, exits, at, waited, signals>>
      /\ phase = "extend" /\ phase' = "run" /\ todo = {}
  BY DEF StartIteration, loop, iteration
<1>3. TypeOK' /\ GraphInv'
  <2>1. GraphInv'
    BY <1>1, <1>2, LoopUnchanged
  <2> QED BY <1>1, <1>2, <2>1 DEF TypeOK, Nodes
<1>4. SearchInv'
  <2>1. /\ (\E V \in SUBSET Nodes : DownClosed(V))'
        /\ (\E V \in SUBSET Nodes : UpClosed(V))'
    BY <1>1, <1>2, PlacementUnchanged DEF Nodes, SearchInv
  <2>2. (\A e \in entries : checkIfBeforeEntryFrontier(e))' /\ (exits \cap NoExit = {})'
    BY <1>1, <1>2, LoopUnchanged DEF SearchInv
  <2> QED BY <1>2, <2>1, <2>2 DEF SearchInv
<1>5. ExtensionInv'
  BY <1>1, <1>2, LoopUnchanged, PlacementUnchanged DEF ExtensionInv
<1>6. IterationInv'
  <2>1. Placed /\ at = 1 /\ signals = 0
    BY <1>1, <1>2, FrontiersPlaced DEF ExtensionInv
  <2>2. ~ Late(1)
    BY <1>1, HeaderFacts, SegmentFacts DEF Late
  <2>3. 1 \notin entries => Early(1)
    BY <2>1, <2>2, AboveClosed DEF Early, UpClosed, EntrySearched
  <2>4. NotWaited(1) /\ NotSignalled(1)
    BY <1>1, <2>2, <2>3, HeaderFacts DEF NotWaited, NotSignalled
  <2>5. NotWaited(1)' /\ NotSignalled(1)'
    BY <1>2, <2>4, PlacementUnchanged
  <2>6. at' = 1 /\ signals' = 0 /\ phase' = "run"
    BY <1>2, <2>1
  <2>7. NotWaited(at)' /\ NotSignalled(at)'
    BY <2>5, <2>6 DEF NotWaited, NotSignalled
  <2> QED BY <2>6, <2>7 DEF IterationInv
<1> QED BY <1>3, <1>4, <1>5, <1>6 DEF FrontierInv

\* Counting up to Many tells whether there is a signal.
LEMMA CountFacts ==
  ASSUME NEW n \in Nat
  PROVE  Min({Many, n}) \in Nat /\ (Min({Many, n}) > 0 <=> n > 0)
<1>1. \E x \in {Many, n} : \A y \in {Many, n} : x <= y
  BY DEF Many
<1>2. Min({Many, n}) \in {Many, n} /\ \A y \in {Many, n} : Min({Many, n}) <= y
  BY <1>1 DEF Min
<1>3. PICK m : m = Min({Many, n})
  OBVIOUS
<1>4. m \in {2, n} /\ m <= 2 /\ m <= n
  BY <1>2, <1>3 DEF Many
<1> QED BY <1>3, <1>4

\* One instruction of the iteration.
LEMMA ExecuteStep ==
  ASSUME FrontierInv, Execute
  PROVE  FrontierInv'
<1>1. TypeOK /\ GraphInv /\ SearchInv /\ ExtensionInv /\ IterationInv
  BY DEF FrontierInv
<1>2. /\ UNCHANGED <<succ, ssI, queue, visited, todo, entries, exits>>
      /\ phase = "run" /\ phase' \in {"run", "done"}
      /\ waited' = (waited \/ at \in entries)
      /\ phase' = "run" => at' \in succ[at]
      /\ phase' = "done" => at = N /\ at' = at
  BY DEF Execute, loop
<1>3. at \in Nodes /\ signals \in Nat /\ Placed
  BY <1>1, <1>2, FrontiersPlaced DEF TypeOK, ExtensionInv
<1>4. PICK b, c : b = SignalsBefore(at) /\ c = SignalsAfter(at)
  OBVIOUS
<1>5. b \in Nat /\ c \in {0, 1}
  BY <1>1, <1>3, <1>4, SignalsBeforeIs
<1>6. signals' \in Nat /\ (signals' > 0 <=> signals > 0 \/ b > 0 \/ c > 0)
  <2>1. signals' = Min({Many, signals + b + c})
    BY <1>4 DEF Execute
  <2>2. PICK n : n = signals + b + c
    OBVIOUS
  <2>3. n \in Nat /\ (n > 0 <=> signals > 0 \/ b > 0 \/ c > 0)
    BY <1>3, <1>5, <2>2
  <2>4. signals' = Min({Many, n})
    BY <2>1, <2>2
  <2> QED BY <2>3, <2>4, CountFacts
<1>7. at' \in Nodes
  BY <1>1, <1>2, <1>3 DEF GraphInv
<1>8. TypeOK' /\ GraphInv'
  <2>1. GraphInv'
    BY <1>1, <1>2, LoopUnchanged
  <2> QED BY <1>1, <1>2, <1>6, <1>7, <2>1 DEF TypeOK, Nodes
<1>9. SearchInv'
  <2>1. /\ (\E V \in SUBSET Nodes : DownClosed(V))'
        /\ (\E V \in SUBSET Nodes : UpClosed(V))'
    BY <1>1, <1>2, PlacementUnchanged DEF Nodes, SearchInv
  <2>2. (\A e \in entries : checkIfBeforeEntryFrontier(e))' /\ (exits \cap NoExit = {})'
    BY <1>1, <1>2, LoopUnchanged DEF SearchInv
  <2> QED BY <1>2, <2>1, <2>2 DEF SearchInv
<1>10. ExtensionInv'
  BY <1>1, <1>2, LoopUnchanged, PlacementUnchanged DEF ExtensionInv
<1>11. /\ ~ waited => signals = 0 /\ NotWaited(at)
       /\ signals > 0 => Late(at)
       /\ signals = 0 => NotSignalled(at)
  BY <1>1, <1>2 DEF IterationInv
<1>12. ~ waited' => signals' = 0
  <2>1. ASSUME ~ waited' PROVE b = 0 /\ c = 0 /\ signals = 0
    BY <1>2, <1>3, <1>4, <1>11, <2>1, NoEarlySignal
  <2> QED BY <1>6, <2>1
<1>13. ASSUME signals' = 0 PROVE b = 0 /\ c = 0 /\ signals = 0
  BY <1>3, <1>5, <1>6, <1>13
<1>14. CASE phase' = "run"
  <2>1. PICK j : j = at'
    OBVIOUS
  <2>2. j \in succ[at]
    BY <1>2, <1>14, <2>1
  <2>3. ~ waited' => NotWaited(j)
    BY <1>2, <1>3, <1>11, <2>2, NotWaitedStep
  <2>4. ASSUME signals' > 0 PROVE Late(j)
    <3>1. CASE signals > 0
      BY <1>1, <1>3, <1>11, <2>2, <3>1, LateFacts
    <3>2. CASE b > 0
      BY <1>1, <1>3, <1>4, <2>2, <3>2, SignalsAreLate, LateFacts
    <3>3. CASE c > 0
      BY <1>3, <1>4, <2>2, <3>3, SignalsAreLate
    <3> QED BY <1>6, <2>4, <3>1, <3>2, <3>3
  <2>5. signals' = 0 => NotSignalled(j)
    BY <1>3, <1>4, <1>11, <1>13, <2>2, NotSignalledStep
  <2>6. ~ waited' => NotWaited(j)'
    BY <1>2, <2>3, PlacementUnchanged
  <2>7. (signals' > 0 => Late(j)') /\ (signals' = 0 => NotSignalled(j)')
    BY <1>2, <2>4, <2>5, PlacementUnchanged, LoopUnchanged
  <2>8. /\ NotWaited(j)' => NotWaited(at)'
        /\ Late(j)' => Late(at)'
        /\ NotSignalled(j)' => NotSignalled(at)'
    BY <2>1 DEF NotWaited, Late, NotSignalled
  <2>9. IterationInv'
    BY <1>12, <1>14, <2>6, <2>7, <2>8 DEF IterationInv
  <2> QED BY <1>8, <1>9, <1>10, <2>9 DEF FrontierInv
<1>15. CASE phase' = "done"
  <2>1. signals' > 0
    <3>1. ASSUME signals' = 0 PROVE FALSE
      BY <1>2, <1>3, <1>4, <1>11, <1>13, <1>15, <3>1, NotSignalledStep
    <3> QED BY <1>6, <3>1
  <2>2. waited'
    BY <1>12, <2>1
  <2>3. IterationInv'
    BY <1>15, <2>1, <2>2 DEF IterationInv
  <2> QED BY <1>8, <1>9, <1>10, <2>3 DEF FrontierInv
<1> QED BY <1>2, <1>14, <1>15

\* A step that changes nothing.
LEMMA StutterStep ==
  ASSUME FrontierInv, UNCHANGED vars
  PROVE  FrontierInv'
<1>1. TypeOK /\ GraphInv /\ SearchInv /\ ExtensionInv /\ IterationInv
  BY DEF FrontierInv
<1>2. UNCHANGED <<succ, ssI, phase, queue, visited, todo, entries, exits, at, waited, signals>>
  BY DEF vars
<1>3. TypeOK' /\ GraphInv'
  BY <1>1, <1>2, LoopUnchanged DEF TypeOK, Nodes
<1>4. SearchInv'
  <2>1. PICK W : W = visited \cup Elements(queue)
    OBVIOUS
  <2>2. (visited \cup Elements(queue))' = W
    BY <1>2, <2>1 DEF Elements
  <2>3. phase \in {"extend", "run", "done"} => (\E V \in SUBSET Nodes : DownClosed(V))'
    BY <1>1, <1>2, PlacementUnchanged DEF Nodes, SearchInv
  <2>4. phase # "entries" => (\E V \in SUBSET Nodes : UpClosed(V))'
    BY <1>1, <1>2, PlacementUnchanged DEF Nodes, SearchInv
  <2>5. (\A e \in entries : checkIfBeforeEntryFrontier(e))' /\ (exits \cap NoExit = {})'
    BY <1>1, <1>2, LoopUnchanged DEF SearchInv
  <2>6. phase = "entries" => ssI' \subseteq W /\ \A v \in visited' : EntrySearched(v, W)'
    BY <1>1, <1>2, <2>1, PlacementUnchanged DEF SearchInv
  <2>7. phase = "exits" => ssI' \subseteq W /\ \A v \in visited' : ExitSearched(v, W)'
    BY <1>1, <1>2, <2>1, PlacementUnchanged DEF SearchInv
  <2> QED BY <1>2, <2>2, <2>3, <2>4, <2>5, <2>6, <2>7 DEF SearchInv
<1>5. ExtensionInv'
  BY <1>1, <1>2, LoopUnchanged, PlacementUnchanged DEF ExtensionInv
<1>6. IterationInv'
  <2>1. PICK j : j = at
    OBVIOUS
  <2>2. /\ phase = "run" => /\ ~ waited => signals = 0 /\ NotWaited(j)'
                            /\ signals > 0 => Late(j)'
                            /\ signals = 0 => NotSignalled(j)'
    BY <1>1, <1>2, <2>1, LoopUnchanged, PlacementUnchanged DEF IterationInv
  <2>3. /\ NotWaited(j)' => NotWaited(at)'
        /\ Late(j)' => Late(at)'
        /\ NotSignalled(j)' => NotSignalled(at)'
    BY <1>2, <2>1 DEF NotWaited, Late, NotSignalled
  <2> QED BY <1>1, <1>2, <2>2, <2>3 DEF IterationInv
<1> QED BY <1>3, <1>4, <1>5, <1>6 DEF FrontierInv

\* Every step.
LEMMA FrontierNext == FrontierInv /\ [Next]_vars => FrontierInv'
<1> SUFFICES ASSUME FrontierInv, [Next]_vars PROVE FrontierInv'
  OBVIOUS
<1>1. CASE Skip
  BY <1>1, SkipStep
<1>2. CASE VisitForEntry
  BY <1>2, VisitForEntryStep
<1>3. CASE StartExits
  BY <1>3, StartExitsStep
<1>4. CASE VisitForExit
  BY <1>4, VisitForExitStep
<1>5. CASE StartExtension
  BY <1>5, StartExtensionStep
<1>6. CASE \E i \in todo : Extend(i)
  BY <1>6, ExtendStep
<1>7. CASE StartIteration
  BY <1>7, StartIterationStep
<1>8. CASE Execute
  BY <1>8, ExecuteStep
<1>9. CASE UNCHANGED vars
  BY <1>9, StutterStep
<1> QED BY <1>1, <1>2, <1>3, <1>4, <1>5, <1>6, <1>7, <1>8, <1>9 DEF Next, Terminated

\* The invariant of the specification.
LEMMA FrontierInvariance == Spec => []FrontierInv
BY FrontierInit, FrontierNext, PTL DEF Spec

-----------------------------------------------------------------------------

\* The analysis stays within its types, and an iteration within the loop.
THEOREM FrontierTypes == Spec => []TypeOK
<1>1. FrontierInv => TypeOK
  BY DEF FrontierInv
<1> QED BY <1>1, FrontierInvariance, PTL

\* For every loop without critical edges, every segment and every order in which
\* the unordered_sets of determineEntryAndExitFrontier are traversed, an iteration
\* is in the segment only after its wait and before its first signal.
THEOREM SegmentIsProtected == Spec => []Protected
<1>1. FrontierInv => Protected
  <2> SUFFICES ASSUME FrontierInv, phase = "run", at \in ssI
               PROVE  (waited \/ at \in entries) /\ signals = 0 /\ SignalsBefore(at) = 0
    BY DEF Protected
  <2>1. Placed /\ GraphInv /\ at \in Nodes /\ signals \in Nat
    BY FrontiersPlaced DEF FrontierInv, ExtensionInv, TypeOK
  <2>2. /\ ~ waited => NotWaited(at)
        /\ signals > 0 => Late(at)
    BY DEF FrontierInv, IterationInv
  <2>3. waited \/ at \in entries
    BY <2>1, <2>2, AboveClosed DEF NotWaited, Early, UpClosed
  <2>4. ~ Late(at)
    BY <2>1, ReachableFacts DEF Late
  <2>5. SignalsBefore(at) = 0
    BY <2>1, <2>4, SignalsAreLate, SignalsBeforeIs
  <2> QED BY <2>1, <2>2, <2>3, <2>4, <2>5
<1> QED BY <1>1, FrontierInvariance, PTL

\* The waits and signals that addSynchronizations places cut every path of an
\* iteration, also the ones around the segment: none ends without both.
THEOREM NoPathForgetsTheSignal == Spec => []EveryPathSignals
<1>1. FrontierInv => EveryPathSignals
  BY DEF FrontierInv, IterationInv, EveryPathSignals
<1> QED BY <1>1, FrontierInvariance, PTL

\* No path of an iteration comes to a signal before its wait, also where the signal
\* of a conditional branch has been moved into the blocks behind it.
THEOREM SignalsAfterTheWait == Spec => []SignalWaited
<1>1. FrontierInv => SignalWaited
  <2> SUFFICES ASSUME FrontierInv, ~ waited
               PROVE  ~(signals > 0) /\ (phase = "run" => ~(SignalsBefore(at) > 0))
    BY DEF SignalWaited
  <2>1. TypeOK /\ ExtensionInv /\ IterationInv
    BY DEF FrontierInv
  <2>2. CASE phase = "run"
    <3>1. Placed /\ at \in Nodes /\ signals = 0 /\ NotWaited(at)
      BY <2>1, <2>2, FrontiersPlaced DEF ExtensionInv, IterationInv, TypeOK
    <3>2. SignalsBefore(at) = 0
      BY <3>1, NoEarlySignal
    <3> QED BY <3>1, <3>2
  <2>3. CASE phase # "run"
    BY <2>1, <2>3 DEF TypeOK, ExtensionInv, IterationInv
  <2> QED BY <2>2, <2>3
<1> QED BY <1>1, FrontierInvariance, PTL
=============================================================================
