---------------------------- MODULE InlinerProofs ----------------------------
(***************************************************************************)
(* For every program: the order of the functions is complete and           *)
(* topological, the tables of a pass stay in step with the program, the    *)
(* file between two passes names the functions it should, in the end every *)
(* loop is in main that can be, and no pass unrolls recursion.             *)
(***************************************************************************)
EXTENDS Inliner, FiniteSetTheorems, NaturalsInduction, WellFoundedInduction, TLAPS

\* A set of natural numbers that is not empty has a smallest element.
LEMMA SmallestOf ==
  ASSUME NEW S, S \subseteq Nat, S # {}
  PROVE  \E x \in S : \A y \in S : x <= y
<1>1. \A x, y \in Nat : <<x, y>> \in OpToRel(<, Nat) <=> x < y
  BY DEF OpToRel
<1>2. IsWellFoundedOn(OpToRel(<, Nat), Nat)
  BY NatLessThanWellFounded
<1>3. PICK x \in S : \A y \in S : ~(<<y, x>> \in OpToRel(<, Nat))
  BY <1>2, WFMin
<1>4. ASSUME NEW y \in S PROVE x <= y
  <2>1. x \in Nat /\ y \in Nat
    OBVIOUS
  <2>2. ~(y < x)
    BY <1>1, <1>3, <2>1, Zenon
  <2> QED BY <2>1, <2>2
<1> QED BY <1>4

\* The elements of a sequence.
LEMMA Elements ==
  ASSUME NEW S, NEW s \in Seq(S)
  PROVE  /\ ToSet(s) \subseteq S
         /\ \A x : x \in ToSet(s) <=> \E i \in 1 .. Len(s) : s[i] = x
  BY DEF ToSet

LEMMA ElementsOfAppend ==
  ASSUME NEW S, NEW s \in Seq(S), NEW x \in S
  PROVE  /\ Append(s, x) \in Seq(S)
         /\ ToSet(Append(s, x)) = ToSet(s) \cup {x}
<1>1. /\ Append(s, x) \in Seq(S)
      /\ Len(Append(s, x)) = Len(s) + 1
      /\ \A i \in 1 .. Len(s) : Append(s, x)[i] = s[i]
      /\ Append(s, x)[Len(s) + 1] = x
      /\ Len(s) \in Nat
  OBVIOUS
<1>2. ASSUME NEW y PROVE y \in ToSet(Append(s, x)) <=> y \in ToSet(s) \cup {x}
  <2>1. y \in ToSet(Append(s, x)) <=> \E i \in 1 .. Len(s) + 1 : Append(s, x)[i] = y
    <3>1. DOMAIN Append(s, x) = 1 .. Len(s) + 1
      BY <1>1
    <3> QED BY <3>1, Zenon DEF ToSet
  <2>2. y \in ToSet(s) <=> \E i \in 1 .. Len(s) : s[i] = y
    BY Elements
  <2> QED BY <1>1, <2>1, <2>2
<1> QED BY <1>1, <1>2

LEMMA ElementsOfTail ==
  ASSUME NEW S, NEW s \in Seq(S), s # <<>>
  PROVE  /\ Tail(s) \in Seq(S) /\ Head(s) \in S /\ Len(Tail(s)) = Len(s) - 1
         /\ ToSet(s) = ToSet(Tail(s)) \cup {Head(s)}
<1>1. /\ Tail(s) \in Seq(S) /\ Len(s) \in Nat \ {0}
      /\ Len(Tail(s)) = Len(s) - 1
      /\ \A i \in 1 .. Len(s) - 1 : Tail(s)[i] = s[i + 1]
      /\ Head(s) = s[1] /\ Head(s) \in S
  OBVIOUS
<1>2. ASSUME NEW y PROVE y \in ToSet(s) <=> y \in ToSet(Tail(s)) \cup {Head(s)}
  <2>1. y \in ToSet(s) <=> \E i \in 1 .. Len(s) : s[i] = y
    BY Elements
  <2>2. y \in ToSet(Tail(s)) <=> \E i \in 1 .. Len(s) - 1 : s[i + 1] = y
    <3>1. DOMAIN Tail(s) = 1 .. Len(s) - 1
      BY <1>1
    <3>2. y \in ToSet(Tail(s)) <=> \E i \in 1 .. Len(s) - 1 : Tail(s)[i] = y
      BY <3>1, Zenon DEF ToSet
    <3> QED BY <1>1, <3>2
  <2>3. ASSUME NEW i \in 1 .. Len(s), s[i] = y, i # 1 PROVE \E j \in 1 .. Len(s) - 1 : s[j + 1] = y
    <3>1. i - 1 \in 1 .. Len(s) - 1 /\ (i - 1) + 1 = i
      BY <2>3, <1>1
    <3> QED BY <2>3, <3>1
  <2> QED BY <1>1, <2>1, <2>2, <2>3
<1> QED BY <1>1, <1>2

-----------------------------------------------------------------------------
(* The functions that can be reached.                                      *)

LEMMA ClosureLeast ==
  ASSUME NEW called, NEW fns, NEW S \in SUBSET Fns, fns \subseteq S, Closed(called, S)
  PROVE  Closure(called, fns) \subseteq S
  BY DEF Closure

LEMMA ClosureClosed ==
  ASSUME NEW called \in [Fns -> Seq(Fns)], NEW fns \in SUBSET Fns
  PROVE  /\ fns \subseteq Closure(called, fns) /\ Closure(called, fns) \subseteq Fns
         /\ Closed(called, Closure(called, fns))
<1>1. fns \subseteq Closure(called, fns) /\ Closure(called, fns) \subseteq Fns
  BY DEF Closure
<1>2. ASSUME NEW f \in Closure(called, fns), NEW g \in ToSet(called[f])
      PROVE  g \in Closure(called, fns)
  <2>1. f \in Fns /\ g \in Fns
    BY <1>1, Elements
  <2>2. ASSUME NEW S \in SUBSET Fns, fns \subseteq S, Closed(called, S) PROVE g \in S
    <3>1. f \in S
      BY <2>2, ClosureLeast
    <3> QED BY <2>2, <3>1 DEF Closed
  <2> QED BY <2>1, <2>2 DEF Closure
<1> QED BY <1>1, <1>2 DEF Closed

LEMMA MainIsAFunction == main \in Fns /\ N \in Nat
  BY InlinerAssumption DEF InlinerAssumption, main, Fns

\* What collectFnGraph collects.
LEMMA CollectedGraph ==
  ASSUME NEW called \in [Fns -> Seq(Fns)]
  PROVE  /\ main \in ProgramFns(called) /\ ProgramFns(called) \subseteq Fns
         /\ Closed(called, ProgramFns(called))
         /\ CollectedCalled(called) \in [Fns -> Seq(Fns)]
         /\ \A f \in ProgramFns(called) : CollectedCalled(called)[f] = called[f]
         /\ CollectedParents(called) \in [Fns -> SUBSET Fns]
         /\ \A f, g \in Fns : g \in CollectedParents(called)[f] <=>
              g \in ProgramFns(called) /\ f \in ToSet(called[g])
<1>1. /\ main \in ProgramFns(called) /\ ProgramFns(called) \subseteq Fns
      /\ Closed(called, ProgramFns(called))
  BY MainIsAFunction, ClosureClosed DEF ProgramFns
<1>2. /\ CollectedCalled(called) \in [Fns -> Seq(Fns)]
      /\ \A f \in Fns : CollectedCalled(called)[f] =
           IF f \in ProgramFns(called) THEN called[f] ELSE <<>>
  BY DEF CollectedCalled
<1>3. \A f : f \notin ToSet(<<>>)
  BY DEF ToSet
<1>4. /\ CollectedParents(called) \in [Fns -> SUBSET Fns]
      /\ \A f, g \in Fns : g \in CollectedParents(called)[f] <=>
           f \in ToSet(CollectedCalled(called)[g])
  BY DEF CollectedParents
<1> QED BY <1>1, <1>2, <1>3, <1>4

-----------------------------------------------------------------------------
(* The order of the functions.                                             *)

\* R is the set of functions that main reaches in a graph c with parents p.
GraphOf(c, p, R) ==
  /\ c \in [Fns -> Seq(Fns)] /\ p \in [Fns -> SUBSET Fns] /\ R \in SUBSET Fns
  /\ main \in R /\ Closed(c, R)
  /\ \A S \in SUBSET Fns : main \in S /\ Closed(c, S) => R \subseteq S

\* What is ordered is reached, each function once and main first.
WellOrdered(R, s) ==
  /\ s.order # <<>> /\ s.order[1] = main
  /\ IsInjective(s.order)
  /\ ToSet(s.order) \subseteq R
  /\ s.func \in ToSet(s.order) /\ ToSet(s.queue) \subseteq ToSet(s.order)
  /\ ToSet(s.deferred) \subseteq R /\ ToSet(s.left) \subseteq R

\* No child is forgotten.
NoneForgotten(c, s) ==
  \A f \in ToSet(s.order) :
    \/ f \in ToSet(s.queue)
    \/ \A j \in 1 .. Len(c[f]) :
         \/ f = s.func /\ j >= s.child
         \/ c[f][j] \in ToSet(s.order) \cup ToSet(s.deferred) \cup ToSet(s.left)

\* What is not an entrance comes after its parents.
AfterParents(p, order, entrances) ==
  \A i \in 2 .. Len(order) : order[i] \notin entrances =>
    \A g \in p[order[i]] : \E j \in 1 .. i - 1 : order[j] = g

OrderInv(c, p, R, s) ==
  /\ s \in OrderingStates
  /\ WellOrdered(R, s)
  /\ NoneForgotten(c, s)
  /\ AfterParents(p, s.order, s.entrances)

Unvisited(s) == Cardinality(Fns \ ToSet(s.order)) + Len(s.queue)
ToVisit(c, s) ==
  3 * (IF s.child > Len(c[s.func]) THEN 0 ELSE Len(c[s.func]) - s.child + 1)
    + 2 * Len(s.deferred) + Len(s.left)

\* A step is nearer to the end.
Nearer(c, s, t) ==
  Unvisited(t) < Unvisited(s) \/ (Unvisited(t) = Unvisited(s) /\ ToVisit(c, t) < ToVisit(c, s))

LEMMA FnsAreFinite ==
  /\ IsFiniteSet(Fns)
  /\ \A S : Cardinality(Fns \ S) \in Nat /\ Cardinality(Fns \ S) \in Int
<1>1. IsFiniteSet(Fns)
  BY MainIsAFunction, FS_Interval DEF Fns
<1>2. ASSUME NEW S PROVE Cardinality(Fns \ S) \in Nat /\ Cardinality(Fns \ S) \in Int
  <2>1. IsFiniteSet(Fns \ S)
    BY <1>1, FS_Difference
  <2>2. Cardinality(Fns \ S) \in Nat
    BY <2>1, FS_CardinalityType, Zenon
  <2> QED BY <2>2
<1> QED BY <1>1, <1>2

LEMMA MeasuresAreNatural ==
  ASSUME NEW c \in [Fns -> Seq(Fns)], NEW s \in OrderingStates
  PROVE  Unvisited(s) \in Nat /\ ToVisit(c, s) \in Nat
<1>2. Cardinality(Fns \ ToSet(s.order)) \in Nat
  BY FnsAreFinite
<1>3. /\ s.queue \in Seq(Fns) /\ s.deferred \in Seq(Fns) /\ s.left \in Seq(Fns)
      /\ s.func \in Fns /\ s.child \in Nat \ {0}
  BY DEF OrderingStates
<1>4. Len(s.queue) \in Nat /\ Len(s.deferred) \in Nat /\ Len(s.left) \in Nat /\ Len(c[s.func]) \in Nat
  BY <1>3
<1>5. \A n, k, d, l \in Nat :
        n + k \in Nat /\ 3 * (IF k > n THEN 0 ELSE n - k + 1) + 2 * d + l \in Nat
  OBVIOUS
<1>6. Unvisited(s) \in Nat
  BY <1>2, <1>4, <1>5 DEF Unvisited
<1>7. ToVisit(c, s) \in Nat
  <2>1. s.child \in Nat
    BY <1>3
  <2> QED BY <1>4, <1>5, <2>1, Zenon DEF ToVisit
<1> QED BY <1>6, <1>7

OrderSoFar(p, order, e) ==
  /\ order # <<>> /\ order[1] = main
  /\ IsInjective(order) /\ AfterParents(p, order, e)

OneLess(order, new) == Cardinality(Fns \ ToSet(new)) = Cardinality(Fns \ ToSet(order)) - 1

\* A function is added to the order.
LEMMA AddingToTheOrder ==
  ASSUME NEW p \in [Fns -> SUBSET Fns], NEW order \in Seq(Fns), NEW e \in SUBSET Fns, NEW f \in Fns,
         OrderSoFar(p, order, e),
         f \notin ToSet(order), f \in e \/ p[f] \subseteq ToSet(order)
  PROVE  OrderSoFar(p, Append(order, f), e) /\ OneLess(order, Append(order, f))
<1> DEFINE new == Append(order, f)
<1>0. order # <<>> /\ order[1] = main /\ IsInjective(order) /\ AfterParents(p, order, e)
  BY DEF OrderSoFar
<1>1. /\ new \in Seq(Fns) /\ Len(new) = Len(order) + 1 /\ Len(order) \in Nat \ {0}
      /\ \A i \in 1 .. Len(order) : new[i] = order[i]
      /\ new[Len(order) + 1] = f
      /\ DOMAIN new = 1 .. Len(order) + 1 /\ DOMAIN order = 1 .. Len(order)
  BY <1>0
<1>2. \A x : x \in ToSet(order) <=> \E i \in 1 .. Len(order) : order[i] = x
  BY Elements
<1>3. \A i \in 1 .. Len(order) : order[i] # f
  BY <1>2
<1> HIDE DEF new
<1>4. IsInjective(new)
  <2> SUFFICES ASSUME NEW a \in 1 .. Len(order) + 1, NEW b \in 1 .. Len(order) + 1, new[a] = new[b]
               PROVE  a = b
    BY <1>1 DEF IsInjective
  <2>1. \A x, y \in 1 .. Len(order) : order[x] = order[y] => x = y
    BY <1>0, <1>1 DEF IsInjective
  <2> QED BY <1>1, <1>3, <2>1
<1>5. AfterParents(p, new, e)
  <2> SUFFICES ASSUME NEW i \in 2 .. Len(order) + 1, new[i] \notin e, NEW g \in p[new[i]]
               PROVE  \E j \in 1 .. i - 1 : new[j] = g
    BY <1>1 DEF AfterParents
  <2>1. CASE i = Len(order) + 1
    <3>1. g \in ToSet(order)
      BY <1>1, <2>1
    <3>2. PICK j \in 1 .. Len(order) : order[j] = g
      BY <1>2, <3>1
    <3> QED BY <1>1, <2>1, <3>2
  <2>2. CASE i # Len(order) + 1
    <3>1. i \in 2 .. Len(order) /\ i \in 1 .. Len(order) /\ new[i] = order[i]
      BY <1>1, <2>2
    <3>2. order[i] \notin e /\ g \in p[order[i]]
      BY <3>1
    <3>3. PICK j \in 1 .. i - 1 : order[j] = g
      BY <1>0, <3>1, <3>2 DEF AfterParents
    <3>4. j \in 1 .. Len(order)
      BY <3>1, <1>1
    <3> QED BY <1>1, <3>3, <3>4
  <2> QED BY <2>1, <2>2
<1>6. Cardinality(Fns \ ToSet(new)) = Cardinality(Fns \ ToSet(order)) - 1
  <2>1. ToSet(new) = ToSet(order) \cup {f}
    BY ElementsOfAppend DEF new
  <2>2. Fns \ ToSet(new) = (Fns \ ToSet(order)) \ {f}
    BY <2>1
  <2>3. IsFiniteSet(Fns)
    BY MainIsAFunction, FS_Interval DEF Fns
  <2>4. IsFiniteSet(Fns \ ToSet(order))
    BY <2>3, FS_Difference
  <2>5. f \in Fns \ ToSet(order)
    OBVIOUS
  <2>6. Cardinality((Fns \ ToSet(order)) \ {f}) = Cardinality(Fns \ ToSet(order)) - 1
    <3> DEFINE A == Fns \ ToSet(order)
    <3>1. IsFiniteSet(A) /\ f \in A
      BY <2>4, <2>5
    <3> HIDE DEF A
    <3> SUFFICES Cardinality(A \ {f}) = Cardinality(A) - 1
      BY Zenon DEF A
    <3> QED BY <3>1, FS_RemoveElement
  <2> QED BY <2>2, <2>6, Zenon
<1>7. new # <<>> /\ new[1] = main
  BY <1>0, <1>1
<1> QED BY <1>4, <1>5, <1>6, <1>7 DEF new, OrderSoFar, OneLess

LEMMA FieldTypes ==
  ASSUME NEW s \in OrderingStates
  PROVE  /\ s.order \in Seq(Fns) /\ s.queue \in Seq(Fns) /\ s.func \in Fns
         /\ s.child \in Nat \ {0} /\ s.deferred \in Seq(Fns) /\ s.left \in Seq(Fns)
         /\ s.entrances \in SUBSET Fns
         /\ Len(s.queue) \in Nat /\ Len(s.deferred) \in Nat /\ Len(s.left) \in Nat
<1>1. /\ s.order \in Seq(Fns) /\ s.queue \in Seq(Fns) /\ s.func \in Fns
      /\ s.child \in Nat \ {0} /\ s.deferred \in Seq(Fns) /\ s.left \in Seq(Fns)
      /\ s.entrances \in SUBSET Fns
  BY DEF OrderingStates
<1> QED BY <1>1

\* How far the children of a function are visited.
LEMMA VisitingChildren ==
  ASSUME NEW c \in [Fns -> Seq(Fns)], NEW s \in OrderingStates, s.child <= Len(c[s.func]) + 1
  PROVE  ToVisit(c, s) = 3 * (Len(c[s.func]) + 1 - s.child) + 2 * Len(s.deferred) + Len(s.left)
<1>1. s.child \in Nat /\ Len(c[s.func]) \in Nat
  BY FieldTypes
<1>2. \A n, k \in Nat : k <= n + 1 => (IF k > n THEN 0 ELSE n - k + 1) = n + 1 - k
  OBVIOUS
<1> QED BY <1>1, <1>2 DEF ToVisit

\* The three outcomes of visiting a child.
LEMMA ChildSkipped ==
  ASSUME NEW s \in OrderingStates
  PROVE  LET t == [s EXCEPT !.child = @ + 1]
         IN  /\ t \in OrderingStates
             /\ t.order = s.order /\ t.queue = s.queue /\ t.func = s.func /\ t.child = s.child + 1
             /\ t.deferred = s.deferred /\ t.left = s.left /\ t.entrances = s.entrances
<1> DEFINE t == [s EXCEPT !.child = @ + 1]
<1>1. s.child + 1 \in Nat \ {0}
  BY FieldTypes
<1>2. t \in OrderingStates
  BY <1>1 DEF OrderingStates
<1>3. /\ t.order = s.order /\ t.queue = s.queue /\ t.func = s.func /\ t.child = s.child + 1
      /\ t.deferred = s.deferred /\ t.left = s.left /\ t.entrances = s.entrances
  BY DEF OrderingStates
<1> QED BY <1>2, <1>3

LEMMA FunctionAdded ==
  ASSUME NEW s \in OrderingStates, NEW f \in Fns
  PROVE  LET t == AddToOrder(s, f)
         IN  /\ t \in OrderingStates
             /\ t.order = Append(s.order, f) /\ t.queue = Append(s.queue, f)
             /\ t.func = s.func /\ t.child = s.child
             /\ t.deferred = s.deferred /\ t.left = s.left /\ t.entrances = s.entrances
<1> DEFINE t == AddToOrder(s, f)
<1>1. Append(s.order, f) \in Seq(Fns) /\ Append(s.queue, f) \in Seq(Fns)
  BY FieldTypes
<1>2. t \in OrderingStates
  BY <1>1 DEF OrderingStates, AddToOrder
<1>3. /\ t.order = Append(s.order, f) /\ t.queue = Append(s.queue, f)
      /\ t.func = s.func /\ t.child = s.child
      /\ t.deferred = s.deferred /\ t.left = s.left /\ t.entrances = s.entrances
  BY DEF OrderingStates, AddToOrder
<1> QED BY <1>2, <1>3

LEMMA FunctionDeferred ==
  ASSUME NEW s \in OrderingStates, NEW f \in Fns
  PROVE  LET t == [s EXCEPT !.deferred = Append(@, f)]
         IN  /\ t \in OrderingStates
             /\ t.order = s.order /\ t.queue = s.queue /\ t.func = s.func /\ t.child = s.child
             /\ t.deferred = Append(s.deferred, f) /\ t.left = s.left /\ t.entrances = s.entrances
<1> DEFINE t == [s EXCEPT !.deferred = Append(@, f)]
<1>1. Append(s.deferred, f) \in Seq(Fns)
  BY FieldTypes
<1>2. t \in OrderingStates
  BY <1>1 DEF OrderingStates
<1>3. /\ t.order = s.order /\ t.queue = s.queue /\ t.func = s.func /\ t.child = s.child
      /\ t.deferred = Append(s.deferred, f) /\ t.left = s.left /\ t.entrances = s.entrances
  BY DEF OrderingStates
<1> QED BY <1>2, <1>3

\* Visiting a child.
LEMMA ChildStep ==
  ASSUME NEW c, NEW p, NEW R, GraphOf(c, p, R), NEW s, OrderInv(c, p, R, s),
         ~ChildrenVisited(c, s)
  PROVE  /\ OrderInv(c, p, R, OrderChild(c, p, s))
         /\ Nearer(c, s, OrderChild(c, p, s))
<1> DEFINE f == c[s.func][s.child]
           t == OrderChild(c, p, s)
<1>1. /\ c \in [Fns -> Seq(Fns)] /\ p \in [Fns -> SUBSET Fns] /\ R \in SUBSET Fns /\ Closed(c, R)
      /\ s \in OrderingStates
  BY DEF GraphOf, OrderInv
<1>2. /\ s.order \in Seq(Fns) /\ s.queue \in Seq(Fns) /\ s.func \in Fns
      /\ s.child \in Nat \ {0} /\ s.deferred \in Seq(Fns) /\ s.left \in Seq(Fns)
      /\ s.entrances \in SUBSET Fns
      /\ Len(s.queue) \in Nat /\ Len(s.deferred) \in Nat /\ Len(s.left) \in Nat
  BY <1>1, FieldTypes
<1>3. c[s.func] \in Seq(Fns) /\ Len(c[s.func]) \in Nat /\ s.child \in 1 .. Len(c[s.func])
  BY <1>1, <1>2 DEF ChildrenVisited
<1>4. f \in Fns /\ f \in R
  <2>1. f \in ToSet(c[s.func]) /\ f \in Fns
    BY <1>3, Elements
  <2>2. s.func \in R
    BY DEF OrderInv, WellOrdered
  <2> QED BY <1>1, <2>1, <2>2 DEF Closed
<1> HIDE DEF f
<1>5. ToVisit(c, s) = 3 * (Len(c[s.func]) + 1 - s.child) + 2 * Len(s.deferred) + Len(s.left)
  <2>1. s.child <= Len(c[s.func]) + 1
    BY <1>3
  <2> QED BY <1>1, <2>1, VisitingChildren
<1>6. CASE f \in ToSet(s.order) \/ \E i \in 1 .. s.child - 1 : c[s.func][i] = f
  <2>1. t = [s EXCEPT !.child = @ + 1]
    BY <1>6 DEF OrderChild, f
  <2> HIDE DEF t
  <2>2. /\ t \in OrderingStates
        /\ t.order = s.order /\ t.queue = s.queue /\ t.func = s.func /\ t.child = s.child + 1
        /\ t.deferred = s.deferred /\ t.left = s.left /\ t.entrances = s.entrances
    BY <1>1, <2>1, ChildSkipped
  <2>3. WellOrdered(R, t) /\ AfterParents(p, t.order, t.entrances)
    BY <2>2 DEF OrderInv, WellOrdered
  <2>4. NoneForgotten(c, t)
    <3> SUFFICES ASSUME NEW g \in ToSet(s.order), g \notin ToSet(s.queue), NEW j \in 1 .. Len(c[g]),
                        ~(g = s.func /\ j >= s.child + 1)
                 PROVE  c[g][j] \in ToSet(s.order) \cup ToSet(s.deferred) \cup ToSet(s.left)
      BY <2>2 DEF NoneForgotten
    <3>1. \A i \in 1 .. Len(c[g]) : \/ g = s.func /\ i >= s.child
            \/ c[g][i] \in ToSet(s.order) \cup ToSet(s.deferred) \cup ToSet(s.left)
      BY DEF OrderInv, NoneForgotten
    <3>2. CASE g = s.func /\ j = s.child
      <4>1. c[g][j] = f
        BY <3>2 DEF f
      <4>2. ASSUME NEW i \in 1 .. s.child - 1, c[s.func][i] = f
            PROVE  f \in ToSet(s.order) \cup ToSet(s.deferred) \cup ToSet(s.left)
        <5>1. i \in 1 .. Len(c[g]) /\ ~(i >= s.child)
          BY <1>2, <1>3, <3>2
        <5> QED BY <3>1, <3>2, <4>2, <5>1
      <4> QED BY <1>6, <4>1, <4>2
    <3>3. CASE ~(g = s.func /\ j = s.child)
      <4>1. j \in Nat /\ s.child \in Nat
        BY <1>2
      <4>2. ~(g = s.func /\ j >= s.child)
        BY <3>3, <4>1
      <4> QED BY <3>1, <4>2
    <3> QED BY <3>2, <3>3
  <2>5. Nearer(c, s, t)
    <3>1. t.child <= Len(c[t.func]) + 1
      BY <1>2, <1>3, <2>2
    <3>2. ToVisit(c, t) = 3 * (Len(c[s.func]) + 1 - (s.child + 1)) + 2 * Len(s.deferred) + Len(s.left)
      BY <1>1, <2>2, <3>1, VisitingChildren
    <3>3. Unvisited(t) = Unvisited(s)
      BY <2>2 DEF Unvisited
    <3>4. ToVisit(c, t) < ToVisit(c, s)
      <4> DEFINE n == Len(c[s.func])
                 d == Len(s.deferred)
                 l == Len(s.left)
      <4>1. n \in Nat /\ s.child \in Nat /\ d \in Nat /\ l \in Nat
        BY <1>2, <1>3
      <4>2. ToVisit(c, s) = 3 * (n + 1 - s.child) + 2 * d + l
        BY <1>5
      <4>3. \/ ToVisit(c, t) = 3 * (n + 1 - (s.child + 1)) + 2 * d + l
            \/ ToVisit(c, t) = 3 * (n + 1 - (s.child + 1)) + 2 * (d + 1) + l
        BY <3>2
      <4> HIDE DEF n, d, l
      <4> QED BY <4>1, <4>2, <4>3
    <3> QED BY <3>3, <3>4 DEF Nearer
  <2> QED BY <2>2, <2>3, <2>4, <2>5 DEF OrderInv, t
<1>7. CASE /\ ~(f \in ToSet(s.order) \/ \E i \in 1 .. s.child - 1 : c[s.func][i] = f)
           /\ p[f] \subseteq ToSet(s.order)
  <2>1. t = AddToOrder([s EXCEPT !.child = @ + 1], f)
    BY <1>7 DEF OrderChild, f
  <2> HIDE DEF t
  <2>2. Append(s.order, f) \in Seq(Fns) /\ Append(s.queue, f) \in Seq(Fns)
    BY <1>2, <1>4
  <2>3. /\ t \in OrderingStates
        /\ t.order = Append(s.order, f) /\ t.queue = Append(s.queue, f)
        /\ t.func = s.func /\ t.child = s.child + 1
        /\ t.deferred = s.deferred /\ t.left = s.left /\ t.entrances = s.entrances
    <3> DEFINE r == [s EXCEPT !.child = @ + 1]
    <3>1. /\ r \in OrderingStates
          /\ r.order = s.order /\ r.queue = s.queue /\ r.func = s.func /\ r.child = s.child + 1
          /\ r.deferred = s.deferred /\ r.left = s.left /\ r.entrances = s.entrances
      BY <1>1, ChildSkipped
    <3>2. t = AddToOrder(r, f)
      BY <2>1
    <3> HIDE DEF r
    <3>3. LET u == AddToOrder(r, f)
          IN  /\ u \in OrderingStates
              /\ u.order = Append(r.order, f) /\ u.queue = Append(r.queue, f)
              /\ u.func = r.func /\ u.child = r.child
              /\ u.deferred = r.deferred /\ u.left = r.left /\ u.entrances = r.entrances
      BY <1>4, <3>1, FunctionAdded, Zenon
    <3> QED BY <3>1, <3>2, <3>3, Zenon
  <2>4. /\ ToSet(t.order) = ToSet(s.order) \cup {f} /\ ToSet(t.queue) = ToSet(s.queue) \cup {f}
    BY <1>2, <1>4, <2>3, ElementsOfAppend
  <2>5. /\ t.order # <<>> /\ t.order[1] = main /\ IsInjective(t.order)
        /\ AfterParents(p, t.order, t.entrances)
        /\ Cardinality(Fns \ ToSet(t.order)) = Cardinality(Fns \ ToSet(s.order)) - 1
    <3>1. OrderSoFar(p, s.order, s.entrances)
      BY DEF OrderInv, WellOrdered, OrderSoFar
    <3>2. f \notin ToSet(s.order) /\ p[f] \subseteq ToSet(s.order)
      BY <1>7
    <3>3. OrderSoFar(p, Append(s.order, f), s.entrances) /\ OneLess(s.order, Append(s.order, f))
      BY <1>1, <1>2, <1>4, <3>1, <3>2, AddingToTheOrder
    <3> QED BY <2>3, <3>3, Zenon DEF OrderSoFar, OneLess
  <2>6. WellOrdered(R, t)
    BY <1>4, <2>3, <2>4, <2>5 DEF OrderInv, WellOrdered
  <2>7. NoneForgotten(c, t)
    <3> SUFFICES ASSUME NEW g \in ToSet(t.order), g \notin ToSet(t.queue), NEW j \in 1 .. Len(c[g]),
                        ~(g = s.func /\ j >= s.child + 1)
                 PROVE  c[g][j] \in ToSet(t.order) \cup ToSet(s.deferred) \cup ToSet(s.left)
      BY <2>3 DEF NoneForgotten
    <3>1. g \in ToSet(s.order) /\ g \notin ToSet(s.queue)
      BY <2>4
    <3>2. \A i \in 1 .. Len(c[g]) : \/ g = s.func /\ i >= s.child
            \/ c[g][i] \in ToSet(s.order) \cup ToSet(s.deferred) \cup ToSet(s.left)
      BY <3>1 DEF OrderInv, NoneForgotten
    <3>3. CASE g = s.func /\ j = s.child
      BY <2>4, <3>3 DEF f
    <3>4. CASE ~(g = s.func /\ j = s.child)
      <4>1. j \in Nat /\ s.child \in Nat
        BY <1>2
      <4>2. ~(g = s.func /\ j >= s.child)
        BY <3>4, <4>1
      <4> QED BY <2>4, <3>2, <4>2
    <3> QED BY <3>3, <3>4
  <2>8. Nearer(c, s, t)
    <3>1. t.child <= Len(c[t.func]) + 1
      BY <1>2, <1>3, <2>3
    <3>2. ToVisit(c, t) = 3 * (Len(c[s.func]) + 1 - (s.child + 1)) + 2 * Len(s.deferred) + Len(s.left)
      BY <1>1, <2>3, <3>1, VisitingChildren
    <3>3. Unvisited(t) = Unvisited(s)
      <4>1. Len(t.queue) = Len(s.queue) + 1
        BY <1>2, <1>4, <2>3
      <4>2. Cardinality(Fns \ ToSet(s.order)) \in Int
        BY FnsAreFinite
      <4>3. \A a \in Int, b \in Nat : (a - 1) + (b + 1) = a + b
        OBVIOUS
      <4> QED BY <1>2, <2>5, <4>1, <4>2, <4>3 DEF Unvisited
    <3>4. ToVisit(c, t) < ToVisit(c, s)
      <4> DEFINE n == Len(c[s.func])
                 d == Len(s.deferred)
                 l == Len(s.left)
      <4>1. n \in Nat /\ s.child \in Nat /\ d \in Nat /\ l \in Nat
        BY <1>2, <1>3
      <4>2. ToVisit(c, s) = 3 * (n + 1 - s.child) + 2 * d + l
        BY <1>5
      <4>3. \/ ToVisit(c, t) = 3 * (n + 1 - (s.child + 1)) + 2 * d + l
            \/ ToVisit(c, t) = 3 * (n + 1 - (s.child + 1)) + 2 * (d + 1) + l
        BY <3>2
      <4> HIDE DEF n, d, l
      <4> QED BY <4>1, <4>2, <4>3
    <3> QED BY <3>3, <3>4 DEF Nearer
  <2> QED BY <2>3, <2>5, <2>6, <2>7, <2>8 DEF OrderInv, t
<1>8. CASE /\ ~(f \in ToSet(s.order) \/ \E i \in 1 .. s.child - 1 : c[s.func][i] = f)
           /\ ~(p[f] \subseteq ToSet(s.order))
  <2>1. t = [[s EXCEPT !.child = @ + 1] EXCEPT !.deferred = Append(@, f)]
    BY <1>8 DEF OrderChild, f
  <2> HIDE DEF t
  <2>2. Append(s.deferred, f) \in Seq(Fns) /\ Len(Append(s.deferred, f)) = Len(s.deferred) + 1
    BY <1>2, <1>4
  <2>3. /\ t \in OrderingStates
        /\ t.order = s.order /\ t.queue = s.queue
        /\ t.func = s.func /\ t.child = s.child + 1
        /\ t.deferred = Append(s.deferred, f) /\ t.left = s.left /\ t.entrances = s.entrances
    <3> DEFINE r == [s EXCEPT !.child = @ + 1]
    <3>1. /\ r \in OrderingStates
          /\ r.order = s.order /\ r.queue = s.queue /\ r.func = s.func /\ r.child = s.child + 1
          /\ r.deferred = s.deferred /\ r.left = s.left /\ r.entrances = s.entrances
      BY <1>1, ChildSkipped
    <3>2. t = [r EXCEPT !.deferred = Append(@, f)]
      BY <2>1
    <3> HIDE DEF r
    <3> QED BY <1>4, <3>1, <3>2, FunctionDeferred
  <2>4. ToSet(t.deferred) = ToSet(s.deferred) \cup {f}
    BY <1>2, <1>4, <2>3, ElementsOfAppend
  <2>5. WellOrdered(R, t) /\ AfterParents(p, t.order, t.entrances)
    BY <1>4, <2>3, <2>4 DEF OrderInv, WellOrdered
  <2>6. NoneForgotten(c, t)
    <3> SUFFICES ASSUME NEW g \in ToSet(s.order), g \notin ToSet(s.queue), NEW j \in 1 .. Len(c[g]),
                        ~(g = s.func /\ j >= s.child + 1)
                 PROVE  c[g][j] \in ToSet(s.order) \cup ToSet(t.deferred) \cup ToSet(s.left)
      BY <2>3 DEF NoneForgotten
    <3>2. \A i \in 1 .. Len(c[g]) : \/ g = s.func /\ i >= s.child
            \/ c[g][i] \in ToSet(s.order) \cup ToSet(s.deferred) \cup ToSet(s.left)
      BY DEF OrderInv, NoneForgotten
    <3>3. CASE g = s.func /\ j = s.child
      BY <2>4, <3>3 DEF f
    <3>4. CASE ~(g = s.func /\ j = s.child)
      <4>1. j \in Nat /\ s.child \in Nat
        BY <1>2
      <4>2. ~(g = s.func /\ j >= s.child)
        BY <3>4, <4>1
      <4> QED BY <2>4, <3>2, <4>2
    <3> QED BY <3>3, <3>4
  <2>7. Nearer(c, s, t)
    <3>1. t.child <= Len(c[t.func]) + 1
      BY <1>2, <1>3, <2>3
    <3>2. ToVisit(c, t) = 3 * (Len(c[s.func]) + 1 - (s.child + 1)) + 2 * (Len(s.deferred) + 1) + Len(s.left)
      BY <1>1, <2>2, <2>3, <3>1, VisitingChildren
    <3>3. Unvisited(t) = Unvisited(s)
      BY <2>3 DEF Unvisited
    <3>4. ToVisit(c, t) < ToVisit(c, s)
      <4> DEFINE n == Len(c[s.func])
                 d == Len(s.deferred)
                 l == Len(s.left)
      <4>1. n \in Nat /\ s.child \in Nat /\ d \in Nat /\ l \in Nat
        BY <1>2, <1>3
      <4>2. ToVisit(c, s) = 3 * (n + 1 - s.child) + 2 * d + l
        BY <1>5
      <4>3. \/ ToVisit(c, t) = 3 * (n + 1 - (s.child + 1)) + 2 * d + l
            \/ ToVisit(c, t) = 3 * (n + 1 - (s.child + 1)) + 2 * (d + 1) + l
        BY <3>2
      <4> HIDE DEF n, d, l
      <4> QED BY <4>1, <4>2, <4>3
    <3> QED BY <3>3, <3>4 DEF Nearer
  <2> QED BY <2>3, <2>5, <2>6, <2>7 DEF OrderInv, t
<1> QED BY <1>6, <1>7, <1>8

LEMMA NoChildLeft ==
  ASSUME NEW c, NEW s \in OrderingStates, s.child > Len(c[s.func])
  PROVE  ToVisit(c, s) = 2 * Len(s.deferred) + Len(s.left)
<1>1. Len(s.deferred) \in Nat /\ Len(s.left) \in Nat
  BY FieldTypes
<1>2. ToVisit(c, s) = 3 * 0 + 2 * Len(s.deferred) + Len(s.left)
  BY Zenon DEF ToVisit
<1> QED BY <1>1, <1>2

\* Going through what was deferred.
LEMMA DeferredStep ==
  ASSUME NEW c, NEW p, NEW R, GraphOf(c, p, R), NEW s, OrderInv(c, p, R, s),
         ChildrenVisited(c, s), s.left # <<>>
  PROVE  /\ OrderInv(c, p, R, OrderDeferred(s))
         /\ Nearer(c, s, OrderDeferred(s))
<1> DEFINE f == Head(s.left)
           r == [s EXCEPT !.left = Tail(@)]
           e == [r EXCEPT !.entrances = @ \cup {f}]
           t == OrderDeferred(s)
<1>1. /\ c \in [Fns -> Seq(Fns)] /\ p \in [Fns -> SUBSET Fns] /\ R \in SUBSET Fns
      /\ s \in OrderingStates
  BY DEF GraphOf, OrderInv
<1>2. /\ s.order \in Seq(Fns) /\ s.queue \in Seq(Fns) /\ s.func \in Fns
      /\ s.child \in Nat \ {0} /\ s.deferred \in Seq(Fns) /\ s.left \in Seq(Fns)
      /\ s.entrances \in SUBSET Fns
      /\ Len(s.queue) \in Nat /\ Len(s.deferred) \in Nat /\ Len(s.left) \in Nat
  BY <1>1, FieldTypes
<1>3. /\ Tail(s.left) \in Seq(Fns) /\ f \in Fns /\ Len(Tail(s.left)) = Len(s.left) - 1
      /\ ToSet(s.left) = ToSet(Tail(s.left)) \cup {f}
  BY <1>2, ElementsOfTail
<1>4. f \in R
  BY <1>3 DEF OrderInv, WellOrdered
<1> HIDE DEF f
<1>5. /\ r \in OrderingStates
      /\ r.order = s.order /\ r.queue = s.queue /\ r.func = s.func /\ r.child = s.child
      /\ r.deferred = s.deferred /\ r.left = Tail(s.left) /\ r.entrances = s.entrances
  <2>1. r \in OrderingStates
    BY <1>1, <1>3 DEF OrderingStates
  <2> QED BY <1>1, <2>1 DEF OrderingStates
<1> HIDE DEF r
<1>6. Len(c[s.func]) \in Nat /\ s.child > Len(c[s.func])
  BY <1>1, <1>2 DEF ChildrenVisited
<1>7. ToVisit(c, s) = 2 * Len(s.deferred) + Len(s.left)
  BY <1>2, <1>6 DEF ToVisit
<1>8. CASE f \in ToSet(s.order)
  <2>1. t = r
    BY <1>8 DEF OrderDeferred, f, r
  <2>2. WellOrdered(R, r) /\ AfterParents(p, r.order, r.entrances)
    BY <1>3, <1>5 DEF OrderInv, WellOrdered
  <2>3. NoneForgotten(c, r)
    BY <1>3, <1>5, <1>8 DEF OrderInv, NoneForgotten
  <2>4. Nearer(c, s, r)
    <3>1. ToVisit(c, r) = 2 * Len(s.deferred) + (Len(s.left) - 1)
      <4>1. r.child > Len(c[r.func])
        BY <1>6, <1>5
      <4>2. ToVisit(c, r) = 2 * Len(r.deferred) + Len(r.left)
        BY <1>5, <4>1, NoChildLeft
      <4> QED BY <1>3, <1>5, <4>2
    <3>2. ToVisit(c, r) < ToVisit(c, s)
      <4> DEFINE d == Len(s.deferred)
                 l == Len(s.left)
      <4>1. d \in Nat /\ l \in Nat /\ ToVisit(c, s) = 2 * d + l /\ ToVisit(c, r) = 2 * d + (l - 1)
        BY <1>2, <1>7, <3>1
      <4> HIDE DEF d, l
      <4> QED BY <4>1
    <3> QED BY <1>5, <3>2 DEF Nearer, Unvisited
  <2> QED BY <1>5, <2>1, <2>2, <2>3, <2>4 DEF OrderInv
<1>9. CASE f \notin ToSet(s.order)
  <2>1. t = AddToOrder(e, f)
    BY <1>9 DEF OrderDeferred, f, r
  <2>2. /\ e \in OrderingStates
        /\ e.order = s.order /\ e.queue = s.queue /\ e.func = s.func /\ e.child = s.child
        /\ e.deferred = s.deferred /\ e.left = Tail(s.left) /\ e.entrances = s.entrances \cup {f}
    <3>1. r.entrances \cup {f} \in SUBSET Fns
      BY <1>2, <1>3, <1>5
    <3>2. e \in OrderingStates
      BY <1>5, <3>1 DEF OrderingStates
    <3> QED BY <1>5, <3>2 DEF OrderingStates
  <2> HIDE DEF e
  <2>3. /\ AddToOrder(e, f) \in OrderingStates
        /\ AddToOrder(e, f).order = Append(e.order, f) /\ AddToOrder(e, f).queue = Append(e.queue, f)
        /\ AddToOrder(e, f).func = e.func /\ AddToOrder(e, f).child = e.child
        /\ AddToOrder(e, f).deferred = e.deferred /\ AddToOrder(e, f).left = e.left
        /\ AddToOrder(e, f).entrances = e.entrances
    BY <1>3, <2>2, FunctionAdded, Zenon
  <2>4. /\ t \in OrderingStates
        /\ t.order = Append(s.order, f) /\ t.queue = Append(s.queue, f)
        /\ t.func = s.func /\ t.child = s.child
        /\ t.deferred = s.deferred /\ t.left = Tail(s.left) /\ t.entrances = s.entrances \cup {f}
    BY <2>1, <2>2, <2>3, Zenon
  <2> HIDE DEF t
  <2>5. ToSet(t.order) = ToSet(s.order) \cup {f} /\ ToSet(t.queue) = ToSet(s.queue) \cup {f}
    BY <1>2, <1>3, <2>4, ElementsOfAppend
  <2>6. OrderSoFar(p, t.order, t.entrances) /\ OneLess(s.order, t.order)
    <3>1. OrderSoFar(p, s.order, s.entrances \cup {f})
      BY DEF OrderInv, WellOrdered, OrderSoFar, AfterParents
    <3>2. s.entrances \cup {f} \in SUBSET Fns
      BY <1>2, <1>3
    <3>3. f \in s.entrances \cup {f}
      OBVIOUS
    <3>4. OrderSoFar(p, Append(s.order, f), s.entrances \cup {f}) /\ OneLess(s.order, Append(s.order, f))
      BY <1>1, <1>2, <1>3, <1>9, <3>1, <3>2, <3>3, AddingToTheOrder
    <3> QED BY <2>4, <3>4, Zenon
  <2>7. WellOrdered(R, t) /\ AfterParents(p, t.order, t.entrances)
    BY <1>3, <1>4, <2>4, <2>5, <2>6 DEF OrderInv, WellOrdered, OrderSoFar
  <2>8. NoneForgotten(c, t)
    <3> SUFFICES ASSUME NEW g \in ToSet(t.order), g \notin ToSet(t.queue), NEW j \in 1 .. Len(c[g]),
                        ~(g = s.func /\ j >= s.child)
                 PROVE  c[g][j] \in ToSet(t.order) \cup ToSet(s.deferred) \cup ToSet(Tail(s.left))
      BY <2>4 DEF NoneForgotten
    <3>1. g \in ToSet(s.order) /\ g \notin ToSet(s.queue)
      BY <2>5
    <3>2. c[g][j] \in ToSet(s.order) \cup ToSet(s.deferred) \cup ToSet(s.left)
      BY <3>1 DEF OrderInv, NoneForgotten
    <3> QED BY <1>3, <2>5, <3>2
  <2>9. Nearer(c, s, t)
    <3>1. ToVisit(c, t) = 2 * Len(s.deferred) + (Len(s.left) - 1)
      <4>1. t.child > Len(c[t.func])
        BY <1>6, <2>4
      <4>2. ToVisit(c, t) = 2 * Len(t.deferred) + Len(t.left)
        BY <2>4, <4>1, NoChildLeft
      <4> QED BY <1>3, <2>4, <4>2
    <3>2. ToVisit(c, t) < ToVisit(c, s)
      <4> DEFINE d == Len(s.deferred)
                 l == Len(s.left)
      <4>1. d \in Nat /\ l \in Nat /\ ToVisit(c, s) = 2 * d + l /\ ToVisit(c, t) = 2 * d + (l - 1)
        BY <1>2, <1>7, <3>1
      <4> HIDE DEF d, l
      <4> QED BY <4>1
    <3>3. Unvisited(t) = Unvisited(s)
      <4>1. Len(t.queue) = Len(s.queue) + 1
        BY <1>2, <1>3, <2>4
      <4>2. Cardinality(Fns \ ToSet(s.order)) \in Int
        BY FnsAreFinite
      <4>3. \A a \in Int, b \in Nat : (a - 1) + (b + 1) = a + b
        OBVIOUS
      <4> QED BY <1>2, <2>6, <4>1, <4>2, <4>3 DEF Unvisited, OneLess
    <3> QED BY <3>2, <3>3 DEF Nearer
  <2> QED BY <2>4, <2>7, <2>8, <2>9 DEF OrderInv, t
<1> QED BY <1>8, <1>9

\* The next function to traverse.
LEMMA TraverseStep ==
  ASSUME NEW c, NEW p, NEW R, GraphOf(c, p, R), NEW s, OrderInv(c, p, R, s),
         ChildrenVisited(c, s), s.queue # <<>>,
         NEW t, t = [s EXCEPT !.queue = Tail(@), !.func = Head(s.queue), !.child = 1]
  PROVE  OrderInv(c, p, R, t) /\ Nearer(c, s, t)
<1> DEFINE f == Head(s.queue)
           q == Tail(s.queue)
<1>1. /\ c \in [Fns -> Seq(Fns)] /\ p \in [Fns -> SUBSET Fns] /\ R \in SUBSET Fns
      /\ s \in OrderingStates
  BY DEF GraphOf, OrderInv
<1>2. /\ s.order \in Seq(Fns) /\ s.queue \in Seq(Fns) /\ s.func \in Fns
      /\ s.child \in Nat \ {0} /\ s.deferred \in Seq(Fns) /\ s.left \in Seq(Fns)
      /\ s.entrances \in SUBSET Fns
      /\ Len(s.queue) \in Nat /\ Len(s.deferred) \in Nat /\ Len(s.left) \in Nat
  BY <1>1, FieldTypes
<1>3. /\ q \in Seq(Fns) /\ f \in Fns /\ Len(q) = Len(s.queue) - 1
      /\ ToSet(s.queue) = ToSet(q) \cup {f}
  BY <1>2, ElementsOfTail
<1>4. t = [s EXCEPT !.queue = q, !.func = f, !.child = 1] /\ 1 \in Nat \ {0}
  OBVIOUS
<1> HIDE DEF f, q
<1>5. /\ t \in OrderingStates
      /\ t.order = s.order /\ t.queue = q /\ t.func = f /\ t.child = 1
      /\ t.deferred = s.deferred /\ t.left = s.left /\ t.entrances = s.entrances
  <2>1. t \in OrderingStates
    BY <1>1, <1>3, <1>4 DEF OrderingStates
  <2> QED BY <1>1, <1>4, <2>1 DEF OrderingStates
<1>6. WellOrdered(R, t) /\ AfterParents(p, t.order, t.entrances)
  BY <1>3, <1>5 DEF OrderInv, WellOrdered
<1>7. NoneForgotten(c, t)
  <2> SUFFICES ASSUME NEW g \in ToSet(s.order), g \notin ToSet(q), NEW j \in 1 .. Len(c[g]),
                      ~(g = f /\ j >= 1)
               PROVE  c[g][j] \in ToSet(s.order) \cup ToSet(s.deferred) \cup ToSet(s.left)
    BY <1>5 DEF NoneForgotten
  <2>1. g # f
    OBVIOUS
  <2>2. g \notin ToSet(s.queue)
    BY <1>3, <2>1
  <2>3. g \in Fns /\ Len(c[g]) \in Nat
    BY <1>1, <1>2, Elements
  <2>4. ~(g = s.func /\ j >= s.child)
    BY <1>2, <2>3 DEF ChildrenVisited
  <2> QED BY <2>2, <2>4 DEF OrderInv, NoneForgotten
<1>8. Nearer(c, s, t)
  <2>1. Cardinality(Fns \ ToSet(s.order)) \in Int
    BY FnsAreFinite
  <2>2. \A a \in Int, b \in Nat : a + (b - 1) < a + b
    OBVIOUS
  <2>3. Unvisited(t) < Unvisited(s)
    BY <1>2, <1>3, <1>5, <2>1, <2>2 DEF Unvisited
  <2> QED BY <2>3 DEF Nearer
<1> QED BY <1>5, <1>6, <1>7, <1>8 DEF OrderInv

\* Nothing is left but what was deferred.
LEMMA DeferredAreLeft ==
  ASSUME NEW c, NEW p, NEW R, GraphOf(c, p, R), NEW s, OrderInv(c, p, R, s),
         ChildrenVisited(c, s), s.left = <<>>, s.deferred # <<>>,
         NEW t, t = [s EXCEPT !.left = s.deferred, !.deferred = <<>>]
  PROVE  OrderInv(c, p, R, t) /\ Nearer(c, s, t)
<1>1. /\ c \in [Fns -> Seq(Fns)] /\ s \in OrderingStates
  BY DEF GraphOf, OrderInv
<1>2. /\ s.func \in Fns /\ s.deferred \in Seq(Fns) /\ s.left \in Seq(Fns)
      /\ Len(s.deferred) \in Nat \ {0}
  BY <1>1, FieldTypes
<1>3. <<>> \in Seq(Fns) /\ Len(<<>>) = 0
  OBVIOUS
<1>4. /\ t \in OrderingStates
      /\ t.order = s.order /\ t.queue = s.queue /\ t.func = s.func /\ t.child = s.child
      /\ t.deferred = <<>> /\ t.left = s.deferred /\ t.entrances = s.entrances
  <2>1. t \in OrderingStates
    BY <1>1, <1>2, <1>3 DEF OrderingStates
  <2> QED BY <1>1, <2>1 DEF OrderingStates
<1>5. ToSet(<<>>) = {}
  BY DEF ToSet
<1>6. WellOrdered(R, t) /\ AfterParents(p, t.order, t.entrances)
  BY <1>4, <1>5 DEF OrderInv, WellOrdered
<1>7. NoneForgotten(c, t)
  BY <1>4, <1>5 DEF OrderInv, NoneForgotten
<1>8. Nearer(c, s, t)
  <2>1. s.child > Len(c[s.func]) /\ t.child > Len(c[t.func])
    BY <1>4 DEF ChildrenVisited
  <2>2. ToVisit(c, s) = 2 * Len(s.deferred) + 0
    BY <1>1, <1>3, <2>1, NoChildLeft
  <2>3. ToVisit(c, t) = 2 * 0 + Len(s.deferred)
    BY <1>3, <1>4, <2>1, NoChildLeft
  <2>4. ToVisit(c, t) < ToVisit(c, s)
    <3> DEFINE d == Len(s.deferred)
    <3>1. d \in Nat \ {0} /\ ToVisit(c, s) = 2 * d + 0 /\ ToVisit(c, t) = 2 * 0 + d
      BY <1>2, <2>2, <2>3
    <3> HIDE DEF d
    <3> QED BY <3>1
  <2>5. Unvisited(t) = Unvisited(s)
    BY <1>4 DEF Unvisited
  <2> QED BY <2>4, <2>5 DEF Nearer
<1> QED BY <1>4, <1>6, <1>7, <1>8 DEF OrderInv

\* Every step keeps the invariant and is nearer to the end.
LEMMA OrderingSteps ==
  ASSUME NEW c, NEW p, NEW R, GraphOf(c, p, R), NEW s, OrderInv(c, p, R, s), ~Ordered(c, s)
  PROVE  /\ OrderInv(c, p, R, OrderingStep(c, p, s))
         /\ Nearer(c, s, OrderingStep(c, p, s))
<1>1. CASE ~ChildrenVisited(c, s)
  <2>1. OrderingStep(c, p, s) = OrderChild(c, p, s)
    BY <1>1, Zenon DEF OrderingStep
  <2> QED BY <1>1, <2>1, ChildStep
<1>2. CASE ChildrenVisited(c, s) /\ s.left # <<>>
  <2>1. OrderingStep(c, p, s) = OrderDeferred(s)
    BY <1>2, Zenon DEF OrderingStep
  <2> QED BY <1>2, <2>1, DeferredStep
<1>3. CASE ChildrenVisited(c, s) /\ s.left = <<>> /\ s.queue # <<>>
  <2>1. OrderingStep(c, p, s) = [s EXCEPT !.queue = Tail(@), !.func = Head(s.queue), !.child = 1]
    BY <1>3, Zenon DEF OrderingStep
  <2> QED BY <1>3, <2>1, TraverseStep
<1>4. CASE ChildrenVisited(c, s) /\ s.left = <<>> /\ s.queue = <<>>
  <2>1. OrderingStep(c, p, s) = [s EXCEPT !.left = s.deferred, !.deferred = <<>>]
    BY <1>4, Zenon DEF OrderingStep
  <2>2. s.deferred # <<>>
    BY <1>4 DEF Ordered
  <2> QED BY <1>4, <2>1, <2>2, DeferredAreLeft
<1> QED BY <1>1, <1>2, <1>3, <1>4

\* A step leads to a state, whatever the order so far.
LEMMA StepsAreStates ==
  ASSUME NEW c \in [Fns -> Seq(Fns)], NEW p, NEW s \in OrderingStates
  PROVE  OrderingStep(c, p, s) \in OrderingStates
<1>1. /\ s.order \in Seq(Fns) /\ s.queue \in Seq(Fns) /\ s.func \in Fns
      /\ s.child \in Nat \ {0} /\ s.deferred \in Seq(Fns) /\ s.left \in Seq(Fns)
      /\ s.entrances \in SUBSET Fns
  BY FieldTypes
<1>2. CASE ~ChildrenVisited(c, s)
  <2> DEFINE f == c[s.func][s.child]
             r == [s EXCEPT !.child = @ + 1]
  <2>1. f \in Fns /\ r \in OrderingStates
    BY <1>1, <1>2, ChildSkipped DEF ChildrenVisited
  <2>2. AddToOrder(r, f) \in OrderingStates /\ [r EXCEPT !.deferred = Append(@, f)] \in OrderingStates
    BY <2>1, FunctionAdded, FunctionDeferred, Zenon
  <2>3. \/ OrderingStep(c, p, s) = r
        \/ OrderingStep(c, p, s) = AddToOrder(r, f)
        \/ OrderingStep(c, p, s) = [r EXCEPT !.deferred = Append(@, f)]
    <3>1. OrderingStep(c, p, s) = OrderChild(c, p, s)
      BY <1>2, Zenon DEF OrderingStep
    <3> QED BY <3>1, Zenon DEF OrderChild
  <2> QED BY <2>1, <2>2, <2>3, Zenon
<1>3. CASE ChildrenVisited(c, s) /\ s.left # <<>>
  <2> DEFINE f == Head(s.left)
             r == [s EXCEPT !.left = Tail(@)]
             e == [r EXCEPT !.entrances = @ \cup {f}]
  <2>1. Tail(s.left) \in Seq(Fns) /\ f \in Fns
    BY <1>1, <1>3, ElementsOfTail
  <2>2. r \in OrderingStates
    BY <2>1 DEF OrderingStates
  <2>3. OrderingStep(c, p, s) = r \/ OrderingStep(c, p, s) = AddToOrder(e, f)
    <3>1. OrderingStep(c, p, s) = OrderDeferred(s)
      BY <1>3, Zenon DEF OrderingStep
    <3> QED BY <3>1, Zenon DEF OrderDeferred
  <2> HIDE DEF f, r
  <2>4. e \in OrderingStates
    <3>1. r.entrances \cup {f} \in SUBSET Fns
      BY <2>1, <2>2, FieldTypes
    <3> QED BY <2>2, <3>1 DEF OrderingStates
  <2> HIDE DEF e
  <2>5. AddToOrder(e, f) \in OrderingStates
    BY <2>1, <2>4, FunctionAdded, Zenon
  <2> QED BY <2>2, <2>3, <2>5
<1>4. CASE ChildrenVisited(c, s) /\ s.left = <<>> /\ s.queue # <<>>
  <2> DEFINE f == Head(s.queue)
             q == Tail(s.queue)
  <2>1. q \in Seq(Fns) /\ f \in Fns /\ 1 \in Nat \ {0}
    BY <1>1, <1>4, ElementsOfTail
  <2>2. OrderingStep(c, p, s) = [s EXCEPT !.queue = q, !.func = f, !.child = 1]
    BY <1>4 DEF OrderingStep
  <2> HIDE DEF f, q
  <2>3. [s EXCEPT !.queue = q, !.func = f, !.child = 1] \in OrderingStates
    BY <2>1 DEF OrderingStates
  <2> QED BY <2>2, <2>3, Zenon
<1>5. CASE ChildrenVisited(c, s) /\ s.left = <<>> /\ s.queue = <<>>
  <2>1. OrderingStep(c, p, s) = [s EXCEPT !.left = s.deferred, !.deferred = <<>>]
    BY <1>5, Zenon DEF OrderingStep
  <2>2. <<>> \in Seq(Fns)
    OBVIOUS
  <2>3. [s EXCEPT !.left = s.deferred, !.deferred = <<>>] \in OrderingStates
    BY <1>1, <2>2 DEF OrderingStates
  <2> QED BY <2>1, <2>3, Zenon
<1> QED BY <1>2, <1>3, <1>4, <1>5

\* The equation of the traversal, and a function that satisfies it: the ordered
\* state among the states that follow a state.
TraversalIs(c, p, T) ==
  T = [s \in OrderingStates |-> IF Ordered(c, s) THEN s ELSE T[OrderingStep(c, p, s)]]

LEMMA TraversalExists ==
  ASSUME NEW c \in [Fns -> Seq(Fns)], NEW p
  PROVE  \E T : TraversalIs(c, p, T)
<1> DEFINE Follows(S) == \A s \in S : ~Ordered(c, s) => OrderingStep(c, p, s) \in S
           After(s) == {x \in OrderingStates :
                          \A S \in SUBSET OrderingStates : s \in S /\ Follows(S) => x \in S}
           Ends(s) == {x \in After(s) : Ordered(c, x)}
           T == [s \in OrderingStates |-> CHOOSE x : x \in Ends(s)]
<1>1. \A s \in OrderingStates : OrderingStep(c, p, s) \in OrderingStates
  BY StepsAreStates
<1>2. ASSUME NEW s \in OrderingStates, Ordered(c, s) PROVE Ends(s) = {s}
  <2>1. {s} \in SUBSET OrderingStates /\ s \in {s} /\ Follows({s})
    BY <1>2
  <2>2. s \in After(s)
    OBVIOUS
  <2>3. After(s) \subseteq {s}
    BY <2>1
  <2> QED BY <1>2, <2>2, <2>3
<1>3. ASSUME NEW s \in OrderingStates, ~Ordered(c, s)
      PROVE  Ends(s) = Ends(OrderingStep(c, p, s))
  <2> DEFINE t == OrderingStep(c, p, s)
  <2>0. t \in OrderingStates
    BY <1>1
  <2>1. After(t) \subseteq After(s)
    <3> SUFFICES ASSUME NEW x \in After(t), NEW S \in SUBSET OrderingStates, s \in S, Follows(S)
                 PROVE  x \in S
      OBVIOUS
    <3>1. t \in S
      BY <1>3
    <3> QED BY <3>1
  <2>2. After(s) \subseteq After(t) \cup {s}
    <3> DEFINE S == After(t) \cup {s}
    <3>1. S \in SUBSET OrderingStates /\ s \in S
      OBVIOUS
    <3>2. t \in After(t)
      BY <2>0
    <3>3. Follows(After(t))
      <4> SUFFICES ASSUME NEW x \in After(t), ~Ordered(c, x) PROVE OrderingStep(c, p, x) \in After(t)
        OBVIOUS
      <4>1. OrderingStep(c, p, x) \in OrderingStates
        BY <1>1
      <4>2. ASSUME NEW U \in SUBSET OrderingStates, t \in U, Follows(U)
            PROVE  OrderingStep(c, p, x) \in U
        BY <4>2
      <4> QED BY <4>1, <4>2
    <3>4. Follows(S)
      BY <3>2, <3>3
    <3> QED BY <3>1, <3>4
  <2> QED BY <1>3, <2>1, <2>2
<1> HIDE DEF Ends
<1>4. \A s \in OrderingStates : T[s] = IF Ordered(c, s) THEN s ELSE T[OrderingStep(c, p, s)]
  <2> SUFFICES ASSUME NEW s \in OrderingStates
               PROVE  T[s] = IF Ordered(c, s) THEN s ELSE T[OrderingStep(c, p, s)]
    OBVIOUS
  <2>1. CASE Ordered(c, s)
    <3>1. T[s] = CHOOSE x : x \in {s}
      BY <1>2, <2>1
    <3> QED BY <2>1, <3>1
  <2>2. CASE ~Ordered(c, s)
    BY <1>1, <1>3, <2>2
  <2> QED BY <2>1, <2>2
<1>5. T = [s \in OrderingStates |-> T[s]]
  OBVIOUS
<1> HIDE DEF T
<1>6. T = [s \in OrderingStates |-> IF Ordered(c, s) THEN s ELSE T[OrderingStep(c, p, s)]]
  BY <1>4, <1>5
<1> QED BY <1>6, Zenon DEF TraversalIs

-----------------------------------------------------------------------------
(* Which functions become entrances does not depend on the order of calls. *)
(* The traversal proceeds in rounds: a round orders what has only ordered  *)
(* parents, and the next one starts with what was deferred.                *)

\* The parents of an entrance are in the round before or later, one of them at
\* least in each.
IsEntrance(p, O, rho, g) ==
  /\ \E h \in p[g] : h \in O /\ rho[h] + 1 = rho[g]
  /\ \A h \in p[g] : h \in O => rho[g] <= rho[h] + 1
  /\ \E h \in p[g] : h \in O => rho[h] >= rho[g]

\* rho is the round of the ordered functions O, of which X are entrances; round r
\* is on and begins with what was left, L.
RoundsSoFar(p, R, O, L, X, rho, r) ==
  /\ rho \in [Fns -> Nat] /\ r \in Nat /\ rho[main] = 0 /\ main \notin X /\ main \in O
  /\ \A f \in O : rho[f] <= r
  /\ \A g \in O \ {main} : g \notin X => \A h \in p[g] : h \in O /\ rho[h] = rho[g]
  /\ \A g \in O \cap X : IsEntrance(p, O, rho, g)
  /\ \A g \in R \ O : \A h \in p[g] : h \in O /\ rho[h] < r => g \in L /\ rho[h] + 1 = r
  /\ \A g \in L \ O : /\ \E h \in p[g] : h \in O /\ rho[h] + 1 = r
                      /\ \E h \in p[g] : h \in O => rho[h] >= r

LEMMA LeftIsSkipped ==
  ASSUME NEW p, NEW R, NEW O, NEW L, NEW X, NEW rho, NEW r, RoundsSoFar(p, R, O, L, X, rho, r),
         NEW M, M \subseteq L, L \subseteq M \cup O
  PROVE  RoundsSoFar(p, R, O, M, X, rho, r)
  BY DEF RoundsSoFar

\* An entrance stays one when another function is ordered.
LEMMA EntranceStays ==
  ASSUME NEW p \in [Fns -> SUBSET Fns], NEW O \in SUBSET Fns, NEW rho \in [Fns -> Nat], NEW r \in Nat,
         NEW f \in Fns, f \notin O, NEW g \in O, rho[g] <= r, IsEntrance(p, O, rho, g)
  PROVE  IsEntrance(p, O \cup {f}, [rho EXCEPT ![f] = r], g)
<1> DEFINE new == [rho EXCEPT ![f] = r]
<1>1. new \in [Fns -> Nat] /\ new[f] = r /\ \A h \in Fns : h # f => new[h] = rho[h]
  OBVIOUS
<1> HIDE DEF new
<1>2. g \in Fns /\ g # f /\ new[g] = rho[g] /\ rho[g] \in Nat /\ p[g] \in SUBSET Fns
  BY <1>1
<1>3. \E h \in p[g] : h \in O \cup {f} /\ new[h] + 1 = new[g]
  <2>1. PICK h \in p[g] : h \in O /\ rho[h] + 1 = rho[g]
    BY DEF IsEntrance
  <2>2. h \in Fns /\ h # f
    BY <1>2, <2>1
  <2> QED BY <1>1, <1>2, <2>1, <2>2
<1>4. ASSUME NEW h \in p[g], h \in O \cup {f} PROVE new[g] <= new[h] + 1
  <2>1. CASE h = f
    BY <1>1, <1>2, <2>1
  <2>2. CASE h # f
    <3>1. h \in Fns /\ h \in O /\ new[h] = rho[h] /\ rho[g] <= rho[h] + 1
      BY <1>1, <1>2, <1>4, <2>2 DEF IsEntrance
    <3> QED BY <1>2, <3>1
  <2> QED BY <2>1, <2>2
<1>5. \E h \in p[g] : h \in O \cup {f} => new[h] >= new[g]
  <2>1. PICK h \in p[g] : h \in O => rho[h] >= rho[g]
    BY DEF IsEntrance
  <2>2. CASE h = f
    BY <1>1, <1>2, <2>2
  <2>3. CASE h # f
    <3>1. h \in Fns /\ new[h] = rho[h]
      BY <1>1, <1>2, <2>3
    <3> QED BY <1>2, <2>1, <2>3, <3>1
  <2> QED BY <2>2, <2>3
<1> QED BY <1>3, <1>4, <1>5 DEF IsEntrance, new

\* A function is ordered in the round that is on, since all its parents are or
\* since it was left.
LEMMA RoundGrows ==
  ASSUME NEW p \in [Fns -> SUBSET Fns], NEW R \in SUBSET Fns, NEW O \in SUBSET R, NEW L, NEW X,
         NEW rho, NEW r, RoundsSoFar(p, R, O, L, X, rho, r),
         NEW f \in R, f \notin O, NEW M, NEW Y,
         \/ L = {} /\ M = {} /\ Y = X /\ f \notin X /\ p[f] \subseteq O
         \/ f \in L /\ M \subseteq L /\ L \subseteq M \cup {f} /\ Y = X \cup {f}
  PROVE  RoundsSoFar(p, R, O \cup {f}, M, Y, [rho EXCEPT ![f] = r], r)
<1> DEFINE new == [rho EXCEPT ![f] = r]
           Q == O \cup {f}
<1>1. rho \in [Fns -> Nat] /\ r \in Nat /\ f \in Fns /\ main \in O /\ main \in Fns
  BY MainIsAFunction DEF RoundsSoFar
<1>2. new \in [Fns -> Nat] /\ new[f] = r /\ \A h \in Fns : h # f => new[h] = rho[h]
  BY <1>1
<1> HIDE DEF new
<1>3. new[main] = 0 /\ main \notin Y /\ main \in Q
  BY <1>1, <1>2 DEF RoundsSoFar
<1>4. ASSUME NEW g \in Q PROVE new[g] <= r
  <2>1. CASE g = f
    BY <1>1, <1>2, <2>1
  <2>2. CASE g # f
    BY <1>2, <2>2 DEF RoundsSoFar
  <2> QED BY <2>1, <2>2
<1>5. ASSUME NEW g \in Q \ {main}, g \notin Y, NEW h \in p[g] PROVE h \in Q /\ new[h] = new[g]
  <2>1. g \in Fns /\ h \in Fns
    OBVIOUS
  <2>2. CASE g = f
    <3>1. L = {} /\ p[f] \subseteq O
      BY <1>5, <2>2
    <3>2. h \in O /\ rho[h] <= r /\ ~(rho[h] < r)
      BY <1>5, <2>2, <3>1 DEF RoundsSoFar
    <3>3. rho[h] \in Nat /\ h # f
      BY <1>1, <2>1, <3>2
    <3>4. rho[h] = r
      BY <1>1, <3>2, <3>3
    <3> QED BY <1>2, <2>1, <2>2, <3>2, <3>3, <3>4
  <2>3. CASE g # f
    <3>1. g \in O \ {main} /\ g \notin X
      BY <1>5, <2>3
    <3>2. h \in O /\ rho[h] = rho[g]
      BY <3>1 DEF RoundsSoFar
    <3> QED BY <1>2, <2>1, <2>3, <3>2
  <2> QED BY <2>2, <2>3
<1>6. ASSUME NEW g \in Q \cap Y PROVE IsEntrance(p, Q, new, g)
  <2>1. CASE g = f
    <3>1. f \in L
      BY <1>6, <2>1
    <3>2. \E h \in p[f] : h \in Q /\ new[h] + 1 = new[f]
      <4>1. PICK h \in p[f] : h \in O /\ rho[h] + 1 = r
        BY <3>1 DEF RoundsSoFar
      <4>2. h \in Fns /\ h # f
        BY <4>1
      <4> QED BY <1>2, <4>1, <4>2
    <3>3. ASSUME NEW h \in p[f], h \in Q PROVE new[f] <= new[h] + 1
      <4>1. CASE h = f
        BY <1>1, <1>2, <4>1
      <4>2. CASE h # f
        <5>1. h \in O /\ h \in Fns /\ new[h] = rho[h] /\ rho[h] \in Nat
          BY <1>1, <1>2, <3>3, <4>2
        <5>2. rho[h] < r => rho[h] + 1 = r
          BY <5>1 DEF RoundsSoFar
        <5> QED BY <1>1, <1>2, <5>1, <5>2
      <4> QED BY <4>1, <4>2
    <3>4. \E h \in p[f] : h \in Q => new[h] >= new[f]
      <4>1. PICK h \in p[f] : h \in O => rho[h] >= r
        BY <3>1 DEF RoundsSoFar
      <4>2. h \in Fns
        BY <1>1
      <4>3. CASE h = f
        BY <1>1, <1>2, <4>3
      <4>4. CASE h # f
        BY <1>2, <4>1, <4>2, <4>4
      <4> QED BY <4>3, <4>4
    <3> QED BY <2>1, <3>2, <3>3, <3>4 DEF IsEntrance
  <2>2. CASE g # f
    <3>1. g \in O \cap X
      BY <1>6, <2>2
    <3>2. IsEntrance(p, O, rho, g) /\ rho[g] <= r /\ O \in SUBSET Fns
      BY <3>1 DEF RoundsSoFar
    <3> QED BY <1>1, <3>1, <3>2, EntranceStays DEF new
  <2> QED BY <2>1, <2>2
<1>7. ASSUME NEW g \in R \ Q, NEW h \in p[g], h \in Q, new[h] < r PROVE g \in M /\ new[h] + 1 = r
  <2>1. h # f
    BY <1>1, <1>2, <1>7
  <2>2. h \in O /\ h \in Fns /\ g \in R \ O /\ new[h] = rho[h]
    BY <1>2, <1>7, <2>1
  <2>3. g \in L /\ rho[h] + 1 = r
    BY <1>7, <2>2 DEF RoundsSoFar
  <2> QED BY <1>7, <2>2, <2>3
<1>8. ASSUME NEW g \in M \ Q
      PROVE  /\ \E h \in p[g] : h \in Q /\ new[h] + 1 = r
             /\ \E h \in p[g] : h \in Q => new[h] >= r
  <2>1. g \in L \ O
    BY <1>8
  <2>2. PICK h \in p[g] : h \in O /\ rho[h] + 1 = r
    BY <2>1 DEF RoundsSoFar
  <2>3. h \in Fns /\ h # f
    BY <2>2
  <2>4. PICK k \in p[g] : k \in O => rho[k] >= r
    BY <2>1 DEF RoundsSoFar
  <2>5. k = f \/ (k \in Q => k \in O /\ k \in Fns)
    OBVIOUS
  <2>6. k \in Q => new[k] >= r
    BY <1>1, <1>2, <2>4, <2>5
  <2> QED BY <1>2, <2>2, <2>3, <2>6
<1> QED BY <1>1, <1>2, <1>3, <1>4, <1>5, <1>6, <1>7, <1>8 DEF RoundsSoFar, new

\* The next round starts with what has some but not all parents ordered.
LEMMA RoundEnds ==
  ASSUME NEW p, NEW R, NEW O \in SUBSET Fns, NEW X, NEW rho, NEW r,
         RoundsSoFar(p, R, O, {}, X, rho, r), NEW M, M \subseteq R,
         \A g \in R \ O : \A h \in p[g] : h \in O => g \in M,
         \A g \in M \ O : (\E h \in p[g] : h \in O) /\ (\E h \in p[g] : h \notin O)
  PROVE  RoundsSoFar(p, R, O, M, X, rho, r + 1)
<1>1. /\ rho \in [Fns -> Nat] /\ r \in Nat /\ \A f \in O : rho[f] <= r
      /\ \A f \in O : rho[f] \in Nat
  BY DEF RoundsSoFar
<1>2. ASSUME NEW g \in R \ O, NEW h \in p[g], h \in O PROVE g \in M /\ rho[h] = r
  <2>1. ~(rho[h] < r)
    BY <1>2 DEF RoundsSoFar
  <2> QED BY <1>1, <1>2, <2>1
<1>3. ASSUME NEW g \in M \ O
      PROVE  /\ \E h \in p[g] : h \in O /\ rho[h] + 1 = r + 1
             /\ \E h \in p[g] : h \in O => rho[h] >= r + 1
  BY <1>2
<1>4. \A f \in O : rho[f] <= r + 1
  BY <1>1
<1>5. \A g \in R \ O : \A h \in p[g] : h \in O /\ rho[h] < r + 1 => g \in M /\ rho[h] + 1 = r + 1
  BY <1>2
<1>6. r + 1 \in Nat
  BY <1>1
<1> QED BY <1>3, <1>4, <1>5, <1>6 DEF RoundsSoFar

\* The parents are those that call.
ParentsOf(c, p) == \A f, g \in Fns : g \in p[f] <=> f \in ToSet(c[g])

\* What has no order waits for a parent without an order, or for one whose calls
\* have not been visited yet.
Waits(c, p, s, g) ==
  \E h \in p[g] : \/ h \notin ToSet(s.order)
                  \/ h \in ToSet(s.queue)
                  \/ h = s.func /\ \A j \in 1 .. s.child - 1 : c[h][j] # g

\* The rounds of the traversal.
Waiting(c, p, R, s) ==
  /\ ~ChildrenVisited(c, s) => s.left = <<>>
  /\ s.entrances \subseteq ToSet(s.order)
  /\ \A g \in ToSet(s.deferred) : \E h \in p[g] : h \in ToSet(s.order)
  /\ \A g \in R \ (ToSet(s.order) \cup ToSet(s.left)) : g # main => Waits(c, p, s, g)

RoundInv(c, p, R, s) ==
  /\ Waiting(c, p, R, s)
  /\ \E rho, r : RoundsSoFar(p, R, ToSet(s.order), ToSet(s.left), s.entrances, rho, r)

LEMMA ChildRound ==
  ASSUME NEW c, NEW p, NEW R, GraphOf(c, p, R), ParentsOf(c, p), NEW s, OrderInv(c, p, R, s),
         RoundInv(c, p, R, s), ~ChildrenVisited(c, s)
  PROVE  RoundInv(c, p, R, OrderChild(c, p, s))
<1> DEFINE f == c[s.func][s.child]
           t == OrderChild(c, p, s)
           u == [s EXCEPT !.child = @ + 1]
           O == ToSet(s.order)
<1>1. /\ c \in [Fns -> Seq(Fns)] /\ p \in [Fns -> SUBSET Fns] /\ R \in SUBSET Fns /\ Closed(c, R)
      /\ s \in OrderingStates
  BY DEF GraphOf, OrderInv
<1>2. /\ s.order \in Seq(Fns) /\ s.queue \in Seq(Fns) /\ s.func \in Fns
      /\ s.child \in Nat \ {0} /\ s.deferred \in Seq(Fns) /\ s.left \in Seq(Fns)
      /\ s.entrances \in SUBSET Fns
  BY <1>1, FieldTypes
<1>3. c[s.func] \in Seq(Fns) /\ Len(c[s.func]) \in Nat /\ s.child \in 1 .. Len(c[s.func])
  BY <1>1, <1>2 DEF ChildrenVisited
<1>4. f \in Fns /\ f \in R /\ f \in ToSet(c[s.func]) /\ s.func \in O /\ O \subseteq R
  <2>1. f \in ToSet(c[s.func]) /\ f \in Fns
    BY <1>3, Elements
  <2>2. s.func \in O /\ O \subseteq R
    BY DEF OrderInv, WellOrdered
  <2> QED BY <1>1, <2>1, <2>2 DEF Closed
<1>5. s.func \in p[f]
  BY <1>2, <1>4 DEF ParentsOf
<1> HIDE DEF f
<1>6. /\ u \in OrderingStates
      /\ u.order = s.order /\ u.queue = s.queue /\ u.func = s.func /\ u.child = s.child + 1
      /\ u.deferred = s.deferred /\ u.left = s.left /\ u.entrances = s.entrances
  BY <1>1, ChildSkipped
<1> HIDE DEF u
<1>7. s.left = <<>> /\ ToSet(s.left) = {}
  BY DEF RoundInv, Waiting, ToSet
<1>8. PICK rho, r : RoundsSoFar(p, R, O, {}, s.entrances, rho, r)
  BY <1>7 DEF RoundInv
<1>9. \A g \in R \ O : g # main => Waits(c, p, s, g)
  BY <1>7 DEF RoundInv, Waiting
\* Another function goes on waiting.
<1>10. ASSUME NEW g \in R \ O, g # main, g # f \/ \E i \in 1 .. s.child - 1 : c[s.func][i] = f
       PROVE  \E h \in p[g] : \/ h \notin O
                              \/ h \in ToSet(s.queue)
                              \/ h = s.func /\ \A j \in 1 .. s.child : c[h][j] # g
  <2>1. PICK h \in p[g] : \/ h \notin O
                          \/ h \in ToSet(s.queue)
                          \/ h = s.func /\ \A j \in 1 .. s.child - 1 : c[h][j] # g
    BY <1>9, <1>10 DEF Waits
  <2>2. \A j \in 1 .. s.child : j \in 1 .. s.child - 1 \/ j = s.child
    BY <1>2
  <2> QED BY <1>10, <2>1, <2>2 DEF f
<1>11. s.child + 1 - 1 = s.child
  BY <1>2
<1>12. CASE f \in O \/ \E i \in 1 .. s.child - 1 : c[s.func][i] = f
  <2>1. t = u
    BY <1>12 DEF OrderChild, f, u
  <2> HIDE DEF t
  <2>2. ASSUME NEW g \in R \ O, g # main PROVE Waits(c, p, t, g)
    <3>1. t.order = s.order /\ t.queue = s.queue /\ t.func = s.func /\ t.child - 1 = s.child
      <4>1. t.order = s.order /\ t.queue = s.queue /\ t.func = s.func /\ t.child = s.child + 1
        BY <1>6, <2>1
      <4>2. t.child - 1 = s.child
        BY <1>2, <4>1
      <4> QED BY <4>1, <4>2
    <3>2. PICK h \in p[g] : \/ h \notin O
                            \/ h \in ToSet(s.queue)
                            \/ h = s.func /\ \A j \in 1 .. s.child : c[h][j] # g
      BY <1>10, <1>12, <2>2
    <3> QED BY <3>1, <3>2, Zenon DEF Waits
  <2>3. Waiting(c, p, R, t)
    BY <1>6, <1>7, <2>1, <2>2 DEF RoundInv, Waiting
  <2>4. RoundsSoFar(p, R, ToSet(t.order), ToSet(t.left), t.entrances, rho, r)
    BY <1>6, <1>7, <1>8, <2>1
  <2> QED BY <2>3, <2>4 DEF RoundInv, t
<1>13. CASE ~(f \in O \/ \E i \in 1 .. s.child - 1 : c[s.func][i] = f) /\ p[f] \subseteq O
  <2>1. t = AddToOrder(u, f)
    BY <1>13 DEF OrderChild, f, u
  <2>2. /\ AddToOrder(u, f).order = Append(u.order, f) /\ AddToOrder(u, f).queue = Append(u.queue, f)
        /\ AddToOrder(u, f).func = u.func /\ AddToOrder(u, f).child = u.child
        /\ AddToOrder(u, f).deferred = u.deferred /\ AddToOrder(u, f).left = u.left
        /\ AddToOrder(u, f).entrances = u.entrances
    BY <1>4, <1>6, FunctionAdded, Zenon
  <2>3. /\ t.order = Append(s.order, f) /\ t.queue = Append(s.queue, f)
        /\ t.func = s.func /\ t.child = s.child + 1
        /\ t.deferred = s.deferred /\ t.left = s.left /\ t.entrances = s.entrances
    BY <1>6, <2>1, <2>2, Zenon
  <2> HIDE DEF t
  <2>4. ToSet(t.order) = O \cup {f} /\ ToSet(t.queue) = ToSet(s.queue) \cup {f}
    BY <1>2, <1>4, <2>3, ElementsOfAppend
  <2>5. ASSUME NEW g \in R \ (O \cup {f}), g # main PROVE Waits(c, p, t, g)
    <3>1. PICK h \in p[g] : \/ h \notin O
                            \/ h \in ToSet(s.queue)
                            \/ h = s.func /\ \A j \in 1 .. s.child : c[h][j] # g
      BY <1>10, <2>5
    <3>2. t.child - 1 = s.child
      BY <1>2, <2>3
    <3>3. \/ h \notin ToSet(t.order)
          \/ h \in ToSet(t.queue)
          \/ h = t.func /\ \A j \in 1 .. t.child - 1 : c[h][j] # g
      <4>1. CASE h = s.func /\ \A j \in 1 .. s.child : c[h][j] # g
        <5>1. t.func = s.func
          BY <2>3
        <5> QED BY <3>2, <4>1, <5>1, Zenon
      <4>2. CASE h \notin O \/ h \in ToSet(s.queue)
        BY <2>4, <4>2
      <4> QED BY <3>1, <4>1, <4>2
    <3> QED BY <3>3, Zenon DEF Waits
  <2>6. Waiting(c, p, R, t)
    BY <1>7, <2>3, <2>4, <2>5 DEF RoundInv, Waiting
  <2>7. f \notin s.entrances /\ f \notin O
    BY <1>13 DEF RoundInv, Waiting
  <2>8. RoundsSoFar(p, R, O \cup {f}, {}, s.entrances, [rho EXCEPT ![f] = r], r)
    BY <1>1, <1>4, <1>8, <1>13, <2>7, RoundGrows
  <2>9. RoundsSoFar(p, R, ToSet(t.order), ToSet(t.left), t.entrances, [rho EXCEPT ![f] = r], r)
    BY <1>7, <2>3, <2>4, <2>8
  <2> QED BY <2>6, <2>9 DEF RoundInv, t
<1>14. CASE ~(f \in O \/ \E i \in 1 .. s.child - 1 : c[s.func][i] = f) /\ ~(p[f] \subseteq O)
  <2>1. t = [u EXCEPT !.deferred = Append(@, f)]
    BY <1>14 DEF OrderChild, f, u
  <2> HIDE DEF t
  <2>2. /\ t.order = u.order /\ t.queue = u.queue /\ t.func = u.func /\ t.child = u.child
        /\ t.deferred = Append(u.deferred, f) /\ t.left = u.left /\ t.entrances = u.entrances
    BY <1>4, <1>6, <2>1, FunctionDeferred
  <2>3. /\ t.order = s.order /\ t.queue = s.queue /\ t.func = s.func /\ t.child = s.child + 1
        /\ t.deferred = Append(s.deferred, f) /\ t.left = s.left /\ t.entrances = s.entrances
    BY <1>6, <2>2
  <2>4. ToSet(t.deferred) = ToSet(s.deferred) \cup {f}
    BY <1>2, <1>4, <2>3, ElementsOfAppend
  <2>5. ASSUME NEW g \in R \ O, g # main PROVE Waits(c, p, t, g)
    <3>1. CASE g = f
      BY <1>14, <2>3, <3>1 DEF Waits
    <3>2. CASE g # f
      <4>1. t.order = s.order /\ t.queue = s.queue /\ t.func = s.func /\ t.child - 1 = s.child
        BY <1>2, <2>3
      <4>2. PICK h \in p[g] : \/ h \notin O
                              \/ h \in ToSet(s.queue)
                              \/ h = s.func /\ \A j \in 1 .. s.child : c[h][j] # g
        BY <1>10, <2>5, <3>2
      <4> QED BY <4>1, <4>2, Zenon DEF Waits
    <3> QED BY <3>1, <3>2
  <2>6. \A g \in ToSet(t.deferred) : \E h \in p[g] : h \in O
    BY <1>4, <1>5, <2>4 DEF RoundInv, Waiting
  <2>7. Waiting(c, p, R, t)
    BY <1>7, <2>3, <2>5, <2>6 DEF RoundInv, Waiting
  <2>8. RoundsSoFar(p, R, ToSet(t.order), ToSet(t.left), t.entrances, rho, r)
    BY <1>7, <1>8, <2>3
  <2> QED BY <2>7, <2>8 DEF RoundInv, t
<1> QED BY <1>12, <1>13, <1>14

LEMMA DeferredRound ==
  ASSUME NEW c, NEW p, NEW R, GraphOf(c, p, R), NEW s, OrderInv(c, p, R, s),
         RoundInv(c, p, R, s), ChildrenVisited(c, s), s.left # <<>>
  PROVE  RoundInv(c, p, R, OrderDeferred(s))
<1> DEFINE f == Head(s.left)
           r == [s EXCEPT !.left = Tail(@)]
           e == [r EXCEPT !.entrances = @ \cup {f}]
           t == OrderDeferred(s)
           O == ToSet(s.order)
           L == ToSet(s.left)
           M == ToSet(Tail(s.left))
<1>1. p \in [Fns -> SUBSET Fns] /\ R \in SUBSET Fns /\ s \in OrderingStates
  BY DEF GraphOf, OrderInv
<1>2. /\ s.order \in Seq(Fns) /\ s.queue \in Seq(Fns) /\ s.left \in Seq(Fns)
      /\ s.entrances \in SUBSET Fns
  BY <1>1, FieldTypes
<1>3. Tail(s.left) \in Seq(Fns) /\ f \in Fns /\ L = M \cup {f}
  BY <1>2, ElementsOfTail
<1>4. f \in R /\ O \subseteq R
  BY <1>3 DEF OrderInv, WellOrdered
<1> HIDE DEF f
<1>5. /\ r \in OrderingStates
      /\ r.order = s.order /\ r.queue = s.queue /\ r.func = s.func /\ r.child = s.child
      /\ r.deferred = s.deferred /\ r.left = Tail(s.left) /\ r.entrances = s.entrances
  <2>1. r \in OrderingStates
    BY <1>1, <1>3 DEF OrderingStates
  <2> QED BY <1>1, <2>1 DEF OrderingStates
<1> HIDE DEF r
<1>6. PICK rho, n : RoundsSoFar(p, R, O, L, s.entrances, rho, n)
  BY DEF RoundInv
<1>7. /\ s.entrances \subseteq O /\ s.child > Len(c[s.func])
      /\ \A g \in ToSet(s.deferred) : \E h \in p[g] : h \in O
      /\ \A g \in R \ (O \cup L) : g # main => Waits(c, p, s, g)
  BY DEF RoundInv, Waiting, ChildrenVisited
<1>8. CASE f \in O
  <2>1. t = r
    BY <1>8 DEF OrderDeferred, f, r
  <2>2. \A g \in R \ (O \cup M) : g # main => Waits(c, p, r, g)
    BY <1>3, <1>5, <1>7, <1>8 DEF Waits
  <2>3. Waiting(c, p, R, r)
    BY <1>5, <1>7, <2>2 DEF Waiting, ChildrenVisited
  <2>4. RoundsSoFar(p, R, O, M, s.entrances, rho, n)
    BY <1>3, <1>6, <1>8, LeftIsSkipped
  <2> QED BY <1>5, <2>1, <2>3, <2>4 DEF RoundInv
<1>9. CASE f \notin O
  <2>1. t = AddToOrder(e, f)
    BY <1>9 DEF OrderDeferred, f, r
  <2>2. /\ e \in OrderingStates
        /\ e.order = s.order /\ e.queue = s.queue /\ e.func = s.func /\ e.child = s.child
        /\ e.deferred = s.deferred /\ e.left = Tail(s.left) /\ e.entrances = s.entrances \cup {f}
    <3>1. r.entrances \cup {f} \in SUBSET Fns
      BY <1>2, <1>3, <1>5
    <3>2. e \in OrderingStates
      BY <1>5, <3>1 DEF OrderingStates
    <3> QED BY <1>5, <3>2 DEF OrderingStates
  <2> HIDE DEF e
  <2>3. /\ AddToOrder(e, f).order = Append(e.order, f) /\ AddToOrder(e, f).queue = Append(e.queue, f)
        /\ AddToOrder(e, f).func = e.func /\ AddToOrder(e, f).child = e.child
        /\ AddToOrder(e, f).deferred = e.deferred /\ AddToOrder(e, f).left = e.left
        /\ AddToOrder(e, f).entrances = e.entrances
    BY <1>3, <2>2, FunctionAdded, Zenon
  <2>4. /\ t.order = Append(s.order, f) /\ t.queue = Append(s.queue, f)
        /\ t.func = s.func /\ t.child = s.child
        /\ t.deferred = s.deferred /\ t.left = Tail(s.left) /\ t.entrances = s.entrances \cup {f}
    BY <2>1, <2>2, <2>3, Zenon
  <2> HIDE DEF t
  <2>5. ToSet(t.order) = O \cup {f} /\ ToSet(t.queue) = ToSet(s.queue) \cup {f}
    BY <1>2, <1>3, <2>4, ElementsOfAppend
  <2>6. ASSUME NEW g \in R \ (O \cup {f} \cup M), g # main PROVE Waits(c, p, t, g)
    <3>1. PICK h \in p[g] : \/ h \notin O
                            \/ h \in ToSet(s.queue)
                            \/ h = s.func /\ \A j \in 1 .. s.child - 1 : c[h][j] # g
      BY <1>3, <1>7, <2>6 DEF Waits
    <3>2. \/ h \notin ToSet(t.order)
          \/ h \in ToSet(t.queue)
          \/ h = t.func /\ \A j \in 1 .. t.child - 1 : c[h][j] # g
      BY <2>4, <2>5, <3>1
    <3> QED BY <3>2, Zenon DEF Waits
  <2>7. Waiting(c, p, R, t)
    BY <1>7, <2>4, <2>5, <2>6 DEF Waiting, ChildrenVisited
  <2>8. RoundsSoFar(p, R, O \cup {f}, M, s.entrances \cup {f}, [rho EXCEPT ![f] = n], n)
    <3>1. f \in L /\ M \subseteq L /\ L \subseteq M \cup {f}
      BY <1>3
    <3> QED BY <1>1, <1>4, <1>6, <1>9, <3>1, RoundGrows
  <2>9. RoundsSoFar(p, R, ToSet(t.order), ToSet(t.left), t.entrances, [rho EXCEPT ![f] = n], n)
    BY <2>4, <2>5, <2>8
  <2> QED BY <2>7, <2>9 DEF RoundInv, t
<1> QED BY <1>8, <1>9

\* What waits, once nothing else is to be visited, has a parent without an order.
LEMMA WaitsForAParent ==
  ASSUME NEW c, NEW p, NEW R, GraphOf(c, p, R), ParentsOf(c, p), NEW s, OrderInv(c, p, R, s),
         ChildrenVisited(c, s), NEW g \in R, Waits(c, p, s, g)
  PROVE  \E h \in p[g] : h \notin ToSet(s.order) \/ h \in ToSet(s.queue)
<1>1. /\ c \in [Fns -> Seq(Fns)] /\ p \in [Fns -> SUBSET Fns] /\ R \in SUBSET Fns
      /\ s \in OrderingStates
  BY DEF GraphOf, OrderInv
<1>2. s.func \in Fns /\ s.child \in Nat \ {0} /\ g \in Fns
  BY <1>1, FieldTypes
<1>3. Len(c[s.func]) \in Nat /\ s.child > Len(c[s.func]) /\ c[s.func] \in Seq(Fns)
  BY <1>1, <1>2 DEF ChildrenVisited
<1>4. PICK h \in p[g] : \/ h \notin ToSet(s.order)
                        \/ h \in ToSet(s.queue)
                        \/ h = s.func /\ \A j \in 1 .. s.child - 1 : c[h][j] # g
  BY DEF Waits
<1>5. ASSUME h = s.func, \A j \in 1 .. s.child - 1 : c[h][j] # g PROVE FALSE
  <2>1. g \in ToSet(c[s.func])
    BY <1>2, <1>4, <1>5 DEF ParentsOf
  <2>2. PICK j \in 1 .. Len(c[s.func]) : c[s.func][j] = g
    BY <1>3, <2>1, Elements
  <2>3. j \in 1 .. s.child - 1
    BY <1>2, <1>3
  <2> QED BY <1>5, <2>2, <2>3
<1> QED BY <1>4, <1>5

LEMMA TraverseRound ==
  ASSUME NEW c, NEW p, NEW R, GraphOf(c, p, R), ParentsOf(c, p), NEW s, OrderInv(c, p, R, s),
         RoundInv(c, p, R, s), ChildrenVisited(c, s), s.left = <<>>, s.queue # <<>>
  PROVE  RoundInv(c, p, R, [s EXCEPT !.queue = Tail(@), !.func = Head(s.queue), !.child = 1])
<1> DEFINE t == [s EXCEPT !.queue = Tail(@), !.func = Head(s.queue), !.child = 1]
<1>1. s \in OrderingStates
  BY DEF OrderInv
<1>2. s.queue \in Seq(Fns)
  BY <1>1, FieldTypes
<1>3. Tail(s.queue) \in Seq(Fns) /\ Head(s.queue) \in Fns
      /\ ToSet(s.queue) = ToSet(Tail(s.queue)) \cup {Head(s.queue)}
  BY <1>2, ElementsOfTail
<1>4. /\ t.order = s.order /\ t.queue = Tail(s.queue) /\ t.func = Head(s.queue) /\ t.child = 1
      /\ t.deferred = s.deferred /\ t.left = s.left /\ t.entrances = s.entrances
  BY <1>1 DEF OrderingStates
<1> HIDE DEF t
<1>5. ASSUME NEW g \in R \ (ToSet(s.order) \cup ToSet(s.left)), g # main PROVE Waits(c, p, t, g)
  <2>1. Waits(c, p, s, g)
    BY <1>5 DEF RoundInv, Waiting
  <2>2. PICK h \in p[g] : h \notin ToSet(s.order) \/ h \in ToSet(s.queue)
    BY <1>5, <2>1, WaitsForAParent
  <2>3. \A j \in 1 .. t.child - 1 : FALSE
    BY <1>4
  <2> QED BY <1>3, <1>4, <2>2, <2>3 DEF Waits
<1>6. Waiting(c, p, R, t)
  BY <1>4, <1>5 DEF RoundInv, Waiting
<1>7. PICK rho, r : RoundsSoFar(p, R, ToSet(s.order), ToSet(s.left), s.entrances, rho, r)
  BY DEF RoundInv
<1>8. RoundsSoFar(p, R, ToSet(t.order), ToSet(t.left), t.entrances, rho, r)
  BY <1>4, <1>7
<1> QED BY <1>6, <1>8 DEF RoundInv, t

LEMMA NextRound ==
  ASSUME NEW c, NEW p, NEW R, GraphOf(c, p, R), ParentsOf(c, p), NEW s, OrderInv(c, p, R, s),
         RoundInv(c, p, R, s), ChildrenVisited(c, s), s.left = <<>>, s.queue = <<>>
  PROVE  RoundInv(c, p, R, [s EXCEPT !.left = s.deferred, !.deferred = <<>>])
<1> DEFINE t == [s EXCEPT !.left = s.deferred, !.deferred = <<>>]
           O == ToSet(s.order)
           M == ToSet(s.deferred)
<1>1. c \in [Fns -> Seq(Fns)] /\ p \in [Fns -> SUBSET Fns] /\ R \in SUBSET Fns /\ s \in OrderingStates
  BY DEF GraphOf, OrderInv
<1>2. s.deferred \in Seq(Fns) /\ s.order \in Seq(Fns) /\ s.func \in Fns /\ s.child \in Nat \ {0}
  BY <1>1, FieldTypes
<1>3. /\ t.order = s.order /\ t.queue = s.queue /\ t.func = s.func /\ t.child = s.child
      /\ t.deferred = <<>> /\ t.left = s.deferred /\ t.entrances = s.entrances
  BY <1>1 DEF OrderingStates
<1> HIDE DEF t
<1>4. ToSet(s.left) = {} /\ ToSet(s.queue) = {} /\ ToSet(t.deferred) = {}
  BY <1>3 DEF ToSet
<1>5. PICK rho, r : RoundsSoFar(p, R, O, {}, s.entrances, rho, r)
  BY <1>4 DEF RoundInv
<1>6. main \in O /\ O \in SUBSET Fns /\ M \subseteq R
  <2>1. main \in O
    BY <1>5 DEF RoundsSoFar
  <2>2. O \in SUBSET Fns
    BY <1>2, Elements
  <2> QED BY <2>1, <2>2 DEF OrderInv, WellOrdered
<1>7. ASSUME NEW g \in R \ O PROVE g \in Fns /\ Waits(c, p, s, g) /\ \E h \in p[g] : h \notin O
  <2>1. g # main /\ g \notin ToSet(s.left) /\ g \in Fns
    BY <1>1, <1>4, <1>6, <1>7
  <2>2. Waits(c, p, s, g)
    BY <1>7, <2>1 DEF RoundInv, Waiting
  <2>3. \E h \in p[g] : h \notin ToSet(s.order) \/ h \in ToSet(s.queue)
    BY <1>7, <2>2, WaitsForAParent
  <2> QED BY <1>4, <2>1, <2>2, <2>3
<1>8. ASSUME NEW g \in R \ O, NEW h \in p[g], h \in O PROVE g \in M
  <2>1. g \in Fns /\ h \in Fns /\ g \in ToSet(c[h])
    BY <1>6, <1>7, <1>8 DEF ParentsOf
  <2>2. c[h] \in Seq(Fns) /\ Len(c[h]) \in Nat
    BY <1>1, <2>1
  <2>3. PICK j \in 1 .. Len(c[h]) : c[h][j] = g
    BY <2>1, <2>2, Elements
  <2>4. ~(h = s.func /\ j >= s.child)
    BY <1>2, <2>2 DEF ChildrenVisited
  <2>5. c[h][j] \in O \cup M \cup ToSet(s.left)
    BY <1>4, <1>8, <2>4 DEF OrderInv, NoneForgotten
  <2> QED BY <1>4, <1>8, <2>3, <2>5
<1>9. \A g \in M \ O : (\E h \in p[g] : h \in O) /\ (\E h \in p[g] : h \notin O)
  BY <1>6, <1>7 DEF RoundInv, Waiting
<1>10. RoundsSoFar(p, R, O, M, s.entrances, rho, r + 1)
  BY <1>5, <1>6, <1>8, <1>9, RoundEnds
<1>11. RoundsSoFar(p, R, ToSet(t.order), ToSet(t.left), t.entrances, rho, r + 1)
  BY <1>3, <1>10
<1>12. \A g \in R \ (ToSet(t.order) \cup ToSet(t.left)) : Waits(c, p, t, g)
  BY <1>3, <1>7 DEF Waits
<1>13. Waiting(c, p, R, t)
  BY <1>3, <1>4, <1>12 DEF RoundInv, Waiting, ChildrenVisited
<1> QED BY <1>11, <1>13 DEF RoundInv, t

LEMMA RoundSteps ==
  ASSUME NEW c, NEW p, NEW R, GraphOf(c, p, R), ParentsOf(c, p), NEW s, OrderInv(c, p, R, s),
         RoundInv(c, p, R, s), ~Ordered(c, s)
  PROVE  RoundInv(c, p, R, OrderingStep(c, p, s))
<1>1. CASE ~ChildrenVisited(c, s)
  <2>1. OrderingStep(c, p, s) = OrderChild(c, p, s)
    BY <1>1, Zenon DEF OrderingStep
  <2> QED BY <1>1, <2>1, ChildRound
<1>2. CASE ChildrenVisited(c, s) /\ s.left # <<>>
  <2>1. OrderingStep(c, p, s) = OrderDeferred(s)
    BY <1>2, Zenon DEF OrderingStep
  <2> QED BY <1>2, <2>1, DeferredRound
<1>3. CASE ChildrenVisited(c, s) /\ s.left = <<>> /\ s.queue # <<>>
  <2>1. OrderingStep(c, p, s) = [s EXCEPT !.queue = Tail(@), !.func = Head(s.queue), !.child = 1]
    BY <1>3, Zenon DEF OrderingStep
  <2>2. RoundInv(c, p, R, [s EXCEPT !.queue = Tail(@), !.func = Head(s.queue), !.child = 1])
    BY <1>3, TraverseRound, Zenon
  <2> QED BY <2>1, <2>2, Zenon
<1>4. CASE ChildrenVisited(c, s) /\ s.left = <<>> /\ s.queue = <<>>
  <2>1. OrderingStep(c, p, s) = [s EXCEPT !.left = s.deferred, !.deferred = <<>>]
    BY <1>4, Zenon DEF OrderingStep
  <2>2. RoundInv(c, p, R, [s EXCEPT !.left = s.deferred, !.deferred = <<>>])
    BY <1>4, NextRound, Zenon
  <2> QED BY <2>1, <2>2, Zenon
<1> QED BY <1>1, <1>2, <1>3, <1>4

\* The traversal ends, and keeps the invariants.
LEMMA TraversalEnds ==
  ASSUME NEW c, NEW p, NEW R, GraphOf(c, p, R), ParentsOf(c, p), NEW T, TraversalIs(c, p, T),
         NEW s, OrderInv(c, p, R, s), RoundInv(c, p, R, s)
  PROVE  OrderInv(c, p, R, T[s]) /\ RoundInv(c, p, R, T[s]) /\ Ordered(c, T[s])
<1> DEFINE Inv(x) == OrderInv(c, p, R, x) /\ RoundInv(c, p, R, x)
           Good(x) == Inv(T[x]) /\ Ordered(c, T[x])
           Bad == {x \in OrderingStates : Inv(x) /\ ~Good(x)}
<1>1. c \in [Fns -> Seq(Fns)]
  BY DEF GraphOf
<1>2. \A x \in OrderingStates : T[x] = IF Ordered(c, x) THEN x ELSE T[OrderingStep(c, p, x)]
  BY DEF TraversalIs
<1>3. \A x \in OrderingStates : Unvisited(x) \in Nat /\ ToVisit(c, x) \in Nat
  BY <1>1, MeasuresAreNatural
<1>4. ASSUME NEW x \in Bad PROVE \E y \in Bad : Nearer(c, x, y)
  <2>1. CASE Ordered(c, x)
    BY <1>2, <2>1
  <2>2. CASE ~Ordered(c, x)
    <3> DEFINE y == OrderingStep(c, p, x)
    <3>1. Inv(y) /\ Nearer(c, x, y)
      BY <2>2, OrderingSteps, RoundSteps
    <3>2. y \in OrderingStates
      BY <3>1 DEF OrderInv
    <3>3. T[x] = T[y]
      BY <1>2, <2>2
    <3> QED BY <3>1, <3>2, <3>3
  <2> QED BY <2>1, <2>2
<1>5. ASSUME Bad # {} PROVE FALSE
  <2> DEFINE U == {Unvisited(x) : x \in Bad}
  <2>1. PICK u \in U : \A k \in U : u <= k
    <3>1. U \subseteq Nat /\ U # {}
      BY <1>3, <1>5
    <3> QED BY <3>1, SmallestOf
  <2> DEFINE V == {ToVisit(c, x) : x \in {y \in Bad : Unvisited(y) = u}}
  <2>2. PICK v \in V : \A k \in V : v <= k
    <3>1. V \subseteq Nat /\ V # {}
      BY <1>3, <2>1
    <3> QED BY <3>1, SmallestOf
  <2>3. PICK x \in Bad : Unvisited(x) = u /\ ToVisit(c, x) = v
    BY <2>2
  <2>4. PICK y \in Bad : Nearer(c, x, y)
    BY <1>4
  <2>5. Unvisited(y) \in Nat /\ ToVisit(c, y) \in Nat /\ u \in Nat /\ v \in Nat
    BY <1>3, <2>3
  <2>6. u <= Unvisited(y)
    BY <2>1
  <2>7. Unvisited(y) = u => v <= ToVisit(c, y)
    BY <2>2
  <2> QED BY <2>3, <2>4, <2>5, <2>6, <2>7 DEF Nearer
<1>6. s \in OrderingStates
  BY DEF OrderInv
<1> QED BY <1>5, <1>6

-----------------------------------------------------------------------------
(* The order that collectInDepthOrderFns computes.                         *)

\* A function that is reached is main or has a parent.
LEMMA ParentInGraph ==
  ASSUME NEW c, NEW p, NEW R, GraphOf(c, p, R), NEW g \in R, g # main
  PROVE  \E h \in R : g \in ToSet(c[h])
<1> SUFFICES ASSUME \A h \in R : g \notin ToSet(c[h]) PROVE FALSE
  OBVIOUS
<1> DEFINE S == R \ {g}
<1>1. main \in S /\ S \in SUBSET Fns
  BY DEF GraphOf
<1>2. Closed(c, S)
  BY DEF GraphOf, Closed
<1> HIDE DEF S
<1>3. R \subseteq S
  BY <1>1, <1>2 DEF GraphOf
<1> QED BY <1>3 DEF S

LEMMA CollectedIsAGraph ==
  ASSUME NEW called \in [Fns -> Seq(Fns)]
  PROVE  /\ GraphOf(CollectedCalled(called), CollectedParents(called), ProgramFns(called))
         /\ ParentsOf(CollectedCalled(called), CollectedParents(called))
<1> DEFINE c == CollectedCalled(called)
           p == CollectedParents(called)
           R == ProgramFns(called)
<1>1. GraphOf(c, p, R)
  <2>1. /\ c \in [Fns -> Seq(Fns)] /\ p \in [Fns -> SUBSET Fns] /\ R \in SUBSET Fns
        /\ main \in R /\ Closed(called, R) /\ \A f \in R : c[f] = called[f]
    BY CollectedGraph
  <2> HIDE DEF c, p, R
  <2>2. Closed(c, R)
    BY <2>1 DEF Closed
  <2>3. ASSUME NEW S \in SUBSET Fns, main \in S, Closed(c, S) PROVE R \subseteq S
    <3>1. Closed(called, S \cap R)
      BY <2>1, <2>3 DEF Closed
    <3>2. {main} \subseteq S \cap R /\ S \cap R \in SUBSET Fns
      BY <2>1, <2>3
    <3>3. Closure(called, {main}) \subseteq S \cap R
      BY <3>1, <3>2, ClosureLeast
    <3> QED BY <3>3 DEF R, ProgramFns
  <2> QED BY <2>1, <2>2, <2>3 DEF GraphOf
<1>2. ParentsOf(c, p)
  BY DEF ParentsOf, CollectedParents
<1> QED BY <1>1, <1>2

\* The state in which the traversal ends.
LEMMA CollectedInOrder ==
  ASSUME NEW called \in [Fns -> Seq(Fns)]
  PROVE  LET c == CollectedCalled(called)
             p == CollectedParents(called)
             R == ProgramFns(called)
             r == collectInDepthOrderFns(called)
         IN  OrderInv(c, p, R, r) /\ RoundInv(c, p, R, r) /\ Ordered(c, r)
<1> DEFINE c == CollectedCalled(called)
           p == CollectedParents(called)
           R == ProgramFns(called)
           r == collectInDepthOrderFns(called)
<1>1. GraphOf(c, p, R) /\ ParentsOf(c, p)
  BY CollectedIsAGraph
<1> HIDE DEF c, p, R
<1>2. PICK T : TraversalIs(c, p, T) /\ r = T[OnlyMainOrdered]
  <2> DEFINE T == CHOOSE T : T = [s \in OrderingStates |->
                    IF Ordered(c, s) THEN s ELSE T[OrderingStep(c, p, s)]]
  <2>1. \E U : U = [s \in OrderingStates |-> IF Ordered(c, s) THEN s ELSE U[OrderingStep(c, p, s)]]
    BY <1>1, TraversalExists DEF GraphOf, TraversalIs
  <2>2. T = [s \in OrderingStates |-> IF Ordered(c, s) THEN s ELSE T[OrderingStep(c, p, s)]]
    BY <2>1, Zenon
  <2>3. r = T[OnlyMainOrdered]
    BY Zenon DEF c, p, collectInDepthOrderFns, DepthOrder
  <2> QED BY <2>2, <2>3, Zenon DEF TraversalIs
<1>3. OrderInv(c, p, R, OnlyMainOrdered) /\ RoundInv(c, p, R, OnlyMainOrdered)
  <2> DEFINE s == OnlyMainOrdered
  <2>1. /\ s.order = <<main>> /\ s.queue = <<>> /\ s.func = main /\ s.child = 1
        /\ s.deferred = <<>> /\ s.left = <<>> /\ s.entrances = {}
    BY DEF OnlyMainOrdered
  <2>2. s \in OrderingStates
    <3>1. <<main>> \in Seq(Fns) /\ <<>> \in Seq(Fns) /\ main \in Fns
      BY MainIsAFunction
    <3> QED BY <3>1 DEF OrderingStates, OnlyMainOrdered
  <2>3. ToSet(<<main>>) = {main} /\ ToSet(<<>>) = {}
    BY DEF ToSet
  <2>4. <<main>> # <<>> /\ <<main>>[1] = main /\ IsInjective(<<main>>) /\ Len(<<main>>) = 1
    BY DEF IsInjective
  <2> HIDE DEF s
  <2>5. WellOrdered(R, s)
    BY <1>1, <2>1, <2>3, <2>4 DEF WellOrdered, GraphOf
  <2>6. NoneForgotten(c, s)
    BY <1>1, <2>1, <2>3 DEF NoneForgotten
  <2>7. AfterParents(p, s.order, s.entrances)
    BY <2>1, <2>4 DEF AfterParents
  <2>8. Len(c[main]) \in Nat /\ main \in Fns
    BY <1>1, MainIsAFunction DEF GraphOf
  <2>9. ASSUME NEW g \in R, g # main PROVE Waits(c, p, s, g)
    <3>1. PICK h \in R : g \in ToSet(c[h])
      BY <1>1, <2>9, ParentInGraph
    <3>2. h \in p[g]
      BY <1>1, <3>1 DEF GraphOf, ParentsOf
    <3>3. h = main => h = s.func /\ \A j \in 1 .. s.child - 1 : c[h][j] # g
      BY <2>1
    <3> QED BY <2>1, <2>3, <3>2, <3>3 DEF Waits
  <2>10. Waiting(c, p, R, s)
    BY <2>1, <2>3, <2>9 DEF Waiting
  <2>11. RoundsSoFar(p, R, {main}, {}, {}, [f \in Fns |-> 0], 0)
    BY <2>8 DEF RoundsSoFar
  <2>12. RoundInv(c, p, R, s)
    BY <2>1, <2>3, <2>10, <2>11 DEF RoundInv
  <2> QED BY <2>2, <2>5, <2>6, <2>7, <2>12 DEF OrderInv, s
<1>4. OrderInv(c, p, R, r) /\ RoundInv(c, p, R, r) /\ Ordered(c, r)
  BY <1>1, <1>2, <1>3, TraversalEnds
<1> QED BY <1>4 DEF c, p, R

\* What collectInDepthOrderFns promises of the order: all the functions that main
\* reaches, once each, main first and the others after their parents unless they
\* are entrances.
OrderOf(called, r) ==
  /\ r.order \in Seq(Fns) /\ r.order # <<>> /\ r.order[1] = main
  /\ IsInjective(r.order)
  /\ ToSet(r.order) = ProgramFns(called)
  /\ r.entrances \subseteq Fns
  /\ AfterParents(CollectedParents(called), r.order, r.entrances)

LEMMA DepthOrderFacts ==
  ASSUME NEW called \in [Fns -> Seq(Fns)]
  PROVE  OrderOf(called, collectInDepthOrderFns(called))
<1> DEFINE c == CollectedCalled(called)
           p == CollectedParents(called)
           R == ProgramFns(called)
           r == collectInDepthOrderFns(called)
<1>1. GraphOf(c, p, R)
  BY CollectedIsAGraph
<1>4. OrderInv(c, p, R, r) /\ Ordered(c, r)
  BY CollectedInOrder
<1> HIDE DEF c, p, R, r
<1>5. r \in OrderingStates /\ WellOrdered(R, r) /\ AfterParents(p, r.order, r.entrances)
  BY <1>4 DEF OrderInv
<1>6. r.order \in Seq(Fns) /\ r.entrances \in SUBSET Fns /\ r.func \in Fns /\ r.child \in Nat \ {0}
  BY <1>5, FieldTypes
<1>7. R \subseteq ToSet(r.order)
  <2>1. ToSet(r.queue) = {} /\ ToSet(r.deferred) = {} /\ ToSet(r.left) = {}
    BY <1>4 DEF Ordered, ToSet
  <2>2. ASSUME NEW f \in ToSet(r.order), NEW g \in ToSet(c[f]) PROVE g \in ToSet(r.order)
    <3>1. f \in Fns /\ c[f] \in Seq(Fns) /\ Len(c[f]) \in Nat
      BY <1>1, <1>6, Elements DEF GraphOf
    <3>2. PICK j \in 1 .. Len(c[f]) : c[f][j] = g
      BY <3>1, Elements
    <3>3. ~(f = r.func /\ j >= r.child)
      BY <1>4, <1>6, <3>1 DEF Ordered, ChildrenVisited
    <3> QED BY <1>4, <2>1, <3>2, <3>3 DEF OrderInv, NoneForgotten
  <2>3. ToSet(r.order) \in SUBSET Fns /\ main \in ToSet(r.order)
    <3>1. Len(r.order) \in Nat \ {0} /\ r.order[1] = main
      BY <1>5, <1>6 DEF WellOrdered
    <3> QED BY <1>6, <3>1, Elements
  <2>4. Closed(c, ToSet(r.order))
    BY <2>2 DEF Closed
  <2> QED BY <1>1, <2>3, <2>4 DEF GraphOf
<1> QED BY <1>5, <1>6, <1>7 DEF OrderOf, WellOrdered, R, p, r

-----------------------------------------------------------------------------
(* Places in the order.                                                    *)

LEMMA PlaceInOrder ==
  ASSUME NEW order \in Seq(Fns), IsInjective(order)
  PROVE  /\ \A i \in 1 .. Len(order) : OrderIn(order, order[i]) = i - 1
         /\ \A f : OrderIn(order, f) \in Nat
         /\ \A f, g \in ToSet(order) : OrderIn(order, f) = OrderIn(order, g) => f = g
<1>1. DOMAIN order = 1 .. Len(order) /\ Len(order) \in Nat
  OBVIOUS
<1>2. ASSUME NEW i \in 1 .. Len(order) PROVE OrderIn(order, order[i]) = i - 1
  <2>1. order[i] \in ToSet(order)
    BY <1>1 DEF ToSet
  <2>2. (CHOOSE j \in DOMAIN order : order[j] = order[i]) = i
    BY <1>1 DEF IsInjective
  <2> QED BY <2>1, <2>2 DEF OrderIn
<1>3. ASSUME NEW f PROVE OrderIn(order, f) \in Nat
  <2>1. CASE f \in ToSet(order)
    <3>1. PICK i \in 1 .. Len(order) : order[i] = f
      BY <2>1, Elements
    <3> QED BY <1>2, <3>1
  <2>2. CASE f \notin ToSet(order)
    BY <2>2 DEF OrderIn
  <2> QED BY <2>1, <2>2
<1>4. ASSUME NEW f \in ToSet(order), NEW g \in ToSet(order), OrderIn(order, f) = OrderIn(order, g)
      PROVE  f = g
  <2>1. PICK i \in 1 .. Len(order) : order[i] = f
    BY Elements
  <2>2. PICK j \in 1 .. Len(order) : order[j] = g
    BY Elements
  <2> QED BY <1>2, <1>4, <2>1, <2>2
<1> QED BY <1>2, <1>3, <1>4

\* Sorting a set of ordered functions.
LEMMA SortedFns ==
  ASSUME NEW order \in Seq(Fns), IsInjective(order), NEW fns \in SUBSET ToSet(order)
  PROVE  /\ sortInDepthOrderFns(fns, order) \in Seq(Fns)
         /\ ToSet(sortInDepthOrderFns(fns, order)) = fns
<1> DEFINE Deeper(f) == {g \in fns : OrderIn(order, g) > OrderIn(order, f)}
           n == Cardinality(fns)
           rank == [f \in fns |-> Cardinality(Deeper(f))]
           sorted == [i \in 1 .. n |-> CHOOSE f \in fns : Cardinality(Deeper(f)) = i - 1]
<1>0. fns \subseteq Fns
  BY Elements
<1>1. IsFiniteSet(fns) /\ n \in Nat /\ Cardinality(fns) = n
  <2>1. IsFiniteSet(fns)
    BY <1>0, FnsAreFinite, FS_Subset
  <2> QED BY <2>1, FS_CardinalityType
<1>10. sorted = sortInDepthOrderFns(fns, order)
  BY DEF sortInDepthOrderFns
<1> HIDE DEF n
<1>2. \A f \in fns : OrderIn(order, f) \in Nat
  BY PlaceInOrder
<1>3. \A f, g \in fns : OrderIn(order, f) = OrderIn(order, g) => f = g
  BY PlaceInOrder
<1>4. \A f \in fns : IsFiniteSet(Deeper(f)) /\ Cardinality(Deeper(f)) \in Nat
  <2> SUFFICES ASSUME NEW f \in fns PROVE IsFiniteSet(Deeper(f)) /\ Cardinality(Deeper(f)) \in Nat
    OBVIOUS
  <2>1. Deeper(f) \in SUBSET fns
    OBVIOUS
  <2> HIDE DEF Deeper
  <2>2. IsFiniteSet(Deeper(f))
    BY <1>1, <2>1, FS_Subset
  <2> QED BY <2>2, FS_CardinalityType
<1>5. \A f \in fns : rank[f] \in 0 .. n - 1
  <2> SUFFICES ASSUME NEW f \in fns PROVE Cardinality(Deeper(f)) \in 0 .. n - 1
    OBVIOUS
  <2>1. Deeper(f) \in SUBSET (fns \ {f})
    BY <1>2
  <2>2. IsFiniteSet(fns \ {f}) /\ Cardinality(fns \ {f}) = n - 1
    BY <1>1, FS_RemoveElement
  <2> HIDE DEF Deeper
  <2>3. Cardinality(Deeper(f)) <= Cardinality(fns \ {f})
    BY <2>1, <2>2, FS_Subset
  <2> QED BY <1>1, <1>4, <2>2, <2>3
<1>6. ASSUME NEW f \in fns, NEW h \in fns, OrderIn(order, f) > OrderIn(order, h)
      PROVE  Cardinality(Deeper(f)) # Cardinality(Deeper(h))
  <2>1. Deeper(f) \in SUBSET Deeper(h)
    BY <1>2, <1>6
  <2>2. f \in Deeper(h) /\ f \notin Deeper(f)
    BY <1>2, <1>6
  <2>3. IsFiniteSet(Deeper(h))
    BY <1>4
  <2> HIDE DEF Deeper
  <2> QED BY <2>1, <2>2, <2>3, FS_Subset
<1>7. \A f, h \in fns : rank[f] = rank[h] => f = h
  <2> SUFFICES ASSUME NEW f \in fns, NEW h \in fns, f # h,
                      Cardinality(Deeper(f)) = Cardinality(Deeper(h))
               PROVE  FALSE
    OBVIOUS
  <2>1. OrderIn(order, f) > OrderIn(order, h) \/ OrderIn(order, h) > OrderIn(order, f)
    BY <1>2, <1>3
  <2> QED BY <1>6, <2>1
<1>8. \A k \in 0 .. n - 1 : \E f \in fns : rank[f] = k
  <2>1. IsFiniteSet(0 .. n - 1) /\ Cardinality(0 .. n - 1) = n
    <3>1. 0 \in Int /\ n - 1 \in Int /\ (IF 0 > n - 1 THEN 0 ELSE (n - 1) - 0 + 1) = n
      BY <1>1
    <3> QED BY <3>1, FS_Interval
  <2>2. rank \in Injection(fns, 0 .. n - 1)
    BY <1>5, <1>7 DEF Injection, IsInjective
  <2> HIDE DEF rank
  <2>3. rank \in Surjection(fns, 0 .. n - 1)
    BY <1>1, <2>1, <2>2, FS_Injection
  <2> QED BY <2>3 DEF Surjection
<1>9. \A i \in 1 .. n : sorted[i] \in fns /\ rank[sorted[i]] = i - 1
  <2> SUFFICES ASSUME NEW i \in 1 .. n PROVE sorted[i] \in fns /\ rank[sorted[i]] = i - 1
    OBVIOUS
  <2>1. i - 1 \in 0 .. n - 1
    BY <1>1
  <2>2. \E f \in fns : Cardinality(Deeper(f)) = i - 1
    BY <1>8, <2>1
  <2> HIDE DEF Deeper
  <2> QED BY <2>2
<1> HIDE DEF sorted, rank, Deeper
<1>11. sorted \in Seq(Fns) /\ DOMAIN sorted = 1 .. n
  <2>1. sorted = [i \in 1 .. n |-> sorted[i]]
    BY DEF sorted
  <2>2. \A i \in 1 .. n : sorted[i] \in Fns
    BY <1>0, <1>9
  <2> QED BY <1>1, <2>1, <2>2
<1>12. ToSet(sorted) = fns
  <2>1. ToSet(sorted) \subseteq fns
    BY <1>9, <1>11 DEF ToSet
  <2>2. ASSUME NEW f \in fns PROVE f \in ToSet(sorted)
    <3>1. rank[f] \in 0 .. n - 1
      BY <1>5
    <3>2. rank[f] + 1 \in 1 .. n /\ (rank[f] + 1) - 1 = rank[f]
      BY <1>1, <3>1
    <3>3. sorted[rank[f] + 1] = f
      BY <1>7, <1>9, <3>2
    <3> QED BY <1>11, <3>2, <3>3 DEF ToSet
  <2> QED BY <2>1, <2>2
<1> QED BY <1>10, <1>11, <1>12

-----------------------------------------------------------------------------
(* Inlining one call.                                                      *)

Call == [callee : Fns, via : Seq(Fns)]

LEMMA CalleesTypes ==
  ASSUME NEW p \in [Fns -> Seq(Call)]
  PROVE  /\ Callees(p) \in [Fns -> Seq(Fns)]
         /\ \A f \in Fns : Len(Callees(p)[f]) = Len(p[f]) /\ Len(p[f]) \in Nat
         /\ \A f \in Fns : \A i \in 1 .. Len(p[f]) :
              /\ p[f][i] \in Call /\ p[f][i].callee \in Fns
              /\ Callees(p)[f][i] = p[f][i].callee
              /\ p[f][i].callee \in ToSet(Callees(p)[f])
<1>1. ASSUME NEW f \in Fns
      PROVE  /\ Callees(p)[f] \in Seq(Fns)
             /\ Len(Callees(p)[f]) = Len(p[f]) /\ Len(p[f]) \in Nat
             /\ \A i \in 1 .. Len(p[f]) :
                  /\ p[f][i] \in Call /\ p[f][i].callee \in Fns
                  /\ Callees(p)[f][i] = p[f][i].callee
                  /\ p[f][i].callee \in ToSet(Callees(p)[f])
  <2>1. p[f] \in Seq(Call) /\ DOMAIN p[f] = 1 .. Len(p[f]) /\ Len(p[f]) \in Nat
    OBVIOUS
  <2>2. \A i \in 1 .. Len(p[f]) : p[f][i] \in Call
    BY <2>1
  <2>3. \A i \in 1 .. Len(p[f]) : p[f][i].callee \in Fns
    BY <2>2 DEF Call
  <2>4. Callees(p)[f] = [i \in 1 .. Len(p[f]) |-> p[f][i].callee]
    BY <2>1 DEF Callees
  <2>5. Callees(p)[f] \in Seq(Fns) /\ DOMAIN Callees(p)[f] = 1 .. Len(p[f])
    BY <2>1, <2>3, <2>4
  <2>6. Len(Callees(p)[f]) = Len(p[f])
    BY <2>1, <2>5
  <2> QED BY <2>1, <2>2, <2>3, <2>4, <2>5, <2>6 DEF ToSet
<1>2. Callees(p) = [f \in Fns |-> Callees(p)[f]]
  BY DEF Callees
<1> QED BY <1>1, <1>2

\* The elements of a sequence in which one is replaced.
IsSplice(S, s, i, t, r) ==
  /\ r \in Seq(S) /\ Len(r) = Len(s) - 1 + Len(t)
  /\ Len(s) \in Nat /\ Len(t) \in Nat /\ i \in Nat
  /\ \A k \in 1 .. i - 1 : r[k] = s[k]
  /\ \A k \in i .. i + Len(t) - 1 : r[k] = t[k - i + 1]
  /\ \A k \in i + Len(t) .. Len(s) - 1 + Len(t) : r[k] = s[k - Len(t) + 1]

LEMMA SpliceIndices ==
  /\ \A x, n \in Nat : \A y \in x .. x + n - 1 : y - x + 1 \in 1 .. n
  /\ \A x, n, l \in Nat : \A y \in x + n .. l - 1 + n : y - n + 1 \in 1 .. l
  OBVIOUS

LEMMA SpliceElements ==
  ASSUME NEW S, NEW s \in Seq(S), NEW i \in 1 .. Len(s), NEW t \in Seq(S)
  PROVE  IsSplice(S, s, i, t, Splice(s, i, t))
<1> DEFINE a == SubSeq(s, 1, i - 1)
           b == SubSeq(s, i + 1, Len(s))
           r == (a \o t) \o b
<1>1. i \in Nat /\ Len(s) \in Nat /\ Len(t) \in Nat
  OBVIOUS
<1>2. a \in Seq(S) /\ Len(a) = i - 1 /\ \A k \in 1 .. i - 1 : a[k] = s[k]
  BY <1>1
<1>3. b \in Seq(S) /\ Len(b) = Len(s) - i /\ \A k \in 1 .. Len(s) - i : b[k] = s[i + k]
  BY <1>1
<1> HIDE DEF a, b
<1>4. /\ a \o t \in Seq(S) /\ Len(a \o t) = (i - 1) + Len(t)
      /\ \A k \in 1 .. i - 1 : (a \o t)[k] = s[k]
      /\ \A k \in i .. i + Len(t) - 1 : (a \o t)[k] = t[k - i + 1]
  <2>1. a \o t \in Seq(S) /\ Len(a \o t) = Len(a) + Len(t)
    <3>1. a \in Seq(S)
      BY <1>2
    <3> QED BY <3>1
  <2>2. \A k \in 1 .. Len(a) + Len(t) : (a \o t)[k] = IF k <= Len(a) THEN a[k] ELSE t[k - Len(a)]
    <3>1. a \in Seq(S)
      BY <1>2
    <3> QED BY <3>1
  <2>3. ASSUME NEW k \in i .. i + Len(t) - 1 PROVE (a \o t)[k] = t[k - i + 1]
    <3>1. k \in 1 .. Len(a) + Len(t) /\ ~(k <= Len(a)) /\ k - Len(a) = k - i + 1
      BY <1>1, <1>2
    <3> QED BY <2>2, <3>1
  <2>4. ASSUME NEW k \in 1 .. i - 1 PROVE (a \o t)[k] = s[k]
    <3>1. k \in 1 .. Len(a) + Len(t) /\ k <= Len(a)
      BY <1>1, <1>2
    <3> QED BY <1>2, <2>2, <3>1
  <2> QED BY <1>2, <2>1, <2>3, <2>4
<1> DEFINE c == a \o t
<1> HIDE DEF c
<1>5. c \in Seq(S) /\ Len(c) = (i - 1) + Len(t)
  BY <1>4 DEF c
<1>6. c \o b \in Seq(S) /\ Len(c \o b) = Len(c) + Len(b)
  <2>1. b \in Seq(S) /\ c \in Seq(S)
    BY <1>3, <1>5
  <2> QED BY <2>1
<1>7. \A k \in 1 .. Len(c) + Len(b) : (c \o b)[k] = IF k <= Len(c) THEN c[k] ELSE b[k - Len(c)]
  <2>1. b \in Seq(S) /\ c \in Seq(S)
    BY <1>3, <1>5
  <2> QED BY <2>1
<1>8. \A k \in 1 .. Len(c) : (c \o b)[k] = c[k]
  BY <1>1, <1>3, <1>5, <1>7
<1>9. ASSUME NEW k \in i + Len(t) .. Len(s) - 1 + Len(t) PROVE (c \o b)[k] = s[k - Len(t) + 1]
  <2>1. k \in 1 .. Len(c) + Len(b) /\ ~(k <= Len(c))
    BY <1>1, <1>3, <1>5
  <2>2. k - Len(c) \in 1 .. Len(s) - i /\ i + (k - Len(c)) = k - Len(t) + 1
    BY <1>1, <1>5
  <2> QED BY <1>3, <1>7, <2>1, <2>2
<1>10. Splice(s, i, t) = c \o b
  BY Zenon DEF Splice, a, b, c
<1>11. \A k \in 1 .. i - 1 : (c \o b)[k] = s[k]
  <2>1. \A k \in 1 .. i - 1 : k \in 1 .. Len(c)
    BY <1>1, <1>5
  <2> QED BY <1>4, <1>8, <2>1 DEF c
<1>12. \A k \in i .. i + Len(t) - 1 : (c \o b)[k] = t[k - i + 1]
  <2>1. \A k \in i .. i + Len(t) - 1 : k \in 1 .. Len(c)
    BY <1>1, <1>5
  <2> QED BY <1>4, <1>8, <2>1 DEF c
<1>13. Len(c \o b) = Len(s) - 1 + Len(t)
  BY <1>1, <1>3, <1>5, <1>6
<1> QED BY <1>1, <1>6, <1>9, <1>10, <1>11, <1>12, <1>13 DEF IsSplice

LEMMA SameElements ==
  ASSUME NEW S, NEW a \in Seq(S), NEW b \in Seq(S), Len(a) = Len(b),
         \A k \in 1 .. Len(b) : a[k] = b[k]
  PROVE  a = b
  OBVIOUS

LEMMA SpliceSets ==
  ASSUME NEW S, NEW s \in Seq(S), NEW i \in 1 .. Len(s), NEW t \in Seq(S)
  PROVE  LET r == Splice(s, i, t)
         IN  /\ ToSet(r) \subseteq ToSet(s) \cup ToSet(t)
             /\ ToSet(t) \subseteq ToSet(r)
             /\ ToSet(s) \subseteq ToSet(r) \cup {s[i]}
<1> DEFINE r == Splice(s, i, t)
<1>1. /\ r \in Seq(S) /\ Len(r) = Len(s) - 1 + Len(t)
      /\ Len(s) \in Nat /\ Len(t) \in Nat /\ i \in Nat
      /\ \A k \in 1 .. i - 1 : r[k] = s[k]
      /\ \A k \in i .. i + Len(t) - 1 : r[k] = t[k - i + 1]
      /\ \A k \in i + Len(t) .. Len(s) - 1 + Len(t) : r[k] = s[k - Len(t) + 1]
  <2>1. IsSplice(S, s, i, t, r)
    BY SpliceElements
  <2> QED BY <2>1, Zenon DEF IsSplice
<1> HIDE DEF r
<1>2. /\ \A x : x \in ToSet(r) <=> \E k \in 1 .. Len(r) : r[k] = x
      /\ \A x : x \in ToSet(s) <=> \E k \in 1 .. Len(s) : s[k] = x
      /\ \A x : x \in ToSet(t) <=> \E k \in 1 .. Len(t) : t[k] = x
  <2>1. r \in Seq(S)
    BY <1>1
  <2> QED BY <2>1, Elements
<1>3. ASSUME NEW x \in ToSet(r) PROVE x \in ToSet(s) \cup ToSet(t)
  <2>1. PICK k \in 1 .. Len(r) : r[k] = x
    BY <1>2
  <2>2. CASE k \in 1 .. i - 1
    <3>1. k \in 1 .. Len(s)
      BY <1>1, <2>2
    <3> QED BY <1>1, <1>2, <2>1, <2>2, <3>1
  <2>3. CASE k \in i .. i + Len(t) - 1
    <3>1. k - i + 1 \in 1 .. Len(t)
      BY <1>1, <2>3
    <3> QED BY <1>1, <1>2, <2>1, <2>3, <3>1
  <2>4. CASE k \in i + Len(t) .. Len(s) - 1 + Len(t)
    <3>1. k - Len(t) + 1 \in 1 .. Len(s)
      BY <1>1, <2>4
    <3> QED BY <1>1, <1>2, <2>1, <2>4, <3>1
  <2> QED BY <1>1, <2>2, <2>3, <2>4
<1>4. ASSUME NEW x \in ToSet(t) PROVE x \in ToSet(r)
  <2>1. PICK k \in 1 .. Len(t) : t[k] = x
    BY <1>2
  <2>2. k + i - 1 \in i .. i + Len(t) - 1 /\ (k + i - 1) - i + 1 = k /\ k + i - 1 \in 1 .. Len(r)
    BY <1>1
  <2>3. r[k + i - 1] = x
    BY <1>1, <2>1, <2>2
  <2> QED BY <1>2, <2>2, <2>3
<1>5. ASSUME NEW x \in ToSet(s), x # s[i] PROVE x \in ToSet(r)
  <2>1. PICK k \in 1 .. Len(s) : s[k] = x
    BY <1>2
  <2>2. k # i
    BY <1>5, <2>1
  <2>3. CASE k \in 1 .. i - 1
    <3>1. k \in 1 .. Len(r)
      BY <1>1, <2>3
    <3> QED BY <1>1, <1>2, <2>1, <2>3, <3>1
  <2>4. CASE k \in i + 1 .. Len(s)
    <3>1. /\ k + Len(t) - 1 \in i + Len(t) .. Len(s) - 1 + Len(t)
          /\ (k + Len(t) - 1) - Len(t) + 1 = k /\ k + Len(t) - 1 \in 1 .. Len(r)
      BY <1>1, <2>4
    <3>2. r[k + Len(t) - 1] = x
      BY <1>1, <2>1, <3>1
    <3> QED BY <1>2, <3>1, <3>2
  <2> QED BY <1>1, <2>2, <2>3, <2>4
<1> QED BY <1>3, <1>4, <1>5 DEF r

\* The calls of a child as they are copied.
CopyOf(p, f, i) ==
  LET call == p[f][i]
      child == call.callee
  IN  [k \in DOMAIN p[child] |->
         [callee |-> p[child][k].callee,
          via |-> call.via \o <<child>> \o p[child][k].via]]

AfterInline(p, f, i) == [p EXCEPT ![f] = Splice(@, i, CopyOf(p, f, i))]

LEMMA CopyFacts ==
  ASSUME NEW p \in [Fns -> Seq(Call)], NEW f \in Fns, NEW i \in 1 .. Len(p[f]),
         NEW c \in Fns, c = p[f][i].callee
  PROVE  /\ CopyOf(p, f, i) \in Seq(Call) /\ Len(CopyOf(p, f, i)) = Len(p[c])
         /\ \A k \in 1 .. Len(p[c]) :
              /\ CopyOf(p, f, i)[k].callee = Callees(p)[c][k]
              /\ CopyOf(p, f, i)[k] # p[f][i]
<1> DEFINE m(k) == [callee |-> p[c][k].callee, via |-> p[f][i].via \o <<c>> \o p[c][k].via]
<1>1. p[f][i] \in Call /\ DOMAIN p[c] = 1 .. Len(p[c]) /\ Len(p[c]) \in Nat
  BY CalleesTypes
<1>2. \A k \in 1 .. Len(p[c]) : p[c][k] \in Call /\ Callees(p)[c][k] = p[c][k].callee
  BY CalleesTypes
<1>3. CopyOf(p, f, i) = [k \in 1 .. Len(p[c]) |-> m(k)]
  BY <1>1 DEF CopyOf
<1>4. ASSUME NEW k \in 1 .. Len(p[c])
      PROVE  m(k) \in Call /\ m(k).callee = Callees(p)[c][k] /\ m(k) # p[f][i]
  <2>1. /\ p[c][k].callee \in Fns /\ p[c][k].via \in Seq(Fns) /\ p[f][i].via \in Seq(Fns)
        /\ <<c>> \in Seq(Fns)
    BY <1>1, <1>2 DEF Call
  <2> DEFINE v == p[f][i].via \o <<c>> \o p[c][k].via
  <2>2. v \in Seq(Fns) /\ Len(v) = Len(p[f][i].via) + 1 + Len(p[c][k].via)
        /\ Len(p[f][i].via) \in Nat /\ Len(p[c][k].via) \in Nat
    <3>1. Len(<<c>>) = 1
      OBVIOUS
    <3> QED BY <2>1, <3>1
  <2> HIDE DEF v
  <2>3. Len(v) # Len(p[f][i].via)
    <3>1. \A x, y \in Nat : x + 1 + y # x
      OBVIOUS
    <3> QED BY <2>2, <3>1, Zenon
  <2>4. m(k) = [callee |-> p[c][k].callee, via |-> v]
    BY DEF v
  <2> HIDE DEF m
  <2>5. m(k) \in Call
    BY <2>1, <2>2, <2>4 DEF Call
  <2>6. m(k).callee = Callees(p)[c][k]
    BY <1>2, <2>4
  <2>7. m(k) # p[f][i]
    BY <2>3, <2>4
  <2> QED BY <2>5, <2>6, <2>7
<1> HIDE DEF m
<1>5. CopyOf(p, f, i) \in Seq(Call) /\ Len(CopyOf(p, f, i)) = Len(p[c])
  BY <1>1, <1>3, <1>4
<1>6. \A k \in 1 .. Len(p[c]) : CopyOf(p, f, i)[k] = m(k)
  BY <1>3
<1> QED BY <1>4, <1>5, <1>6

\* What inlining changes: q is p after the call of c with index i in f is inlined.
IsInlined(p, f, i, c, q) ==
  /\ q \in [Fns -> Seq(Call)]
  /\ q[f] # p[f] /\ \A g \in Fns : g # f => q[g] = p[g]
  /\ Callees(q) = [Callees(p) EXCEPT ![f] = Splice(Callees(p)[f], i, Callees(p)[c])]

LEMMA InlinedCalls ==
  ASSUME NEW p \in [Fns -> Seq(Call)], NEW f \in Fns, NEW i \in 1 .. Len(p[f]),
         NEW c \in Fns, c = p[f][i].callee
  PROVE  IsInlined(p, f, i, c, AfterInline(p, f, i))
<1> DEFINE copy == CopyOf(p, f, i)
           q == AfterInline(p, f, i)
           s == p[f]
           r == Splice(s, i, copy)
<1>1. /\ copy \in Seq(Call) /\ Len(copy) = Len(p[c])
      /\ \A k \in 1 .. Len(p[c]) : copy[k].callee = Callees(p)[c][k] /\ copy[k] # p[f][i]
  BY CopyFacts
<1> HIDE DEF copy
<1>2. s \in Seq(Call) /\ Callees(p)[f] \in Seq(Fns) /\ Callees(p)[c] \in Seq(Fns)
      /\ Len(Callees(p)[f]) = Len(s) /\ Len(Callees(p)[c]) = Len(p[c])
      /\ \A k \in 1 .. Len(s) : Callees(p)[f][k] = s[k].callee
  BY CalleesTypes
<1>3. /\ r \in Seq(Call) /\ Len(r) = Len(s) - 1 + Len(copy)
      /\ Len(s) \in Nat /\ Len(copy) \in Nat /\ i \in Nat
      /\ \A k \in 1 .. i - 1 : r[k] = s[k]
      /\ \A k \in i .. i + Len(copy) - 1 : r[k] = copy[k - i + 1]
      /\ \A k \in i + Len(copy) .. Len(s) - 1 + Len(copy) : r[k] = s[k - Len(copy) + 1]
  <2>1. IsSplice(Call, s, i, copy, r)
    BY <1>1, <1>2, SpliceElements
  <2> QED BY <2>1, Zenon DEF IsSplice
<1>4. q \in [Fns -> Seq(Call)] /\ q[f] = r /\ \A g \in Fns : g # f => q[g] = p[g]
  BY <1>3 DEF AfterInline, copy
<1> HIDE DEF q, r
<1>5. r # s
  <2>1. CASE Len(copy) = 1
    <3>1. i \in i .. i + Len(copy) - 1 /\ i - i + 1 = 1
      BY <1>3, <2>1
    <3>2. r[i] = copy[1]
      BY <1>3, <3>1
    <3>3. 1 \in 1 .. Len(p[c])
      BY <1>1, <2>1
    <3> QED BY <1>1, <3>2, <3>3
  <2>2. CASE Len(copy) # 1
    <3>1. Len(r) # Len(s)
      <4>1. \A x, y \in Nat : y # 1 => x - 1 + y # x
        OBVIOUS
      <4> QED BY <1>3, <2>2, <4>1, Zenon
    <3> QED BY <3>1
  <2> QED BY <2>1, <2>2
<1> DEFINE u == Splice(Callees(p)[f], i, Callees(p)[c])
<1>6. /\ u \in Seq(Fns) /\ Len(u) = Len(s) - 1 + Len(copy)
      /\ \A k \in 1 .. i - 1 : u[k] = Callees(p)[f][k]
      /\ \A k \in i .. i + Len(copy) - 1 : u[k] = Callees(p)[c][k - i + 1]
      /\ \A k \in i + Len(copy) .. Len(s) - 1 + Len(copy) : u[k] = Callees(p)[f][k - Len(copy) + 1]
  <2>1. i \in 1 .. Len(Callees(p)[f])
    BY <1>2
  <2>2. /\ u \in Seq(Fns) /\ Len(u) = Len(Callees(p)[f]) - 1 + Len(Callees(p)[c])
        /\ \A k \in 1 .. i - 1 : u[k] = Callees(p)[f][k]
        /\ \A k \in i .. i + Len(Callees(p)[c]) - 1 : u[k] = Callees(p)[c][k - i + 1]
        /\ \A k \in i + Len(Callees(p)[c]) .. Len(Callees(p)[f]) - 1 + Len(Callees(p)[c]) :
             u[k] = Callees(p)[f][k - Len(Callees(p)[c]) + 1]
    <3>1. IsSplice(Fns, Callees(p)[f], i, Callees(p)[c], u)
      BY <1>2, <2>1, SpliceElements
    <3> QED BY <3>1, Zenon DEF IsSplice
  <2>3. Len(Callees(p)[c]) = Len(copy) /\ Len(Callees(p)[f]) = Len(s)
    BY <1>1, <1>2
  <2> HIDE DEF u
  <2> QED BY <2>2, <2>3
<1> HIDE DEF u
<1>7. /\ Callees(q)[f] \in Seq(Fns) /\ Len(Callees(q)[f]) = Len(r)
      /\ \A k \in 1 .. Len(r) : Callees(q)[f][k] = r[k].callee
  BY <1>4, CalleesTypes
<1>8. ASSUME NEW k \in 1 .. Len(r) PROVE r[k].callee = u[k]
  <2>1. CASE k \in 1 .. i - 1
    <3>1. k \in 1 .. Len(s)
      BY <1>3, <2>1
    <3> QED BY <1>2, <1>3, <1>6, <2>1, <3>1
  <2>2. CASE k \in i .. i + Len(copy) - 1
    <3>1. k - i + 1 \in 1 .. Len(p[c])
      <4>1. i \in Nat /\ Len(copy) \in Nat /\ Len(copy) = Len(p[c])
        BY <1>1
      <4> QED BY <2>2, <4>1, SpliceIndices
    <3>2. r[k] = copy[k - i + 1] /\ u[k] = Callees(p)[c][k - i + 1]
      BY <1>3, <1>6, <2>2
    <3> QED BY <1>1, <3>1, <3>2
  <2>3. CASE k \in i + Len(copy) .. Len(s) - 1 + Len(copy)
    <3>1. k - Len(copy) + 1 \in 1 .. Len(s)
      <4>1. i \in Nat /\ Len(copy) \in Nat /\ Len(s) \in Nat
        BY <1>1, <1>2
      <4> QED BY <2>3, <4>1, SpliceIndices
    <3>2. r[k] = s[k - Len(copy) + 1] /\ u[k] = Callees(p)[f][k - Len(copy) + 1]
      BY <1>3, <1>6, <2>3
    <3> QED BY <1>2, <3>1, <3>2
  <2> QED BY <1>3, <2>1, <2>2, <2>3
<1>9. Callees(q)[f] = u
  <2>1. Len(Callees(q)[f]) = Len(u) /\ \A k \in 1 .. Len(u) : Callees(q)[f][k] = u[k]
    BY <1>3, <1>6, <1>7, <1>8
  <2>2. Callees(q)[f] \in Seq(Fns) /\ u \in Seq(Fns)
    BY <1>6, <1>7
  <2> QED BY <2>1, <2>2, SameElements
<1>10. \A g \in Fns : g # f => Callees(q)[g] = Callees(p)[g]
  BY <1>4 DEF Callees
<1>11. Callees(q) \in [Fns -> Seq(Fns)] /\ Callees(p) \in [Fns -> Seq(Fns)]
  BY <1>4, CalleesTypes
<1>12. Callees(q) = [Callees(p) EXCEPT ![f] = u]
  BY <1>9, <1>10, <1>11
<1>13. Callees(q) = [Callees(p) EXCEPT ![f] = Splice(Callees(p)[f], i, Callees(p)[c])]
  BY <1>12 DEF u
<1> QED BY <1>4, <1>5, <1>13 DEF q, IsInlined

-----------------------------------------------------------------------------
(* What is reached after a call has been inlined.                          *)

LEMMA ReachedLeast ==
  ASSUME NEW called, NEW S \in SUBSET Fns, main \in S, Closed(called, S)
  PROVE  ProgramFns(called) \subseteq S
<1>1. {main} \subseteq S
  OBVIOUS
<1> QED BY <1>1, ClosureLeast DEF ProgramFns

\* What is reached is main or called by something that is reached.
LEMMA ReachedThroughACaller ==
  ASSUME NEW called \in [Fns -> Seq(Fns)], NEW f \in ProgramFns(called), f # main
  PROVE  \E g \in ProgramFns(called) : f \in ToSet(called[g])
<1> SUFFICES ASSUME \A g \in ProgramFns(called) : f \notin ToSet(called[g]) PROVE FALSE
  OBVIOUS
<1> DEFINE S == ProgramFns(called) \ {f}
<1>1. main \in S /\ S \in SUBSET Fns
  BY CollectedGraph
<1>2. Closed(called, ProgramFns(called))
  BY CollectedGraph
<1>3. Closed(called, S)
  BY <1>2 DEF Closed
<1> HIDE DEF S
<1>4. ProgramFns(called) \subseteq S
  BY <1>1, <1>3, ReachedLeast
<1> QED BY <1>4 DEF S

\* q is p after the call of c in f has been replaced by the calls of c.
Replaced(p, f, c, q) ==
  /\ \A g \in Fns : g # f => q[g] = p[g]
  /\ ToSet(q[f]) \subseteq ToSet(p[f]) \cup ToSet(p[c])
  /\ ToSet(p[c]) \subseteq ToSet(q[f])
  /\ ToSet(p[f]) \subseteq ToSet(q[f]) \cup {c}
  /\ c \in ToSet(p[f])

\* Only the child may not be reached any more, and then the parent is.
LEMMA StillReached ==
  ASSUME NEW p \in [Fns -> Seq(Fns)], NEW q \in [Fns -> Seq(Fns)],
         NEW f \in Fns, NEW c \in Fns, f # c, Replaced(p, f, c, q)
  PROVE  /\ ProgramFns(p) \subseteq ProgramFns(q) \cup {c}
         /\ c \in ProgramFns(p) => c \in ProgramFns(q) \/ f \in ProgramFns(q)
<1> DEFINE S == ProgramFns(q)
<1>1. main \in S /\ S \in SUBSET Fns /\ Closed(q, S)
  BY CollectedGraph
<1> HIDE DEF S
<1>2. CASE f \in S
  <2>1. ToSet(q[f]) \subseteq S
    BY <1>1, <1>2 DEF Closed
  <2>2. ASSUME NEW g \in S \cup {c} PROVE ToSet(p[g]) \subseteq S \cup {c}
    <3>1. CASE g = c
      BY <2>1, <3>1 DEF Replaced
    <3>2. CASE g = f
      BY <2>1, <3>2 DEF Replaced
    <3>3. CASE g # c /\ g # f
      <4>1. g \in S /\ g \in Fns /\ q[g] = p[g]
        BY <1>1, <3>3 DEF Replaced
      <4> QED BY <1>1, <4>1 DEF Closed
    <3> QED BY <3>1, <3>2, <3>3
  <2>3. Closed(p, S \cup {c}) /\ main \in S \cup {c} /\ S \cup {c} \in SUBSET Fns
    BY <1>1, <2>2 DEF Closed
  <2>4. ProgramFns(p) \subseteq S \cup {c}
    BY <2>3, ReachedLeast
  <2> QED BY <1>2, <2>4 DEF S
<1>3. CASE f \notin S
  <2>1. ASSUME NEW g \in S PROVE ToSet(p[g]) \subseteq S
    <3>1. g \in Fns /\ q[g] = p[g]
      BY <1>1, <1>3 DEF Replaced
    <3> QED BY <1>1, <3>1 DEF Closed
  <2>2. Closed(p, S)
    BY <2>1 DEF Closed
  <2>3. ProgramFns(p) \subseteq S
    BY <1>1, <2>2, ReachedLeast
  <2> QED BY <2>3 DEF S
<1> QED BY <1>2, <1>3

LEMMA SpliceReplaces ==
  ASSUME NEW p \in [Fns -> Seq(Fns)], NEW f \in Fns, NEW i \in 1 .. Len(p[f]),
         NEW c \in Fns, f # c, p[f][i] = c, NEW q,
         q = [p EXCEPT ![f] = Splice(@, i, p[c])]
  PROVE  q \in [Fns -> Seq(Fns)] /\ Replaced(p, f, c, q)
<1> DEFINE r == Splice(p[f], i, p[c])
<1>1. p[f] \in Seq(Fns) /\ p[c] \in Seq(Fns)
  OBVIOUS
<1>2. /\ ToSet(r) \subseteq ToSet(p[f]) \cup ToSet(p[c])
      /\ ToSet(p[c]) \subseteq ToSet(r)
      /\ ToSet(p[f]) \subseteq ToSet(r) \cup {p[f][i]}
  BY <1>1, SpliceSets
<1>3. r \in Seq(Fns)
  <2>1. IsSplice(Fns, p[f], i, p[c], r)
    BY <1>1, SpliceElements
  <2> QED BY <2>1, Zenon DEF IsSplice
<1>4. c \in ToSet(p[f])
  BY <1>1, Elements
<1>5. q = [p EXCEPT ![f] = r]
  OBVIOUS
<1> HIDE DEF r
<1>6. q \in [Fns -> Seq(Fns)] /\ q[f] = r /\ \A g \in Fns : g # f => q[g] = p[g]
  BY <1>3, <1>5
<1> QED BY <1>2, <1>4, <1>6 DEF Replaced

\* A sequence of different functions is not longer than there are functions.
LEMMA OrderIsShort ==
  ASSUME NEW order \in Seq(Fns), IsInjective(order)
  PROVE  Len(order) <= N
<1>1. DOMAIN order = 1 .. Len(order) /\ Len(order) \in Nat /\ N \in Nat
  BY MainIsAFunction
<1>2. IsFiniteSet(Fns) /\ Cardinality(Fns) = N
  BY <1>1, FS_Interval, FnsAreFinite DEF Fns
<1>3. IsFiniteSet(1 .. Len(order)) /\ Cardinality(1 .. Len(order)) = Len(order)
  BY <1>1, FS_Interval
<1>4. order \in Injection(1 .. Len(order), Fns)
  <2>1. order \in [1 .. Len(order) -> Fns]
    BY <1>1
  <2>2. \A i, j \in 1 .. Len(order) : order[i] = order[j] => i = j
    BY <1>1 DEF IsInjective
  <2> QED BY <2>1, <2>2 DEF Injection, IsInjective
<1>5. Cardinality(1 .. Len(order)) <= Cardinality(Fns)
  BY <1>2, <1>4, FS_Injection
<1> QED BY <1>2, <1>3, <1>5

-----------------------------------------------------------------------------
(* The calls of a program determine its entrances, and inlining keeps them. *)

\* rho numbers the rounds of the functions that main reaches, and E are the
\* entrances that rounds begin with: all callers of another function are in its
\* round, those of an entrance in the round before or later, one of them at
\* least in each.
RoundsOf(called, rho, E) ==
  LET R == ProgramFns(called)
      Calls(h, g) == g \in ToSet(called[h])
  IN  /\ rho \in [Fns -> Nat] /\ rho[main] = 0 /\ main \notin E
      /\ \A g \in R \ (E \cup {main}) : \A h \in R : Calls(h, g) => rho[h] = rho[g]
      /\ \A g \in R \cap E :
           /\ \E h \in R : Calls(h, g) /\ rho[h] + 1 = rho[g]
           /\ \A h \in R : Calls(h, g) => rho[g] <= rho[h] + 1
           /\ \E h \in R : Calls(h, g) /\ rho[h] >= rho[g]

\* place puts functions that are no entrances after their callers.
PlacesOf(called, place, E) ==
  LET R == ProgramFns(called)
  IN  /\ place \in [Fns -> Nat]
      /\ \A g \in R \ (E \cup {main}) : \A h \in R : g \in ToSet(called[h]) => place[h] < place[g]

\* Rounds of a complete traversal.
LEMMA RoundsAtTheEnd ==
  ASSUME NEW called \in [Fns -> Seq(Fns)], NEW O, O = ProgramFns(called), NEW E, NEW rho, NEW r,
         RoundsSoFar(CollectedParents(called), O, O, {}, E, rho, r)
  PROVE  RoundsOf(called, rho, E)
<1> DEFINE p == CollectedParents(called)
<1>1. /\ O \subseteq Fns /\ p \in [Fns -> SUBSET Fns]
      /\ \A f, g \in Fns : g \in p[f] <=> g \in O /\ f \in ToSet(called[g])
  BY CollectedGraph
<1> HIDE DEF p
<1>2. /\ rho \in [Fns -> Nat] /\ rho[main] = 0 /\ main \notin E
      /\ \A g \in O \ {main} : g \notin E => \A h \in p[g] : h \in O /\ rho[h] = rho[g]
      /\ \A g \in O \cap E : IsEntrance(p, O, rho, g)
  BY DEF RoundsSoFar, p
<1>3. ASSUME NEW g \in O \ (E \cup {main}), NEW h \in O, g \in ToSet(called[h]) PROVE rho[h] = rho[g]
  <2>1. h \in p[g]
    BY <1>1, <1>3
  <2> QED BY <1>2, <2>1
<1>4. ASSUME NEW g \in O \cap E
      PROVE  /\ \E h \in O : g \in ToSet(called[h]) /\ rho[h] + 1 = rho[g]
             /\ \A h \in O : g \in ToSet(called[h]) => rho[g] <= rho[h] + 1
             /\ \E h \in O : g \in ToSet(called[h]) /\ rho[h] >= rho[g]
  <2>1. \A h \in O : h \in p[g] <=> g \in ToSet(called[h])
    BY <1>1
  <2>2. p[g] \subseteq O
    BY <1>1
  <2>3. IsEntrance(p, O, rho, g)
    BY <1>2
  <2> QED BY <2>1, <2>2, <2>3 DEF IsEntrance
<1> QED BY <1>2, <1>3, <1>4 DEF RoundsOf

LEMMA PlacesAtTheEnd ==
  ASSUME NEW called \in [Fns -> Seq(Fns)], NEW r, OrderOf(called, r)
  PROVE  \E place : PlacesOf(called, place, r.entrances)
<1> DEFINE p == CollectedParents(called)
           R == ProgramFns(called)
           place == [f \in Fns |-> OrderIn(r.order, f)]
<1>1. /\ R \subseteq Fns
      /\ \A f, g \in Fns : g \in p[f] <=> g \in R /\ f \in ToSet(called[g])
  BY CollectedGraph
<1>2. /\ r.order \in Seq(Fns) /\ IsInjective(r.order) /\ r.order[1] = main /\ r.order # <<>>
      /\ ToSet(r.order) = R /\ AfterParents(p, r.order, r.entrances)
  BY DEF OrderOf
<1> HIDE DEF p, R
<1>3. Len(r.order) \in Nat /\ \A x : x \in R <=> \E i \in 1 .. Len(r.order) : r.order[i] = x
  <2>1. r.order \in Seq(Fns) /\ Len(r.order) \in Nat
    BY <1>2
  <2>2. \A x : x \in ToSet(r.order) <=> \E i \in 1 .. Len(r.order) : r.order[i] = x
    BY <2>1, Elements
  <2> QED BY <1>2, <2>1, <2>2
<1>4. /\ \A f \in Fns : OrderIn(r.order, f) \in Nat
      /\ \A i \in 1 .. Len(r.order) : OrderIn(r.order, r.order[i]) = i - 1
  BY <1>2, <1>3, PlaceInOrder
<1>5. place \in [Fns -> Nat] /\ \A f \in Fns : place[f] = OrderIn(r.order, f)
  BY <1>4
<1> HIDE DEF place
<1>6. ASSUME NEW g \in R \ (r.entrances \cup {main}), NEW h \in R, g \in ToSet(called[h])
      PROVE  place[h] < place[g]
  <2>1. h \in p[g] /\ h \in Fns /\ g \in Fns
    BY <1>1, <1>6
  <2>2. PICK i \in 1 .. Len(r.order) : r.order[i] = g
    BY <1>3
  <2>3. i \in 2 .. Len(r.order)
    BY <1>2, <1>3, <1>6, <2>2
  <2>4. PICK j \in 1 .. i - 1 : r.order[j] = h
    BY <1>2, <1>6, <2>1, <2>2, <2>3 DEF AfterParents
  <2>5. j \in 1 .. Len(r.order)
    BY <1>3
  <2>6. place[h] = j - 1 /\ place[g] = i - 1
    BY <1>4, <1>5, <2>1, <2>2, <2>4, <2>5
  <2> QED BY <1>3, <2>6
<1>7. PlacesOf(called, place, r.entrances)
  BY <1>5, <1>6 DEF PlacesOf, R
<1> QED BY <1>7

\* The order of the functions has rounds and places.
LEMMA OrderHasRounds ==
  ASSUME NEW called \in [Fns -> Seq(Fns)]
  PROVE  \E rho, place : /\ RoundsOf(called, rho, collectInDepthOrderFns(called).entrances)
                         /\ PlacesOf(called, place, collectInDepthOrderFns(called).entrances)
<1> DEFINE p == CollectedParents(called)
           R == ProgramFns(called)
           r == collectInDepthOrderFns(called)
<1>1. OrderOf(called, r)
  BY DepthOrderFacts
<1>2. PICK place : PlacesOf(called, place, r.entrances)
  BY <1>1, PlacesAtTheEnd
<1>3. RoundInv(CollectedCalled(called), p, R, r) /\ Ordered(CollectedCalled(called), r)
  BY CollectedInOrder
<1> HIDE DEF r
<1>4. ToSet(r.order) = R /\ ToSet(r.left) = {}
  BY <1>1, <1>3 DEF OrderOf, Ordered, ToSet
<1>5. PICK rho, n : RoundsSoFar(p, R, R, {}, r.entrances, rho, n)
  BY <1>3, <1>4 DEF RoundInv
<1>6. RoundsOf(called, rho, r.entrances)
  BY <1>5, RoundsAtTheEnd
<1> QED BY <1>2, <1>6 DEF r

\* Two numberings of the rounds that agree below round m: nothing is in round m of
\* one and in a later round of the other.
LEMMA NoLaterRound ==
  ASSUME NEW called \in [Fns -> Seq(Fns)], NEW rho, NEW sigma, NEW E, NEW X, NEW place, NEW m \in Nat,
         RoundsOf(called, rho, E), PlacesOf(called, place, E), RoundsOf(called, sigma, X),
         \A g \in ProgramFns(called) : rho[g] < m \/ sigma[g] < m => rho[g] = sigma[g],
         NEW f \in ProgramFns(called), rho[f] = m, sigma[f] > m
  PROVE  FALSE
<1> DEFINE R == ProgramFns(called)
           Late == {g \in R : rho[g] = m /\ sigma[g] > m}
           Places == {place[g] : g \in Late}
<1>1. R \subseteq Fns
  BY CollectedGraph
<1>2. rho \in [Fns -> Nat] /\ sigma \in [Fns -> Nat] /\ place \in [Fns -> Nat]
  BY DEF RoundsOf, PlacesOf
<1>3. \A g \in R : rho[g] \in Nat /\ sigma[g] \in Nat /\ place[g] \in Nat
  BY <1>1, <1>2
<1>4. PICK g \in Late : \A h \in Late : place[g] <= place[h]
  <2>1. Places \subseteq Nat /\ Places # {}
    BY <1>3
  <2>2. PICK k \in Places : \A j \in Places : k <= j
    BY <2>1, SmallestOf
  <2> QED BY <2>2
<1>5. g \in R /\ rho[g] = m /\ sigma[g] > m
  OBVIOUS
<1>6. g # main
  BY <1>5 DEF RoundsOf
<1> HIDE DEF Late
<1>7. CASE g \in E
  <2>1. PICK h \in R : g \in ToSet(called[h]) /\ rho[h] + 1 = rho[g]
    BY <1>5, <1>7 DEF RoundsOf
  <2>2. rho[h] < m /\ sigma[h] = rho[h] /\ sigma[h] + 1 = m
    BY <1>3, <1>5, <2>1
  <2>3. CASE g \in X
    <3>1. sigma[g] <= sigma[h] + 1
      BY <1>5, <2>1, <2>3 DEF RoundsOf
    <3> QED BY <1>3, <1>5, <2>2, <3>1
  <2>4. CASE g \notin X
    <3>1. sigma[g] = sigma[h]
      BY <1>5, <1>6, <2>1, <2>4 DEF RoundsOf
    <3> QED BY <1>3, <1>5, <2>2, <3>1
  <2> QED BY <2>3, <2>4
<1>8. CASE g \notin E
  <2>1. ASSUME NEW h \in R, g \in ToSet(called[h]) PROVE sigma[h] = m
    <3>1. rho[h] = m
      BY <1>5, <1>6, <1>8, <2>1 DEF RoundsOf
    <3>2. place[h] < place[g]
      BY <1>5, <1>6, <1>8, <2>1 DEF PlacesOf
    <3>3. h \notin Late
      BY <1>3, <1>4, <1>5, <3>2
    <3>4. ~(sigma[h] > m)
      BY <3>1, <3>3 DEF Late
    <3>5. ~(sigma[h] < m)
      BY <1>3, <3>1
    <3> QED BY <1>3, <3>4, <3>5
  <2>2. CASE g \in X
    <3>1. PICK h \in R : g \in ToSet(called[h]) /\ sigma[h] >= sigma[g]
      BY <1>5, <2>2 DEF RoundsOf
    <3> QED BY <1>3, <1>5, <2>1, <3>1
  <2>3. CASE g \notin X
    <3>1. PICK h \in R : g \in ToSet(called[h])
      BY <1>5, <1>6, ReachedThroughACaller
    <3>2. sigma[h] = sigma[g]
      BY <1>5, <1>6, <2>3, <3>1 DEF RoundsOf
    <3> QED BY <1>3, <1>5, <2>1, <3>1, <3>2
  <2> QED BY <2>2, <2>3
<1> QED BY <1>7, <1>8

\* The calls of a program determine its entrances.
LEMMA EntrancesAreUnique ==
  ASSUME NEW called \in [Fns -> Seq(Fns)], NEW rho, NEW sigma, NEW E, NEW X, NEW place, NEW position,
         RoundsOf(called, rho, E), PlacesOf(called, place, E),
         RoundsOf(called, sigma, X), PlacesOf(called, position, X),
         NEW f \in ProgramFns(called)
  PROVE  f \in E <=> f \in X
<1> DEFINE R == ProgramFns(called)
           Differ == {g \in R : rho[g] # sigma[g]}
           Rounds == {rho[g] : g \in Differ} \cup {sigma[g] : g \in Differ}
<1>1. R \subseteq Fns
  BY CollectedGraph
<1>2. rho \in [Fns -> Nat] /\ sigma \in [Fns -> Nat]
  BY DEF RoundsOf
<1>3. \A g \in R : rho[g] \in Nat /\ sigma[g] \in Nat
  BY <1>1, <1>2
<1>4. ASSUME NEW h \in Differ PROVE FALSE
  <2>1. Rounds \subseteq Nat /\ Rounds # {}
    BY <1>3
  <2>2. PICK m \in Rounds : \A k \in Rounds : m <= k
    BY <2>1, SmallestOf
  <2>3. m \in Nat
    BY <2>1
  <2>4. PICK g \in Differ : m = rho[g] \/ m = sigma[g]
    BY <2>2
  <2>5. \A k \in Differ : rho[k] >= m /\ sigma[k] >= m
    BY <1>3, <2>2, <2>3
  <2>6. \A k \in R : rho[k] < m \/ sigma[k] < m => rho[k] = sigma[k]
    BY <1>3, <2>3, <2>5
  <2>7. \A k \in R : sigma[k] < m \/ rho[k] < m => sigma[k] = rho[k]
    BY <2>6
  <2>8. g \in R /\ rho[g] # sigma[g] /\ rho[g] >= m /\ sigma[g] >= m
    BY <2>5
  <2>9. CASE m = rho[g]
    <3>1. sigma[g] > m
      BY <1>3, <2>3, <2>8, <2>9
    <3> QED BY <2>3, <2>6, <2>8, <2>9, <3>1, NoLaterRound
  <2>10. CASE m = sigma[g]
    <3>1. rho[g] > m
      BY <1>3, <2>3, <2>8, <2>10
    <3> QED BY <2>3, <2>7, <2>8, <2>10, <3>1, NoLaterRound
  <2> QED BY <2>4, <2>9, <2>10
<1>5. \A g \in R : rho[g] = sigma[g]
  BY <1>4
<1>6. f # main \/ (f \notin E /\ f \notin X)
  BY DEF RoundsOf
<1>7. ASSUME f \in E, f \notin X PROVE FALSE
  <2>1. PICK h \in R : f \in ToSet(called[h]) /\ rho[h] + 1 = rho[f]
    BY <1>7 DEF RoundsOf
  <2>2. sigma[h] = sigma[f]
    BY <1>6, <1>7, <2>1 DEF RoundsOf
  <2> QED BY <1>3, <1>5, <2>1, <2>2
<1>8. ASSUME f \in X, f \notin E PROVE FALSE
  <2>1. PICK h \in R : f \in ToSet(called[h]) /\ sigma[h] + 1 = sigma[f]
    BY <1>8 DEF RoundsOf
  <2>2. rho[h] = rho[f]
    BY <1>6, <1>8, <2>1 DEF RoundsOf
  <2> QED BY <1>3, <1>5, <2>1, <2>2
<1> QED BY <1>7, <1>8

\* Nothing more is reached after a call has been inlined, and the parent is still.
LEMMA NothingMoreReached ==
  ASSUME NEW p \in [Fns -> Seq(Fns)], NEW q \in [Fns -> Seq(Fns)],
         NEW f \in Fns, NEW c \in Fns, f # c, Replaced(p, f, c, q)
  PROVE  /\ ProgramFns(q) \subseteq ProgramFns(p)
         /\ f \in ProgramFns(p) => f \in ProgramFns(q)
         /\ f \notin ProgramFns(p) => ProgramFns(p) \subseteq ProgramFns(q)
<1> DEFINE R == ProgramFns(p)
           S == ProgramFns(q)
<1>1. main \in R /\ R \in SUBSET Fns /\ Closed(p, R) /\ S \in SUBSET Fns /\ main \in S /\ Closed(q, S)
  BY CollectedGraph
<1>2. R \subseteq S \cup {c}
  BY StillReached
<1> HIDE DEF R, S
<1>3. ASSUME NEW g \in R PROVE ToSet(q[g]) \subseteq R
  <2>1. ToSet(p[g]) \subseteq R
    BY <1>1, <1>3 DEF Closed
  <2>2. CASE g = f
    <3>1. c \in R
      BY <2>1, <2>2 DEF Replaced
    <3>2. ToSet(p[c]) \subseteq R
      BY <1>1, <3>1 DEF Closed
    <3> QED BY <2>1, <2>2, <3>2 DEF Replaced
  <2>3. CASE g # f
    <3>1. q[g] = p[g]
      BY <1>1, <2>3 DEF Replaced
    <3> QED BY <2>1, <3>1
  <2> QED BY <2>2, <2>3
<1>4. S \subseteq R
  <2>1. Closed(q, R)
    BY <1>3 DEF Closed
  <2> QED BY <1>1, <2>1, ReachedLeast DEF S
<1>5. ASSUME f \notin R PROVE R \subseteq S
  <2>1. ASSUME NEW g \in S PROVE ToSet(p[g]) \subseteq S
    <3>1. g \in Fns /\ g # f
      BY <1>1, <1>4, <1>5
    <3>2. q[g] = p[g]
      BY <3>1 DEF Replaced
    <3> QED BY <1>1, <3>2 DEF Closed
  <2>2. Closed(p, S)
    BY <2>1 DEF Closed
  <2> QED BY <1>1, <2>2, ReachedLeast DEF R
<1> QED BY <1>2, <1>4, <1>5 DEF R, S

\* Inlining a function that is no entrance keeps the rounds and the places.
LEMMA InliningKeepsRounds ==
  ASSUME NEW p \in [Fns -> Seq(Fns)], NEW q \in [Fns -> Seq(Fns)],
         NEW f \in Fns, NEW c \in Fns, f # c, Replaced(p, f, c, q),
         NEW rho, NEW place, NEW E, RoundsOf(p, rho, E), PlacesOf(p, place, E),
         c \notin E, c # main
  PROVE  RoundsOf(q, rho, E) /\ PlacesOf(q, place, E)
<1> DEFINE R == ProgramFns(p)
           S == ProgramFns(q)
<1>1. R \subseteq Fns /\ Closed(p, R)
  BY CollectedGraph
<1>2. S \subseteq R /\ R \subseteq S \cup {c} /\ (f \in R => f \in S) /\ (f \notin R => R \subseteq S)
  BY NothingMoreReached, StillReached
<1>3. /\ rho \in [Fns -> Nat] /\ rho[main] = 0 /\ main \notin E
      /\ \A g \in R \ (E \cup {main}) : \A h \in R : g \in ToSet(p[h]) => rho[h] = rho[g]
      /\ \A g \in R \cap E :
           /\ \E h \in R : g \in ToSet(p[h]) /\ rho[h] + 1 = rho[g]
           /\ \A h \in R : g \in ToSet(p[h]) => rho[g] <= rho[h] + 1
           /\ \E h \in R : g \in ToSet(p[h]) /\ rho[h] >= rho[g]
  BY DEF RoundsOf
<1>4. /\ place \in [Fns -> Nat]
      /\ \A g \in R \ (E \cup {main}) : \A h \in R : g \in ToSet(p[h]) => place[h] < place[g]
  BY DEF PlacesOf
<1>5. f \in R => c \in R /\ rho[f] = rho[c] /\ place[f] < place[c]
  <2>1. c \in ToSet(p[f])
    BY DEF Replaced
  <2>2. f \in R => c \in R
    BY <1>1, <2>1 DEF Closed
  <2> QED BY <1>3, <1>4, <2>1, <2>2
<1> HIDE DEF R, S
<1>6. \A g \in R : rho[g] \in Nat /\ place[g] \in Nat
  BY <1>1, <1>3, <1>4
\* A caller is an old one, or f, which calls what c calls.
<1>7. ASSUME NEW h \in S, NEW g, g \in ToSet(q[h])
      PROVE  \E k \in R : g \in ToSet(p[k]) /\ rho[k] = rho[h] /\ place[h] <= place[k]
  <2>1. h \in R
    BY <1>2
  <2>2. CASE g \in ToSet(p[h])
    <3>1. place[h] <= place[h]
      BY <1>6, <2>1
    <3> QED BY <2>1, <2>2, <3>1
  <2>3. CASE g \notin ToSet(p[h])
    <3>1. h = f /\ g \in ToSet(p[c])
      BY <1>1, <1>7, <2>1, <2>3 DEF Replaced
    <3>2. c \in R /\ rho[c] = rho[h] /\ place[h] < place[c]
      BY <1>5, <2>1, <3>1
    <3>3. place[h] <= place[c]
      BY <1>6, <2>1, <3>2
    <3> QED BY <3>1, <3>2, <3>3
  <2> QED BY <2>2, <2>3
\* An old caller still calls, or f does instead.
<1>8. ASSUME NEW h \in R, NEW g, g \in ToSet(p[h]), g # c
      PROVE  \E k \in S : g \in ToSet(q[k]) /\ rho[k] = rho[h]
  <2>1. g \in ToSet(q[h])
    BY <1>1, <1>8 DEF Replaced
  <2>2. CASE h \in S
    BY <2>1, <2>2
  <2>3. CASE h \notin S
    <3>1. h = c /\ f \in R /\ f \in S
      BY <1>2, <2>3
    <3>2. g \in ToSet(q[f])
      BY <1>8, <3>1 DEF Replaced
    <3> QED BY <1>5, <3>1, <3>2
  <2> QED BY <2>2, <2>3
<1>9. ASSUME NEW g \in S \ (E \cup {main}), NEW h \in S, g \in ToSet(q[h])
      PROVE  rho[h] = rho[g] /\ place[h] < place[g]
  <2>1. PICK k \in R : g \in ToSet(p[k]) /\ rho[k] = rho[h] /\ place[h] <= place[k]
    BY <1>7, <1>9
  <2>2. g \in R \ (E \cup {main}) /\ h \in R
    BY <1>2, <1>9
  <2>3. rho[k] = rho[g] /\ place[k] < place[g]
    BY <1>3, <1>4, <2>1, <2>2
  <2> QED BY <1>6, <2>1, <2>2, <2>3
<1>10. ASSUME NEW g \in S \cap E
       PROVE  /\ \E h \in S : g \in ToSet(q[h]) /\ rho[h] + 1 = rho[g]
              /\ \A h \in S : g \in ToSet(q[h]) => rho[g] <= rho[h] + 1
              /\ \E h \in S : g \in ToSet(q[h]) /\ rho[h] >= rho[g]
  <2>1. g \in R \cap E /\ g # c
    BY <1>2, <1>10
  <2>2. \E h \in S : g \in ToSet(q[h]) /\ rho[h] + 1 = rho[g]
    <3>1. PICK k \in R : g \in ToSet(p[k]) /\ rho[k] + 1 = rho[g]
      BY <1>3, <2>1
    <3>2. PICK h \in S : g \in ToSet(q[h]) /\ rho[h] = rho[k]
      BY <1>8, <2>1, <3>1
    <3> QED BY <3>1, <3>2
  <2>3. ASSUME NEW h \in S, g \in ToSet(q[h]) PROVE rho[g] <= rho[h] + 1
    <3>1. PICK k \in R : g \in ToSet(p[k]) /\ rho[k] = rho[h]
      BY <1>7, <2>3
    <3>2. rho[g] <= rho[k] + 1
      BY <1>3, <2>1, <3>1
    <3> QED BY <3>1, <3>2
  <2>4. \E h \in S : g \in ToSet(q[h]) /\ rho[h] >= rho[g]
    <3>1. PICK k \in R : g \in ToSet(p[k]) /\ rho[k] >= rho[g]
      BY <1>3, <2>1
    <3>2. PICK h \in S : g \in ToSet(q[h]) /\ rho[h] = rho[k]
      BY <1>8, <2>1, <3>1
    <3> QED BY <3>1, <3>2
  <2> QED BY <2>2, <2>3, <2>4
<1>11. RoundsOf(q, rho, E)
  BY <1>3, <1>9, <1>10 DEF RoundsOf, S
<1>12. PlacesOf(q, place, E)
  BY <1>4, <1>9 DEF PlacesOf, S
<1> QED BY <1>11, <1>12

-----------------------------------------------------------------------------
(* The inductive invariant.                                                *)

Called == Callees(calls)
InOrder == ToSet(depthOrderedFns)
Loops(f) == loops[f].hot + loops[f].cold

Types ==
  /\ calls \in [Fns -> Seq(Call)] /\ before \in [Fns -> Seq(Call)]
  /\ loops \in [Fns -> [hot : Nat, cold : Nat]] /\ size \in [Fns -> Nat]
  /\ opaque \in SUBSET Fns /\ hoist \in BOOLEAN
  /\ file = NoFile \/ file \subseteq 1 .. N - 1
  /\ stage \in {"start", "carried", "hoist", "exit", "done", "assertFailed"}
  /\ orderedCalled \in [Fns -> Seq(Fns)] /\ parentFns \in [Fns -> SUBSET Fns]
  /\ preOrderedLoops \in [Fns -> Nat]
  /\ depthOrderedFns \in Seq(Fns) /\ recursiveChainEntranceFns \in SUBSET Fns
  /\ fnsAffected \in SUBSET Fns /\ fnsToCheck \in SUBSET Fns
  /\ orderedFns \in Seq(Fns) /\ fnIndex \in 1 .. Len(orderedFns) + 1
  /\ fnsToAvoid \in SUBSET Fns
  /\ childF \in Fns \cup {NoFn} /\ parents \in SUBSET Fns
  /\ inlined \in BOOLEAN /\ inlinedInParents \in BOOLEAN

\* What a pass starts with, and what the hoisting does.
Phases ==
  /\ stage = "start" => /\ fnsAffected = {} /\ ~inlined /\ orderedFns = <<>> /\ fnIndex = 1
                        /\ before = calls
  /\ stage \in {"start", "carried"} => fnsToCheck = {} /\ parents = {} /\ inlinedInParents
  /\ stage # "hoist" => childF = NoFn
  /\ stage = "done" => ~inlined

\* A function is changed once at most in a pass.
Changes ==
  /\ inlined <=> fnsAffected # {}
  /\ \A f \in Fns : f \in fnsAffected <=> calls[f] # before[f]

TableOf(f) ==
  /\ orderedCalled[f] = Called[f]
  /\ parentFns[f] = {g \in InOrder : f \in ToSet(Called[g])}
  /\ preOrderedLoops[f] = Loops(f)

\* The tables describe the functions in the order, and all that they call.
TablesInv ==
  /\ depthOrderedFns # <<>> /\ depthOrderedFns[1] = main /\ IsInjective(depthOrderedFns)
  /\ Closed(Called, InOrder)
  /\ \A f \in InOrder : TableOf(f)
  /\ \A f \in Fns \ InOrder : preOrderedLoops[f] = 0
  /\ \A f \in InOrder \ (recursiveChainEntranceFns \cup {main}) :
       \A g \in parentFns[f] : fnOrders(g) < fnOrders(f)

\* The walks stay among these functions.
WalkInv ==
  /\ ToSet(orderedFns) \subseteq InOrder /\ parents \subseteq InOrder
  /\ childF \in InOrder \cup {NoFn}
  /\ ~inlined => depthOrderedFns = collectInDepthOrderFns(Called).order

\* Something that main reaches cannot be inlined, or not be inlined into.
Blocks(f) == f \in opaque \/ size[f] > MaxFunctionInstructions
Blocked == \E f \in ProgramFns(Called) : Blocks(f)

\* Nothing else can stand in the way of a pass.
BlockedInv ==
  \A f \in InOrder : f \in opaque \/ (f \notin fnsAffected /\ Blocks(f)) => Blocked

\* Where it is useless to inline f into g.
Useless(g, f) ==
  f \in recursiveChainEntranceFns \/ g = f \/ fnOrders(g) > fnOrders(f)

Ahead == {orderedFns[j] : j \in fnIndex .. Len(orderedFns)}

\* Hoisting forgets no function and leaves none for the next pass.
HoistInv ==
  /\ fnsToAvoid = {} /\ inlinedInParents
  /\ fnsToCheck \subseteq Ahead \cup {childF}
  /\ ~inlined => \A f \in Fns : preOrderedLoops[f] > 0 =>
       \/ f \in Ahead
       \/ \A g \in parentFns[f] : (f = childF /\ g \in parents) \/ Useless(g, f)

Hoisted ==
  \A f \in ProgramFns(Called) \ {main} : Loops(f) = 0 \/ f \in recursiveChainEntranceFns

UnlessBlocked ==
  \/ Blocked
  \/ /\ file = NoFile
     /\ stage = "hoist" => HoistInv
     /\ stage \in {"exit", "done"} /\ ~inlined /\ hoist /\ ~TooBig => Hoisted

InlinerInv ==
  /\ Types
  /\ Phases
  /\ Changes
  /\ InPass => TablesInv /\ WalkInv /\ BlockedInv
  /\ UnlessBlocked
  /\ FileNamesTheRemaining

-----------------------------------------------------------------------------
(* Steps that do not change the program.                                   *)

\* What depends on the program only.
LEMMA SameProgram ==
  ASSUME UNCHANGED <<program, opaque>>
  PROVE  /\ Called' = Called /\ Blocked' = Blocked /\ TooBig' = TooBig
         /\ \A f : Loops(f)' = Loops(f)
<1>1. calls' = calls /\ loops' = loops /\ size' = size /\ opaque' = opaque
  BY DEF program
<1>2. Called' = Called
  BY <1>1 DEF Called
<1>3. Blocked' = Blocked
  BY <1>1, <1>2 DEF Blocked, Blocks
<1>4. TooBig' = TooBig
  BY <1>1 DEF TooBig
<1>5. \A f : Loops(f)' = Loops(f)
  BY <1>1 DEF Loops
<1> QED BY <1>2, <1>3, <1>4, <1>5

LEMMA SameTables ==
  ASSUME UNCHANGED <<options, program, graph, orders>>
  PROVE  /\ TablesInv' = TablesInv /\ InOrder' = InOrder
         /\ \A f, g : Useless(g, f)' = Useless(g, f)
         /\ Hoisted' = Hoisted
<1>1. /\ orderedCalled' = orderedCalled /\ parentFns' = parentFns
      /\ preOrderedLoops' = preOrderedLoops /\ depthOrderedFns' = depthOrderedFns
      /\ recursiveChainEntranceFns' = recursiveChainEntranceFns
  BY DEF graph, orders
<1>2. Called' = Called /\ \A f : Loops(f)' = Loops(f)
  <2>1. UNCHANGED <<program, opaque>>
    BY DEF options
  <2> QED BY <2>1, SameProgram
<1>3. InOrder' = InOrder
  BY <1>1 DEF InOrder
<1>4. \A f : fnOrders(f)' = fnOrders(f)
  BY <1>1 DEF fnOrders
<1>5. \A f : TableOf(f)' = TableOf(f)
  BY <1>1, <1>2, <1>3 DEF TableOf
<1>6. TablesInv' = TablesInv
  BY <1>1, <1>2, <1>3, <1>4, <1>5 DEF TablesInv
<1>7. \A f, g : Useless(g, f)' = Useless(g, f)
  BY <1>1, <1>4 DEF Useless
<1>8. Hoisted' = Hoisted
  BY <1>1, <1>2 DEF Hoisted
<1> QED BY <1>3, <1>6, <1>7, <1>8

LEMMA SameBlocked ==
  ASSUME UNCHANGED <<options, program, orders, fnsAffected>>
  PROVE  BlockedInv' = BlockedInv /\ Blocked' = Blocked
<1>1. Blocked' = Blocked
  <2>1. UNCHANGED <<program, opaque>>
    BY DEF options
  <2> QED BY <2>1, SameProgram
<1>2. depthOrderedFns' = depthOrderedFns /\ opaque' = opaque /\ size' = size
  BY DEF orders, options, program
<1> QED BY <1>1, <1>2 DEF BlockedInv, InOrder, Blocks

-----------------------------------------------------------------------------
(* The invariant holds initially.                                          *)

LEMMA InitCalls ==
  ASSUME NEW called \in [Fns -> Seq(Fns)]
  PROVE  [f \in Fns |-> [i \in DOMAIN called[f] |-> [callee |-> called[f][i], via |-> <<>>]]]
           \in [Fns -> Seq(Call)]
<1> SUFFICES ASSUME NEW f \in Fns
             PROVE  [i \in DOMAIN called[f] |-> [callee |-> called[f][i], via |-> <<>>]] \in Seq(Call)
  OBVIOUS
<1>1. called[f] \in Seq(Fns) /\ DOMAIN called[f] = 1 .. Len(called[f]) /\ Len(called[f]) \in Nat
  OBVIOUS
<1>2. ASSUME NEW i \in 1 .. Len(called[f]) PROVE [callee |-> called[f][i], via |-> <<>>] \in Call
  <2>1. called[f][i] \in Fns /\ <<>> \in Seq(Fns)
    BY <1>1
  <2> QED BY <2>1 DEF Call
<1> QED BY <1>1, <1>2

LEMMA InlinerInit == Init => InlinerInv
<1> SUFFICES ASSUME Init PROVE InlinerInv
  OBVIOUS
<1> USE DEF Init
<1>1. /\ calls \in [Fns -> Seq(Call)] /\ loops \in [Fns -> [hot : Nat, cold : Nat]]
      /\ size \in [Fns -> Nat] /\ opaque \in SUBSET Fns
  <2>1. PICK p \in Programs :
          /\ calls = [f \in Fns |-> [i \in DOMAIN p.calls[f] |->
                                       [callee |-> p.calls[f][i], via |-> <<>>]]]
          /\ loops = p.loops /\ size = p.size /\ opaque = p.opaque
    OBVIOUS
  <2>2. /\ p.calls \in [Fns -> Seq(Fns)] /\ p.opaque \subseteq Fns
        /\ p.loops \in [Fns -> [hot : Nat, cold : Nat]] /\ p.size \in [Fns -> Nat]
    BY InlinerAssumption DEF InlinerAssumption
  <2>3. calls \in [Fns -> Seq(Call)]
    BY <2>1, <2>2, InitCalls
  <2> QED BY <2>1, <2>2, <2>3
<1>2. Types
  <2>1. /\ orderedCalled \in [Fns -> Seq(Fns)] /\ parentFns \in [Fns -> SUBSET Fns]
        /\ preOrderedLoops \in [Fns -> Nat]
    OBVIOUS
  <2>2. /\ depthOrderedFns \in Seq(Fns) /\ orderedFns \in Seq(Fns)
        /\ fnIndex \in 1 .. Len(orderedFns) + 1
    OBVIOUS
  <2> QED BY <1>1, <2>1, <2>2 DEF Types
<1>3. Phases
  BY DEF Phases
<1>4. Changes
  BY DEF Changes
<1>5. ~InPass
  BY DEF InPass
<1>6. UnlessBlocked
  BY DEF UnlessBlocked
<1>7. FileNamesTheRemaining
  BY DEF FileNamesTheRemaining
<1> QED BY <1>2, <1>3, <1>4, <1>5, <1>6, <1>7 DEF InlinerInv

-----------------------------------------------------------------------------
(* The steps of a pass that do not inline.                                 *)

LEMMA LoopsAreNatural ==
  ASSUME loops \in [Fns -> [hot : Nat, cold : Nat]]
  PROVE  \A f \in Fns : Loops(f) \in Nat
<1> SUFFICES ASSUME NEW f \in Fns PROVE Loops(f) \in Nat
  OBVIOUS
<1>1. loops[f] \in [hot : Nat, cold : Nat]
  OBVIOUS
<1>2. loops[f].hot \in Nat /\ loops[f].cold \in Nat
  BY <1>1
<1> QED BY <1>2 DEF Loops

\* The functions are ordered and their tables collected.
LEMMA CollectTables ==
  ASSUME Types, ~TooBig, runOnModule
  PROVE  /\ orderedCalled' \in [Fns -> Seq(Fns)] /\ parentFns' \in [Fns -> SUBSET Fns]
         /\ preOrderedLoops' \in [Fns -> Nat]
         /\ depthOrderedFns' \in Seq(Fns) /\ recursiveChainEntranceFns' \in SUBSET Fns
         /\ orderedFns' \in Seq(Fns)
         /\ InOrder' = ProgramFns(Called) /\ Called' = Called
         /\ TablesInv' /\ ToSet(orderedFns)' \subseteq InOrder'
         /\ depthOrderedFns' = collectInDepthOrderFns(Called).order
<1> DEFINE r == collectInDepthOrderFns(Called)
<1>0. UNCHANGED <<program, opaque>> /\ loops' = loops
  BY DEF runOnModule, options, program
<1>1. Called' = Called /\ \A f : Loops(f)' = Loops(f)
  BY <1>0, SameProgram
<1>2. /\ orderedCalled' = CollectedCalled(Called) /\ parentFns' = CollectedParents(Called)
      /\ depthOrderedFns' = r.order /\ recursiveChainEntranceFns' = r.entrances
      /\ preOrderedLoops' = createPreOrderedLoopSummariesFor(r.order)
      /\ orderedFns' = getLoopsToInline(r.order)
  BY DEF runOnModule, Called
<1>3. Called \in [Fns -> Seq(Fns)]
  BY CalleesTypes DEF Types, Called
<1>4. OrderOf(Called, r)
  BY <1>3, DepthOrderFacts
<1>5. /\ CollectedCalled(Called) \in [Fns -> Seq(Fns)]
      /\ CollectedParents(Called) \in [Fns -> SUBSET Fns]
      /\ ProgramFns(Called) \subseteq Fns /\ Closed(Called, ProgramFns(Called))
      /\ \A f \in ProgramFns(Called) : CollectedCalled(Called)[f] = Called[f]
      /\ \A f, g \in Fns : g \in CollectedParents(Called)[f] <=>
           g \in ProgramFns(Called) /\ f \in ToSet(Called[g])
  BY <1>3, CollectedGraph
<1> HIDE DEF r
<1>6. InOrder' = ProgramFns(Called)
  BY <1>2, <1>4 DEF InOrder, OrderOf
<1>7. /\ preOrderedLoops' \in [Fns -> Nat]
      /\ \A f \in Fns : preOrderedLoops'[f] =
           IF f \in ProgramFns(Called) THEN Loops(f) ELSE 0
  <2>1. preOrderedLoops' =
          [f \in Fns |-> IF f \in ProgramFns(Called) THEN Loops(f) ELSE 0]
    BY <1>2, <1>4 DEF createPreOrderedLoopSummariesFor, OrderOf, Loops
  <2>2. \A f \in Fns : Loops(f) \in Nat
    BY LoopsAreNatural DEF Types
  <2> QED BY <2>1, <2>2
<1>8. orderedFns' \in Seq(Fns) /\ ToSet(orderedFns)' \subseteq InOrder'
  <2> DEFINE fns == {f \in ToSet(r.order) : loops[f].hot > 0}
  <2>1. fns \in SUBSET ToSet(r.order) /\ r.order \in Seq(Fns) /\ IsInjective(r.order)
    BY <1>4 DEF OrderOf
  <2>2. orderedFns' = sortInDepthOrderFns(fns, r.order)
    BY <1>2 DEF getLoopsToInline
  <2> HIDE DEF fns
  <2>3. sortInDepthOrderFns(fns, r.order) \in Seq(Fns)
        /\ ToSet(sortInDepthOrderFns(fns, r.order)) = fns
    BY <2>1, SortedFns
  <2> QED BY <1>2, <2>1, <2>2, <2>3 DEF InOrder
<1>9. ASSUME NEW f \in InOrder' PROVE TableOf(f)'
  <2>1. f \in Fns /\ f \in ProgramFns(Called)
    BY <1>5, <1>6
  <2>2. orderedCalled'[f] = Called'[f] /\ preOrderedLoops'[f] = Loops(f)'
    BY <1>1, <1>2, <1>5, <1>7, <2>1
  <2>3. parentFns'[f] = {g \in InOrder' : f \in ToSet(Called'[g])}
    BY <1>1, <1>2, <1>5, <1>6, <2>1
  <2> QED BY <2>2, <2>3 DEF TableOf
<1>10. ASSUME NEW f \in InOrder', f # main, f \notin recursiveChainEntranceFns',
              NEW g \in parentFns'[f]
       PROVE  fnOrders(g)' < fnOrders(f)'
  <2>1. r.order \in Seq(Fns) /\ IsInjective(r.order) /\ r.order[1] = main
        /\ ToSet(r.order) = ProgramFns(Called)
        /\ AfterParents(CollectedParents(Called), r.order, r.entrances)
    BY <1>4 DEF OrderOf
  <2>2. PICK i \in 1 .. Len(r.order) : r.order[i] = f
    BY <1>6, <2>1, Elements
  <2>3. i \in 2 .. Len(r.order) /\ Len(r.order) \in Nat
    BY <1>10, <2>1, <2>2
  <2>4. PICK j \in 1 .. i - 1 : r.order[j] = g
    BY <1>2, <1>10, <2>1, <2>2, <2>3 DEF AfterParents
  <2>5. j \in 1 .. Len(r.order)
    BY <2>3
  <2>6. OrderIn(r.order, f) = i - 1 /\ OrderIn(r.order, g) = j - 1
    BY <2>1, <2>2, <2>4, <2>5, PlaceInOrder
  <2>7. fnOrders(g)' = OrderIn(r.order, g) /\ fnOrders(f)' = OrderIn(r.order, f)
    BY <1>2 DEF fnOrders
  <2> QED BY <2>3, <2>6, <2>7
<1>11. TablesInv'
  <2>1. depthOrderedFns' # <<>> /\ depthOrderedFns'[1] = main /\ IsInjective(depthOrderedFns')
    BY <1>2, <1>4 DEF OrderOf
  <2>2. Closed(Called', InOrder')
    BY <1>1, <1>5, <1>6
  <2>3. \A f \in Fns \ InOrder' : preOrderedLoops'[f] = 0
    BY <1>6, <1>7
  <2> QED BY <1>9, <1>10, <2>1, <2>2, <2>3 DEF TablesInv
<1>12. depthOrderedFns' \in Seq(Fns) /\ recursiveChainEntranceFns' \in SUBSET Fns
  BY <1>2, <1>4 DEF OrderOf
<1> QED BY <1>1, <1>2, <1>5, <1>6, <1>7, <1>8, <1>11, <1>12 DEF r

LEMMA RunOnModuleStep ==
  ASSUME InlinerInv, runOnModule
  PROVE  InlinerInv'
<1> USE DEF runOnModule
<1>1. Types /\ Phases /\ Changes /\ UnlessBlocked
  BY DEF InlinerInv
<1>2. UNCHANGED <<options, program, before, file, fnsAffected, fnsToCheck,
                  fnIndex, fnsToAvoid, fnsWillCheck, inlined, current>>
  OBVIOUS
<1>3. /\ calls' = calls /\ loops' = loops /\ size' = size /\ opaque' = opaque /\ hoist' = hoist
      /\ childF' = childF /\ parents' = parents /\ inlinedInParents' = inlinedInParents
  BY DEF program, options, current
<1>4. Called' = Called /\ Blocked' = Blocked /\ TooBig' = TooBig
  <2>1. UNCHANGED <<program, opaque>>
    BY DEF options
  <2> QED BY <2>1, SameProgram
<1>5. stage = "start" /\ stage' = IF TooBig THEN "exit" ELSE "carried"
  OBVIOUS
<1>6. fnsAffected = {} /\ ~inlined /\ orderedFns = <<>> /\ fnIndex = 1 /\ before = calls
      /\ fnsToCheck = {} /\ parents = {} /\ inlinedInParents /\ childF = NoFn
  BY <1>1, <1>5 DEF Phases
<1>7. Changes'
  BY <1>1, <1>2, <1>3 DEF Changes
<1>8. Phases'
  BY <1>2, <1>3, <1>5, <1>6 DEF Phases
<1>9. FileNamesTheRemaining'
  BY <1>2, <1>6 DEF FileNamesTheRemaining
<1>10. UnlessBlocked'
  BY <1>1, <1>2, <1>4, <1>5 DEF UnlessBlocked
<1>11. CASE TooBig
  <2>1. UNCHANGED <<graph, orders, orderedFns>>
    BY <1>11
  <2>2. Types'
    BY <1>1, <1>2, <1>3, <1>5, <2>1 DEF Types, graph, orders
  <2>3. ~InPass'
    BY <1>5, <1>11 DEF InPass
  <2> QED BY <1>7, <1>8, <1>9, <1>10, <2>2, <2>3 DEF InlinerInv
<1>12. CASE ~TooBig
  <2>1. /\ orderedCalled' \in [Fns -> Seq(Fns)] /\ parentFns' \in [Fns -> SUBSET Fns]
        /\ preOrderedLoops' \in [Fns -> Nat]
        /\ depthOrderedFns' \in Seq(Fns) /\ recursiveChainEntranceFns' \in SUBSET Fns
        /\ orderedFns' \in Seq(Fns)
        /\ InOrder' = ProgramFns(Called)
        /\ TablesInv' /\ ToSet(orderedFns)' \subseteq InOrder'
        /\ depthOrderedFns' = collectInDepthOrderFns(Called).order
    BY <1>1, <1>12, CollectTables
  <2>2. Types'
    <3>1. fnIndex' \in 1 .. Len(orderedFns') + 1
      BY <1>2, <1>6, <2>1
    <3>2. stage' \in {"start", "carried", "hoist", "exit", "done", "assertFailed"}
      BY <1>5
    <3> QED BY <1>1, <1>2, <1>3, <2>1, <3>1, <3>2 DEF Types
  <2>3. WalkInv'
    BY <1>2, <1>3, <1>4, <1>6, <2>1 DEF WalkInv
  <2>4. BlockedInv'
    BY <1>3, <1>4, <2>1 DEF BlockedInv, Blocked, Blocks
  <2> QED BY <1>7, <1>8, <1>9, <1>10, <2>1, <2>2, <2>3, <2>4 DEF InlinerInv
<1> QED BY <1>11, <1>12

\* A step of a walk that changes neither the program nor the tables.
Walking ==
  /\ UNCHANGED <<options, program, before, file, result, graph, orders, fnsAffected, inlined>>
  /\ InPass

LEMMA WalkingStep ==
  ASSUME InlinerInv, Walking,
         stage' \in {"start", "carried", "hoist", "exit", "done", "assertFailed"},
         fnsToCheck' \in SUBSET Fns,
         orderedFns' \in Seq(Fns), fnIndex' \in 1 .. Len(orderedFns') + 1,
         fnsToAvoid' \in SUBSET Fns, childF' \in Fns \cup {NoFn}, parents' \in SUBSET Fns,
         inlinedInParents' \in BOOLEAN,
         ToSet(orderedFns)' \subseteq InOrder, parents' \subseteq InOrder,
         childF' \in InOrder \cup {NoFn},
         Phases', UnlessBlocked', FileNamesTheRemaining'
  PROVE  InlinerInv'
<1>1. /\ Types /\ Changes /\ TablesInv /\ WalkInv /\ BlockedInv
  BY DEF InlinerInv, Walking
<1>2. UNCHANGED <<options, program, graph, orders>> /\ UNCHANGED <<options, program, orders, fnsAffected>>
  BY DEF Walking
<1>3. /\ calls' = calls /\ loops' = loops /\ size' = size /\ opaque' = opaque /\ hoist' = hoist
      /\ before' = before /\ file' = file /\ fnsAffected' = fnsAffected /\ inlined' = inlined
      /\ orderedCalled' = orderedCalled /\ parentFns' = parentFns
      /\ preOrderedLoops' = preOrderedLoops /\ depthOrderedFns' = depthOrderedFns
      /\ recursiveChainEntranceFns' = recursiveChainEntranceFns
  BY DEF Walking, program, options, graph, orders
<1>4. TablesInv' /\ InOrder' = InOrder
  BY <1>1, <1>2, SameTables
<1>5. BlockedInv'
  BY <1>1, <1>2, SameBlocked
<1>6. Types'
  BY <1>1, <1>3 DEF Types
<1>7. Changes'
  BY <1>1, <1>3 DEF Changes
<1>8. WalkInv'
  <2>1. Called' = Called
    BY <1>3 DEF Called
  <2> QED BY <1>1, <1>3, <1>4, <2>1 DEF WalkInv
<1> QED BY <1>4, <1>5, <1>6, <1>7, <1>8 DEF InlinerInv

\* The steps over the functions with hot loops.
LEMMA CarriedStep ==
  ASSUME InlinerInv, AvoidFunction \/ NothingToInline
  PROVE  InlinerInv'
<1> USE DEF AvoidFunction, NothingToInline
<1>1. /\ stage = "carried" /\ fnIndex <= Len(orderedFns) /\ fnIndex' = fnIndex + 1
      /\ fnsToAvoid' = fnsToAvoid \/ fnsToAvoid' = fnsToAvoid \cup parentFns[orderedFns[fnIndex]]
      /\ UNCHANGED <<options, program, before, file, stage, result, graph, orders,
                     fnsAffected, fnsToCheck, orderedFns, fnsWillCheck, inlined, current>>
  BY Zenon
<1>2. Types /\ Phases /\ TablesInv /\ WalkInv /\ UnlessBlocked
  BY <1>1 DEF InlinerInv, InPass
<1>3. stage' = stage /\ childF' = childF /\ parents' = parents /\ inlinedInParents' = inlinedInParents
      /\ orderedFns' = orderedFns /\ fnsToCheck' = fnsToCheck /\ file' = file /\ inlined' = inlined
  BY <1>1 DEF current
<1>4. Walking
  BY <1>1 DEF Walking, InPass
<1>5. fnIndex \in 1 .. Len(orderedFns) /\ Len(orderedFns) \in Nat
  BY <1>1, <1>2 DEF Types
<1>6. fnIndex' \in 1 .. Len(orderedFns') + 1
  BY <1>1, <1>3, <1>5
<1>7. fnsToAvoid' \in SUBSET Fns
  <2>1. orderedFns[fnIndex] \in Fns
    BY <1>2, <1>5 DEF Types
  <2> QED BY <1>1, <1>2, <2>1 DEF Types
<1>8. Phases'
  BY <1>1, <1>2, <1>3 DEF Phases
<1>9. Blocked' = Blocked
  BY <1>4, SameBlocked DEF Walking
<1>10. UnlessBlocked'
  BY <1>1, <1>2, <1>3, <1>9 DEF UnlessBlocked
<1>11. FileNamesTheRemaining'
  BY <1>1, <1>3 DEF FileNamesTheRemaining
<1>12. /\ fnsToCheck' \in SUBSET Fns /\ orderedFns' \in Seq(Fns)
       /\ childF' \in Fns \cup {NoFn} /\ parents' \in SUBSET Fns /\ inlinedInParents' \in BOOLEAN
       /\ stage' \in {"start", "carried", "hoist", "exit", "done", "assertFailed"}
  BY <1>2, <1>3 DEF Types
<1>13. /\ ToSet(orderedFns)' \subseteq InOrder /\ parents' \subseteq InOrder
       /\ childF' \in InOrder \cup {NoFn}
  BY <1>2, <1>3 DEF WalkInv
<1> QED BY <1>4, <1>6, <1>7, <1>8, <1>10, <1>11, <1>12, <1>13, WalkingStep

LEMMA CarriedEnds ==
  ASSUME InlinerInv, CarriedExit \/ IndexOutOfRange
  PROVE  InlinerInv'
<1> USE DEF CarriedExit, IndexOutOfRange
<1>1. /\ stage = "carried"
      /\ \/ stage' = "exit" /\ (inlined \/ ~hoist)
         \/ stage' = "assertFailed"
      /\ UNCHANGED <<options, program, before, file, graph, orders, fnsAffected,
                     fnsToCheck, walk, inlined, current>>
  BY Zenon
<1>2. Types /\ Phases /\ Changes /\ UnlessBlocked
  BY <1>1 DEF InlinerInv
<1>3. /\ calls' = calls /\ loops' = loops /\ size' = size /\ opaque' = opaque /\ hoist' = hoist
      /\ before' = before /\ file' = file /\ fnsAffected' = fnsAffected /\ inlined' = inlined
      /\ orderedCalled' = orderedCalled /\ parentFns' = parentFns
      /\ preOrderedLoops' = preOrderedLoops /\ depthOrderedFns' = depthOrderedFns
      /\ recursiveChainEntranceFns' = recursiveChainEntranceFns
      /\ fnsToCheck' = fnsToCheck /\ orderedFns' = orderedFns /\ fnIndex' = fnIndex
      /\ fnsToAvoid' = fnsToAvoid /\ childF' = childF /\ parents' = parents
      /\ inlinedInParents' = inlinedInParents
  BY <1>1 DEF program, options, graph, orders, walk, current
<1>4. Types'
  <2>1. stage' \in {"start", "carried", "hoist", "exit", "done", "assertFailed"}
    BY <1>1
  <2> QED BY <1>2, <1>3, <2>1 DEF Types
<1>5. Phases'
  BY <1>1, <1>2, <1>3 DEF Phases
<1>6. Changes'
  BY <1>2, <1>3 DEF Changes
<1>7. Blocked' = Blocked
  BY <1>1, SameBlocked
<1>8. UnlessBlocked'
  BY <1>1, <1>2, <1>3, <1>7 DEF UnlessBlocked
<1>9. FileNamesTheRemaining'
  BY <1>1, <1>2, <1>3 DEF FileNamesTheRemaining, Phases
<1>10. ~InPass'
  BY <1>1 DEF InPass
<1> QED BY <1>4, <1>5, <1>6, <1>8, <1>9, <1>10 DEF InlinerInv

\* What is hoisted is in the order.
LEMMA FunctionsToInline ==
  ASSUME InlinerInv, getFunctionsToInline
  PROVE  /\ fnsToCheck' \in SUBSET InOrder
         /\ orderedFns' \in Seq(Fns) /\ ToSet(orderedFns)' = fnsToCheck'
         /\ file = NoFile => fnsToCheck' = {f \in Fns : preOrderedLoops[f] > 0}
<1> USE DEF getFunctionsToInline
<1>1. Types /\ TablesInv
  BY DEF InlinerInv, InPass
<1>2. depthOrderedFns \in Seq(Fns) /\ IsInjective(depthOrderedFns) /\ Len(depthOrderedFns) \in Nat
  BY <1>1 DEF Types, TablesInv
<1>3. file = NoFile => fnsToCheck' = {f \in Fns : preOrderedLoops[f] > 0}
  OBVIOUS
<1>4. fnsToCheck' \in SUBSET InOrder
  <2>1. CASE file = NoFile
    <3>1. \A f \in Fns \ InOrder : preOrderedLoops[f] = 0
      BY <1>1 DEF TablesInv
    <3> QED BY <1>3, <2>1, <3>1
  <2>2. CASE file # NoFile
    <3>1. fnsToCheck' = {depthOrderedFns[i + 1] : i \in file}
          /\ \A i \in file : i \in 1 .. Len(depthOrderedFns) - 1
      BY <2>2
    <3>2. ASSUME NEW i \in file PROVE depthOrderedFns[i + 1] \in InOrder
      <4>1. i + 1 \in 1 .. Len(depthOrderedFns)
        BY <1>2, <3>1
      <4> QED BY <1>2, <4>1, Elements DEF InOrder
    <3> QED BY <3>1, <3>2
  <2> QED BY <2>1, <2>2
<1>5. orderedFns' = sortInDepthOrderFns(fnsToCheck', depthOrderedFns)
  OBVIOUS
<1>6. orderedFns' \in Seq(Fns) /\ ToSet(orderedFns') = fnsToCheck'
  BY <1>2, <1>4, <1>5, SortedFns DEF InOrder
<1> QED BY <1>3, <1>4, <1>6

LEMMA HoistingStarts ==
  ASSUME InlinerInv, getFunctionsToInline
  PROVE  InlinerInv'
<1>1. /\ stage = "carried" /\ stage' = "hoist" /\ ~inlined /\ fnsToAvoid' = {} /\ fnIndex' = 1
      /\ UNCHANGED <<options, program, before, file, result, graph, orders,
                     fnsAffected, inlined, current>>
  BY DEF getFunctionsToInline
<1>2. Types /\ Phases /\ TablesInv /\ WalkInv /\ UnlessBlocked
  BY <1>1 DEF InlinerInv, InPass
<1>3. childF' = childF /\ parents' = parents /\ inlinedInParents' = inlinedInParents
      /\ file' = file /\ inlined' = inlined /\ parentFns' = parentFns
      /\ preOrderedLoops' = preOrderedLoops
  BY <1>1 DEF current, graph
<1>4. /\ fnsToCheck' \in SUBSET InOrder
      /\ orderedFns' \in Seq(Fns) /\ ToSet(orderedFns)' = fnsToCheck'
      /\ file = NoFile => fnsToCheck' = {f \in Fns : preOrderedLoops[f] > 0}
  BY FunctionsToInline
<1>5. Walking
  BY <1>1 DEF Walking, InPass
<1>6. InOrder \subseteq Fns
  BY <1>2, Elements DEF Types, InOrder
<1>7. fnsToCheck' \in SUBSET Fns /\ fnIndex' \in 1 .. Len(orderedFns') + 1
      /\ fnsToAvoid' \in SUBSET Fns /\ ToSet(orderedFns)' \subseteq InOrder
  BY <1>1, <1>4, <1>6
<1>8. Phases'
  BY <1>1, <1>2, <1>3 DEF Phases
<1>9. Blocked' = Blocked
  BY <1>5, SameBlocked DEF Walking
<1>10. ASSUME ~Blocked PROVE HoistInv'
  <2>1. file = NoFile /\ inlinedInParents
    BY <1>1, <1>2, <1>10 DEF UnlessBlocked, Phases
  <2>2. Ahead' = fnsToCheck'
    <3>1. \A x : x \in ToSet(orderedFns') <=> \E j \in 1 .. Len(orderedFns') : orderedFns'[j] = x
      BY <1>4, Elements
    <3> QED BY <1>1, <1>4, <3>1 DEF Ahead
  <2> QED BY <1>1, <1>3, <1>4, <2>1, <2>2 DEF HoistInv
<1>11. UnlessBlocked'
  BY <1>1, <1>2, <1>3, <1>9, <1>10 DEF UnlessBlocked
<1>12. FileNamesTheRemaining'
  BY <1>1 DEF FileNamesTheRemaining
<1>13. /\ childF' \in Fns \cup {NoFn} /\ parents' \in SUBSET Fns /\ inlinedInParents' \in BOOLEAN
       /\ stage' \in {"start", "carried", "hoist", "exit", "done", "assertFailed"}
  BY <1>1, <1>2, <1>3 DEF Types
<1>14. parents' \subseteq InOrder /\ childF' \in InOrder \cup {NoFn}
  BY <1>2, <1>3 DEF WalkInv
<1> QED BY <1>4, <1>5, <1>7, <1>8, <1>11, <1>12, <1>13, <1>14, WalkingStep

\* A step of the hoisting that inlines nothing: what is left to show of it.
Hoisting ==
  /\ stage = "hoist"
  /\ UNCHANGED <<options, program, before, file, stage, result, graph, orders,
                 fnsAffected, orderedFns, inlined>>

LEMMA HoistingStep ==
  ASSUME InlinerInv, Hoisting,
         fnsToCheck' \in SUBSET Fns, fnIndex' \in 1 .. Len(orderedFns) + 1,
         fnsToAvoid' \in SUBSET Fns, childF' \in InOrder \cup {NoFn}, parents' \in SUBSET InOrder,
         inlinedInParents' \in BOOLEAN,
         ~Blocked => HoistInv'
  PROVE  InlinerInv'
<1>1. Types /\ Phases /\ WalkInv /\ UnlessBlocked
  BY DEF InlinerInv, InPass, Hoisting
<1>2. stage = "hoist" /\ stage' = "hoist" /\ orderedFns' = orderedFns /\ file' = file
      /\ UNCHANGED <<options, program, before, file, result, graph, orders, fnsAffected, inlined>>
  BY DEF Hoisting
<1>3. Walking
  BY <1>2 DEF Walking, InPass
<1>4. Blocked' = Blocked
  BY <1>3, SameBlocked DEF Walking
<1>5. Phases'
  BY <1>2 DEF Phases
<1>6. UnlessBlocked'
  BY <1>1, <1>2, <1>4 DEF UnlessBlocked
<1>7. FileNamesTheRemaining'
  BY <1>2 DEF FileNamesTheRemaining
<1>8. InOrder \subseteq Fns
  BY <1>1, Elements DEF Types, InOrder
<1>9. /\ childF' \in Fns \cup {NoFn} /\ parents' \in SUBSET Fns /\ orderedFns' \in Seq(Fns)
      /\ fnIndex' \in 1 .. Len(orderedFns') + 1
      /\ stage' \in {"start", "carried", "hoist", "exit", "done", "assertFailed"}
  BY <1>1, <1>2, <1>8 DEF Types
<1>10. ToSet(orderedFns)' \subseteq InOrder /\ parents' \subseteq InOrder
  BY <1>1, <1>2 DEF WalkInv
<1> QED BY <1>3, <1>5, <1>6, <1>7, <1>9, <1>10, WalkingStep

LEMMA ParentsAreInOrder ==
  ASSUME TablesInv, Types, NEW f \in InOrder
  PROVE  parentFns[f] \in SUBSET InOrder /\ f \in Fns /\ f # NoFn
<1>1. f \in Fns
  BY Elements DEF Types, InOrder
<1> QED BY <1>1 DEF TablesInv, TableOf, Fns, NoFn

LEMMA TakeChildStep ==
  ASSUME InlinerInv, TakeChild
  PROVE  InlinerInv'
<1> DEFINE f == orderedFns[fnIndex]
<1>1. /\ stage = "hoist" /\ childF = NoFn /\ fnIndex <= Len(orderedFns) /\ fnIndex' = fnIndex + 1
      /\ IF f \in fnsToAvoid
         THEN fnsToAvoid' = fnsToAvoid \cup parentFns[f] /\ UNCHANGED current
         ELSE /\ childF' = f /\ parents' = parentFns[f] /\ inlinedInParents' = TRUE
              /\ UNCHANGED fnsToAvoid
      /\ UNCHANGED <<options, program, before, file, stage, result, graph, orders,
                     fnsAffected, fnsToCheck, orderedFns, fnsWillCheck, inlined>>
  BY DEF TakeChild
<1>2. Types /\ TablesInv /\ WalkInv /\ UnlessBlocked
  BY <1>1 DEF InlinerInv, InPass
<1>3. Hoisting
  BY <1>1 DEF Hoisting
<1>4. fnIndex \in 1 .. Len(orderedFns) /\ Len(orderedFns) \in Nat /\ orderedFns \in Seq(Fns)
  BY <1>1, <1>2 DEF Types
<1>5. f \in InOrder
  BY <1>2, <1>4, Elements DEF WalkInv
<1>6. parentFns[f] \in SUBSET InOrder /\ f \in Fns /\ f # NoFn /\ parentFns[f] \in SUBSET Fns
  BY <1>2, <1>5, ParentsAreInOrder DEF Types
<1>7. fnIndex' \in 1 .. Len(orderedFns) + 1
  BY <1>1, <1>4
<1>8. fnsToAvoid' \in SUBSET Fns /\ fnsToCheck' \in SUBSET Fns
  BY <1>1, <1>2, <1>6 DEF Types
<1>9. childF' \in InOrder \cup {NoFn} /\ parents' \in SUBSET InOrder /\ inlinedInParents' \in BOOLEAN
  BY <1>1, <1>2, <1>5, <1>6 DEF Types, WalkInv, current
<1>10. ASSUME ~Blocked PROVE HoistInv'
  <2>1. HoistInv
    BY <1>1, <1>2, <1>10 DEF UnlessBlocked
  <2>2. childF' = f /\ parents' = parentFns[f] /\ inlinedInParents' = TRUE /\ fnsToAvoid' = {}
        /\ fnsToCheck' = fnsToCheck /\ inlined' = inlined
    BY <1>1, <2>1 DEF HoistInv
  <2>3. parentFns' = parentFns /\ preOrderedLoops' = preOrderedLoops
    BY <1>1 DEF graph
  <2>4. \A g, h : Useless(g, h)' = Useless(g, h)
    BY <1>1, SameTables
  <2>5. Ahead \subseteq Ahead' \cup {f}
    <3>1. \A j \in fnIndex .. Len(orderedFns) : j = fnIndex \/ j \in fnIndex + 1 .. Len(orderedFns)
      BY <1>4
    <3> QED BY <1>1, <3>1 DEF Ahead
  <2>6. fnsToCheck' \subseteq Ahead' \cup {childF'}
    <3>1. fnsToCheck \subseteq Ahead \cup {childF} /\ NoFn \notin fnsToCheck
      BY <1>2, <2>1 DEF HoistInv, Types, Fns, NoFn
    <3> QED BY <1>1, <2>2, <2>5, <3>1
  <2>7. ASSUME ~inlined, NEW h \in Fns, preOrderedLoops[h] > 0, h \notin Ahead',
               NEW g \in parentFns[h]
        PROVE  (h = childF' /\ g \in parents') \/ Useless(g, h)'
    <3>1. CASE h = f
      BY <2>2, <3>1
    <3>2. CASE h # f
      <4>1. h \notin Ahead /\ h # childF
        BY <1>1, <2>5, <2>7, <3>2 DEF Fns, NoFn
      <4>2. Useless(g, h)
        BY <2>1, <2>7, <4>1 DEF HoistInv
      <4> QED BY <2>4, <4>2
    <3> QED BY <3>1, <3>2
  <2> QED BY <2>2, <2>3, <2>6, <2>7 DEF HoistInv
<1> QED BY <1>3, <1>7, <1>8, <1>9, <1>10, HoistingStep

LEMMA SkipParentStep ==
  ASSUME InlinerInv, NEW parentF \in Fns, SkipParent(parentF)
  PROVE  InlinerInv'
<1>1. /\ stage = "hoist" /\ childF # NoFn /\ Skipped(parentF) /\ parents' = parents \ {parentF}
      /\ UNCHANGED <<options, program, before, file, stage, result, graph, orders,
                     fnsAffected, fnsToCheck, walk, inlined, childF, inlinedInParents>>
  BY DEF SkipParent
<1>2. Types /\ Changes /\ WalkInv /\ UnlessBlocked
  BY <1>1 DEF InlinerInv, InPass
<1>3. orderedFns' = orderedFns /\ fnIndex' = fnIndex /\ fnsToAvoid' = fnsToAvoid
      /\ parentFns' = parentFns /\ preOrderedLoops' = preOrderedLoops
  BY <1>1 DEF walk, graph
<1>4. Hoisting
  BY <1>1, <1>3 DEF Hoisting
<1>5. /\ fnsToCheck' \in SUBSET Fns /\ fnIndex' \in 1 .. Len(orderedFns) + 1
      /\ fnsToAvoid' \in SUBSET Fns /\ childF' \in InOrder \cup {NoFn}
      /\ parents' \in SUBSET InOrder /\ inlinedInParents' \in BOOLEAN
  BY <1>1, <1>2, <1>3 DEF Types, WalkInv
<1>6. ASSUME ~Blocked PROVE HoistInv'
  <2>1. HoistInv
    BY <1>1, <1>2, <1>6 DEF UnlessBlocked
  <2>2. Ahead' = Ahead
    BY <1>3 DEF Ahead
  <2>3. \A g, h : Useless(g, h)' = Useless(g, h)
    BY <1>1, SameTables
  <2>4. ~inlined => Useless(parentF, childF)
    BY <1>1, <1>2 DEF Skipped, Changes, canInlineWithoutRecursiveLoop, Useless
  <2>5. ASSUME ~inlined, NEW h \in Fns, preOrderedLoops[h] > 0, h \notin Ahead,
               NEW g \in parentFns[h]
        PROVE  (h = childF /\ g \in parents') \/ Useless(g, h)
    <3>1. (h = childF /\ g \in parents) \/ Useless(g, h)
      BY <2>1, <2>5 DEF HoistInv
    <3> QED BY <1>1, <2>4, <2>5, <3>1
  <2> QED BY <1>1, <1>3, <2>1, <2>2, <2>3, <2>5 DEF HoistInv
<1> QED BY <1>4, <1>5, <1>6, HoistingStep

\* A parent is avoided only if something is blocked.
LEMMA AvoidParentStep ==
  ASSUME InlinerInv, NEW parentF \in Fns, AvoidParent(parentF)
  PROVE  InlinerInv'
<1>1. /\ stage = "hoist" /\ childF # NoFn /\ parentF \in parents
      /\ ~Skipped(parentF) /\ ~CanInline(parentF, childF)
      /\ fnsToAvoid' = fnsToAvoid \cup {parentF} /\ inlinedInParents' = FALSE
      /\ parents' = parents \ {parentF}
      /\ UNCHANGED <<options, program, before, file, stage, result, graph, orders,
                     fnsAffected, fnsToCheck, orderedFns, fnIndex, fnsWillCheck,
                     inlined, childF>>
  BY DEF AvoidParent
<1>2. Types /\ WalkInv /\ BlockedInv
  BY <1>1 DEF InlinerInv, InPass
<1>3. Hoisting
  BY <1>1 DEF Hoisting
<1>4. /\ fnsToCheck' \in SUBSET Fns /\ fnIndex' \in 1 .. Len(orderedFns) + 1
      /\ fnsToAvoid' \in SUBSET Fns /\ childF' \in InOrder \cup {NoFn}
      /\ parents' \in SUBSET InOrder /\ inlinedInParents' \in BOOLEAN
  BY <1>1, <1>2 DEF Types, WalkInv
<1>5. Blocked
  <2>1. parentF \notin fnsAffected /\ canInlineWithoutRecursiveLoop(childF)
    BY <1>1 DEF Skipped
  <2>2. parentF \in InOrder /\ childF \in InOrder
    BY <1>1, <1>2 DEF WalkInv
  <2>3. childF \in opaque \/ ~(size[parentF] <= MaxFunctionInstructions)
    BY <1>1, <2>1 DEF CanInline
  <2>4. size[parentF] \in Nat /\ MaxFunctionInstructions \in Nat
    BY <1>2, InlinerAssumption DEF Types, InlinerAssumption
  <2>5. childF \in opaque \/ Blocks(parentF)
    BY <2>3, <2>4 DEF Blocks
  <2> QED BY <1>2, <2>1, <2>2, <2>5 DEF BlockedInv
<1> QED BY <1>3, <1>4, <1>5, HoistingStep

LEMMA LeaveChildStep ==
  ASSUME InlinerInv, LeaveChild
  PROVE  InlinerInv'
<1>1. /\ stage = "hoist" /\ childF # NoFn /\ parents = {} /\ childF' = NoFn
      /\ fnsToCheck' = IF inlinedInParents THEN fnsToCheck \ {childF} ELSE fnsToCheck
      /\ UNCHANGED <<options, program, before, file, stage, result, graph, orders,
                     fnsAffected, walk, inlined, parents, inlinedInParents>>
  BY DEF LeaveChild
<1>2. Types /\ WalkInv /\ UnlessBlocked
  BY <1>1 DEF InlinerInv, InPass
<1>3. orderedFns' = orderedFns /\ fnIndex' = fnIndex /\ fnsToAvoid' = fnsToAvoid
      /\ parentFns' = parentFns /\ preOrderedLoops' = preOrderedLoops
  BY <1>1 DEF walk, graph
<1>4. Hoisting
  BY <1>1, <1>3 DEF Hoisting
<1>5. /\ fnsToCheck' \in SUBSET Fns /\ fnIndex' \in 1 .. Len(orderedFns) + 1
      /\ fnsToAvoid' \in SUBSET Fns /\ childF' \in InOrder \cup {NoFn}
      /\ parents' \in SUBSET InOrder /\ inlinedInParents' \in BOOLEAN
  BY <1>1, <1>2, <1>3 DEF Types, WalkInv
<1>6. ASSUME ~Blocked PROVE HoistInv'
  <2>1. HoistInv
    BY <1>1, <1>2, <1>6 DEF UnlessBlocked
  <2>2. Ahead' = Ahead
    BY <1>3 DEF Ahead
  <2>3. \A g, h : Useless(g, h)' = Useless(g, h)
    BY <1>1, SameTables
  <2>4. fnsToCheck' = fnsToCheck \ {childF}
    BY <1>1, <2>1 DEF HoistInv
  <2>5. fnsToCheck' \subseteq Ahead'
    BY <2>1, <2>2, <2>4 DEF HoistInv
  <2>6. ASSUME ~inlined, NEW h \in Fns, preOrderedLoops[h] > 0, h \notin Ahead,
               NEW g \in parentFns[h]
        PROVE  Useless(g, h)
    BY <1>1, <2>1, <2>6 DEF HoistInv
  <2> QED BY <1>1, <1>3, <2>1, <2>2, <2>3, <2>5, <2>6 DEF HoistInv
<1> QED BY <1>4, <1>5, <1>6, HoistingStep

-----------------------------------------------------------------------------
(* The end of a pass.                                                      *)

\* The places of a set of functions name those of them that are in the order and
\* are not main.
NamedBy(called, order, fns) ==
  /\ Remaining(fns, order) \subseteq 1 .. N - 1
  /\ {order[i + 1] : i \in Remaining(fns, order)} = (fns \ {main}) \cap ProgramFns(called)

LEMMA RemainingNamed ==
  ASSUME NEW called, NEW r, OrderOf(called, r), NEW fns \in SUBSET Fns
  PROVE  NamedBy(called, r.order, fns)
<1>1. /\ r.order \in Seq(Fns) /\ r.order[1] = main /\ IsInjective(r.order)
      /\ ToSet(r.order) = ProgramFns(called)
  BY DEF OrderOf
<1>2. Len(r.order) \in Nat /\ Len(r.order) <= N /\ N \in Nat
  BY <1>1, OrderIsShort, MainIsAFunction
<1>3. ASSUME NEW f \in fns, OrderIn(r.order, f) # 0
      PROVE  /\ OrderIn(r.order, f) \in 1 .. N - 1
             /\ r.order[OrderIn(r.order, f) + 1] = f
             /\ f \in ProgramFns(called) /\ f # main
  <2>1. f \in ToSet(r.order)
    BY <1>3 DEF OrderIn
  <2>2. PICK i \in 1 .. Len(r.order) : r.order[i] = f
    BY <1>1, <2>1, Elements
  <2>3. OrderIn(r.order, f) = i - 1
    BY <1>1, <2>2, PlaceInOrder
  <2>4. i # 1 /\ i \in 2 .. Len(r.order)
    BY <1>2, <1>3, <2>3
  <2>5. f # main
    BY <1>1, <1>2, <2>2, <2>4 DEF IsInjective
  <2>6. OrderIn(r.order, f) \in 1 .. N - 1 /\ OrderIn(r.order, f) + 1 = i
    BY <1>2, <2>3, <2>4
  <2> QED BY <1>1, <2>1, <2>2, <2>5, <2>6
<1>4. ASSUME NEW f \in fns, f # main, f \in ProgramFns(called)
      PROVE  OrderIn(r.order, f) # 0
  <2>1. PICK i \in 1 .. Len(r.order) : r.order[i] = f
    BY <1>1, <1>4, Elements
  <2>2. OrderIn(r.order, f) = i - 1 /\ i # 1
    BY <1>1, <1>4, <2>1, PlaceInOrder
  <2> QED BY <1>2, <2>2
<1> QED BY <1>3, <1>4 DEF NamedBy, Remaining

\* All loops have been hoisted once nothing is left to do.
LEMMA NothingLeft ==
  ASSUME Types, TablesInv, ~inlined, HoistInv, childF = NoFn, Ahead = {}
  PROVE  Hoisted
<1> SUFFICES ASSUME NEW f \in ProgramFns(Called), f # main, Loops(f) # 0,
                    f \notin recursiveChainEntranceFns
             PROVE  FALSE
  BY DEF Hoisted
<1>1. Called \in [Fns -> Seq(Fns)]
  BY CalleesTypes DEF Types, Called
<1>2. InOrder \in SUBSET Fns
  BY Elements DEF Types, InOrder
<1>3. main \in InOrder
  <2>1. Len(depthOrderedFns) \in Nat \ {0} /\ depthOrderedFns[1] = main /\ depthOrderedFns \in Seq(Fns)
    BY DEF Types, TablesInv
  <2> QED BY <2>1, Elements DEF InOrder
<1>4. ProgramFns(Called) \subseteq InOrder
  BY <1>2, <1>3, ReachedLeast DEF TablesInv
<1>5. PICK g \in ProgramFns(Called) : f \in ToSet(Called[g])
  BY <1>1, ReachedThroughACaller
<1>6. f \in InOrder /\ g \in InOrder /\ f \in Fns /\ g \in Fns /\ f # childF
  <2>1. f \in InOrder /\ g \in InOrder /\ f \in Fns /\ g \in Fns
    BY <1>2, <1>4
  <2> QED BY <2>1 DEF Fns, NoFn
<1>7. TableOf(f)
  BY <1>6 DEF TablesInv
<1>8. g \in parentFns[f] /\ preOrderedLoops[f] = Loops(f)
  BY <1>5, <1>6, <1>7 DEF TableOf
<1>9. fnOrders(g) < fnOrders(f)
  BY <1>6, <1>8 DEF TablesInv
<1>10. fnOrders(g) \in Nat /\ fnOrders(f) \in Nat
  BY PlaceInOrder DEF fnOrders, Types, TablesInv
<1>11. ~Useless(g, f)
  BY <1>9, <1>10 DEF Useless
<1>12. preOrderedLoops[f] > 0
  <2>1. preOrderedLoops \in [Fns -> Nat]
    BY Zenon DEF Types
  <2>2. preOrderedLoops[f] \in Nat
    BY <1>6, <2>1
  <2> QED BY <1>8, <2>2
<1>13. f \in Ahead \/ \A k \in parentFns[f] : (f = childF /\ k \in parents) \/ Useless(k, f)
  BY <1>6, <1>12, Zenon DEF HoistInv
<1>14. \A k \in parentFns[f] : Useless(k, f)
  BY <1>6, <1>13
<1> QED BY <1>8, <1>11, <1>14

LEMMA RegisterStep ==
  ASSUME InlinerInv, registerRemainingFunctions
  PROVE  InlinerInv'
<1> DEFINE r == collectInDepthOrderFns(Called)
<1>1. /\ stage = "hoist" /\ childF = NoFn /\ fnIndex > Len(orderedFns)
      /\ IF inlined THEN /\ orderedCalled' = CollectedCalled(Called)
                         /\ parentFns' = CollectedParents(Called)
         ELSE UNCHANGED <<orderedCalled, parentFns>>
      /\ depthOrderedFns' = OrderAfterHoisting.order
      /\ recursiveChainEntranceFns' = OrderAfterHoisting.entrances
      /\ file' = RegisteredFile(Remaining(fnsToCheck, OrderAfterHoisting.order))
      /\ stage' = "exit"
      /\ UNCHANGED <<options, program, before, preOrderedLoops, fnsAffected,
                     fnsToCheck, walk, inlined, current>>
  BY DEF registerRemainingFunctions, Called
<1>2. Types /\ Phases /\ Changes /\ TablesInv /\ WalkInv /\ UnlessBlocked
  BY <1>1 DEF InlinerInv, InPass
<1>3. /\ calls' = calls /\ loops' = loops /\ size' = size /\ opaque' = opaque /\ hoist' = hoist
      /\ before' = before /\ fnsAffected' = fnsAffected /\ inlined' = inlined
      /\ preOrderedLoops' = preOrderedLoops
      /\ fnsToCheck' = fnsToCheck /\ orderedFns' = orderedFns /\ fnIndex' = fnIndex
      /\ fnsToAvoid' = fnsToAvoid /\ childF' = childF /\ parents' = parents
      /\ inlinedInParents' = inlinedInParents
  BY <1>1 DEF program, options, walk, current
<1>4. Called \in [Fns -> Seq(Fns)]
  BY <1>2, CalleesTypes DEF Types, Called
<1>5. OrderOf(Called, r)
  BY <1>4, DepthOrderFacts
<1>6. /\ CollectedCalled(Called) \in [Fns -> Seq(Fns)]
      /\ CollectedParents(Called) \in [Fns -> SUBSET Fns]
  BY <1>4, CollectedGraph
<1>7. OrderAfterHoisting.order = r.order
  BY <1>2 DEF OrderAfterHoisting, WalkInv, Called
<1>8. /\ OrderAfterHoisting.entrances = IF inlined THEN r.entrances ELSE recursiveChainEntranceFns
      /\ OrderAfterHoisting.entrances \in SUBSET Fns
  <2>1. OrderAfterHoisting.entrances = IF inlined THEN r.entrances ELSE recursiveChainEntranceFns
    BY DEF OrderAfterHoisting, Called
  <2>2. r.entrances \in SUBSET Fns /\ recursiveChainEntranceFns \in SUBSET Fns
    BY <1>2, <1>5 DEF OrderOf, Types
  <2> QED BY <2>1, <2>2
<1> HIDE DEF r
<1>9. /\ Remaining(fnsToCheck, r.order) \subseteq 1 .. N - 1
      /\ {r.order[i + 1] : i \in Remaining(fnsToCheck, r.order)}
           = (fnsToCheck \ {main}) \cap ProgramFns(Called)
  <2>1. fnsToCheck \in SUBSET Fns
    BY <1>2 DEF Types
  <2>2. NamedBy(Called, r.order, fnsToCheck)
    BY <1>5, <2>1, RemainingNamed
  <2> QED BY <2>2, Zenon DEF NamedBy
<1>10. file' = IF fnsToCheck = {} THEN NoFile ELSE Remaining(fnsToCheck, r.order)
  BY <1>1, <1>7 DEF RegisteredFile
<1>11. Types'
  <2>1. file' = NoFile \/ file' \subseteq 1 .. N - 1
    BY <1>9, <1>10
  <2>2. depthOrderedFns' \in Seq(Fns) /\ recursiveChainEntranceFns' \in SUBSET Fns
    BY <1>1, <1>5, <1>7, <1>8 DEF OrderOf
  <2>3. orderedCalled' \in [Fns -> Seq(Fns)] /\ parentFns' \in [Fns -> SUBSET Fns]
    BY <1>1, <1>2, <1>6 DEF Types
  <2>4. stage' \in {"start", "carried", "hoist", "exit", "done", "assertFailed"}
    BY <1>1
  <2> QED BY <1>2, <1>3, <2>1, <2>2, <2>3, <2>4 DEF Types
<1>12. Phases'
  BY <1>1, <1>3 DEF Phases
<1>13. Changes'
  BY <1>2, <1>3 DEF Changes
<1>14. Called' = Called /\ Blocked' = Blocked /\ \A f : Loops(f)' = Loops(f)
  <2>1. UNCHANGED <<program, opaque>>
    BY <1>1 DEF options
  <2> QED BY <2>1, SameProgram
<1>15. FileNamesTheRemaining'
  <2>1. fnsToCheck # {} =>
          {r.order[i + 1] : i \in file'} = (fnsToCheck \ {main}) \cap ProgramFns(Called)
    BY <1>9, <1>10
  <2>2. Callees(calls) = Called
    BY DEF Called
  <2> QED BY <1>3, <2>1, <2>2 DEF FileNamesTheRemaining, r
<1>16. ASSUME ~Blocked PROVE file' = NoFile /\ (~inlined => Hoisted')
  <2>1. HoistInv
    BY <1>1, <1>2, <1>16 DEF UnlessBlocked
  <2>2. Ahead = {}
    <3>1. fnIndex .. Len(orderedFns) = {}
      BY <1>1, <1>2 DEF Types
    <3> QED BY <3>1 DEF Ahead
  <2>3. fnsToCheck = {}
    BY <1>1, <1>2, <2>1, <2>2 DEF HoistInv, Types, Fns, NoFn
  <2>4. ASSUME ~inlined PROVE Hoisted'
    <3>1. Hoisted
      BY <1>1, <1>2, <2>1, <2>2, <2>4, NothingLeft
    <3>2. recursiveChainEntranceFns' = recursiveChainEntranceFns
      BY <1>1, <1>8, <2>4
    <3> QED BY <1>14, <3>1, <3>2 DEF Hoisted
  <2> QED BY <1>10, <2>3, <2>4
<1>17. UnlessBlocked'
  BY <1>1, <1>3, <1>14, <1>16 DEF UnlessBlocked
<1>18. ~InPass'
  BY <1>1 DEF InPass
<1> QED BY <1>11, <1>12, <1>13, <1>15, <1>17, <1>18 DEF InlinerInv

LEMMA RunAgainStep ==
  ASSUME InlinerInv, RunAgain
  PROVE  InlinerInv'
<1> USE DEF RunAgain
<1>1. Types /\ Phases /\ UnlessBlocked
  BY DEF InlinerInv
<1>2. /\ calls' = calls /\ loops' = loops /\ size' = size /\ opaque' = opaque /\ hoist' = hoist
      /\ before' = calls /\ file' = file /\ childF' = childF /\ stage' = "start"
  BY DEF program, options
<1>3. Types'
  <2>1. /\ orderedCalled' \in [Fns -> Seq(Fns)] /\ parentFns' \in [Fns -> SUBSET Fns]
        /\ preOrderedLoops' \in [Fns -> Nat]
    OBVIOUS
  <2>2. /\ depthOrderedFns' \in Seq(Fns) /\ orderedFns' \in Seq(Fns)
        /\ fnIndex' \in 1 .. Len(orderedFns') + 1
    OBVIOUS
  <2>3. /\ recursiveChainEntranceFns' \in SUBSET Fns /\ fnsAffected' \in SUBSET Fns
        /\ fnsToCheck' \in SUBSET Fns /\ fnsToAvoid' \in SUBSET Fns /\ parents' \in SUBSET Fns
        /\ inlined' \in BOOLEAN /\ inlinedInParents' \in BOOLEAN
        /\ stage' \in {"start", "carried", "hoist", "exit", "done", "assertFailed"}
    OBVIOUS
  <2> QED BY <1>1, <1>2, <2>1, <2>2, <2>3 DEF Types
<1>4. Phases'
  BY <1>1, <1>2 DEF Phases
<1>5. Changes'
  BY <1>2 DEF Changes
<1>6. Blocked' = Blocked
  <2>1. UNCHANGED <<program, opaque>>
    BY DEF options
  <2> QED BY <2>1, SameProgram
<1>7. UnlessBlocked'
  BY <1>1, <1>2, <1>6 DEF UnlessBlocked
<1>8. FileNamesTheRemaining'
  BY <1>2 DEF FileNamesTheRemaining
<1>9. ~InPass'
  BY <1>2 DEF InPass
<1> QED BY <1>3, <1>4, <1>5, <1>7, <1>8, <1>9 DEF InlinerInv

\* The program of the last pass is the one it started with: it inlined nothing.
LEMMA FixedPointStep ==
  ASSUME InlinerInv, FixedPoint
  PROVE  InlinerInv'
<1>1. /\ stage = "exit" /\ calls = before /\ stage' = "done"
      /\ UNCHANGED <<options, program, before, file, result, graph, orders,
                     fnsAffected, fnsToCheck, walk, inlined, current>>
  BY DEF FixedPoint
<1>2. Types /\ Phases /\ Changes /\ UnlessBlocked
  BY DEF InlinerInv
<1>3. /\ calls' = calls /\ loops' = loops /\ size' = size /\ opaque' = opaque /\ hoist' = hoist
      /\ before' = before /\ file' = file /\ fnsAffected' = fnsAffected /\ inlined' = inlined
      /\ orderedCalled' = orderedCalled /\ parentFns' = parentFns
      /\ preOrderedLoops' = preOrderedLoops /\ depthOrderedFns' = depthOrderedFns
      /\ recursiveChainEntranceFns' = recursiveChainEntranceFns
      /\ fnsToCheck' = fnsToCheck /\ orderedFns' = orderedFns /\ fnIndex' = fnIndex
      /\ fnsToAvoid' = fnsToAvoid /\ childF' = childF /\ parents' = parents
      /\ inlinedInParents' = inlinedInParents
  BY <1>1 DEF program, options, graph, orders, walk, current
<1>4. Types'
  <2>1. stage' \in {"start", "carried", "hoist", "exit", "done", "assertFailed"}
    BY <1>1
  <2> QED BY <1>2, <1>3, <2>1 DEF Types
<1>5. ~inlined
  <2>1. fnsAffected = {}
    BY <1>1, <1>2 DEF Changes, Types
  <2> QED BY <1>2, <2>1 DEF Changes
<1>6. Phases'
  BY <1>1, <1>2, <1>3, <1>5 DEF Phases
<1>7. Changes'
  BY <1>2, <1>3 DEF Changes
<1>8. Blocked' = Blocked /\ TooBig' = TooBig
  <2>1. UNCHANGED <<program, opaque>>
    BY <1>1 DEF options
  <2> QED BY <2>1, SameProgram
<1>9. Hoisted' = Hoisted
  BY <1>1, SameTables
<1>10. UnlessBlocked'
  BY <1>1, <1>2, <1>3, <1>8, <1>9 DEF UnlessBlocked
<1>11. FileNamesTheRemaining'
  BY <1>1 DEF FileNamesTheRemaining
<1>12. ~InPass'
  BY <1>1 DEF InPass
<1> QED BY <1>4, <1>6, <1>7, <1>10, <1>11, <1>12 DEF InlinerInv

LEMMA StutteringStep ==
  ASSUME InlinerInv, UNCHANGED vars
  PROVE  InlinerInv'
<1>1. /\ stage' = stage /\ result' = result
      /\ UNCHANGED <<options, program, graph, orders, fnsAffected>>
      /\ UNCHANGED <<options, program, graph, orders>>
      /\ UNCHANGED <<options, program, orders, fnsAffected>>
      /\ UNCHANGED <<program, opaque>>
  BY DEF vars, options
<1>2. /\ calls' = calls /\ loops' = loops /\ size' = size /\ opaque' = opaque /\ hoist' = hoist
      /\ before' = before /\ file' = file /\ fnsAffected' = fnsAffected /\ inlined' = inlined
      /\ orderedCalled' = orderedCalled /\ parentFns' = parentFns
      /\ preOrderedLoops' = preOrderedLoops /\ depthOrderedFns' = depthOrderedFns
      /\ recursiveChainEntranceFns' = recursiveChainEntranceFns
      /\ fnsToCheck' = fnsToCheck /\ orderedFns' = orderedFns /\ fnIndex' = fnIndex
      /\ fnsToAvoid' = fnsToAvoid /\ childF' = childF /\ parents' = parents
      /\ inlinedInParents' = inlinedInParents
  BY DEF vars, program, options, graph, orders, walk, current
<1>3. /\ Called' = Called /\ Blocked' = Blocked /\ TooBig' = TooBig
      /\ TablesInv' = TablesInv /\ InOrder' = InOrder /\ Hoisted' = Hoisted
      /\ (\A f, g : Useless(g, f)' = Useless(g, f))
      /\ BlockedInv' = BlockedInv
  BY <1>1, SameProgram, SameTables, SameBlocked
<1>4. Types' /\ Phases' /\ Changes'
  <2>1. Types /\ Phases /\ Changes
    BY DEF InlinerInv
  <2>2. Types'
    BY <1>1, <1>2, <2>1 DEF Types
  <2> QED BY <1>1, <1>2, <2>1, <2>2 DEF Phases, Changes
<1>5. InPass => WalkInv'
  BY <1>2, <1>3 DEF InlinerInv, WalkInv
<1>6. HoistInv' = HoistInv
  <2>1. Ahead' = Ahead
    BY <1>2 DEF Ahead
  <2> QED BY <1>2, <1>3, <2>1 DEF HoistInv
<1>7. UnlessBlocked'
  BY <1>1, <1>2, <1>3, <1>6 DEF InlinerInv, UnlessBlocked
<1>8. FileNamesTheRemaining'
  BY <1>1, <1>2 DEF InlinerInv, FileNamesTheRemaining
<1>9. InPass' = InPass
  BY <1>1 DEF InPass
<1> QED BY <1>3, <1>4, <1>5, <1>7, <1>8, <1>9 DEF InlinerInv

-----------------------------------------------------------------------------
(* Inlining a call keeps the tables in step with the program.              *)

\* The call with index i in f, of a function that is not f and is not in front of
\* it in the order, is inlined.
Inlining(f, i, c) ==
  /\ f \in InOrder /\ i \in DOMAIN calls[f] /\ c = calls[f][i].callee
  /\ c # f /\ fnOrders(f) <= fnOrders(c)
  /\ inlineFunctionCall(f, i)
  /\ UNCHANGED <<options, before, orders>>

\* The program after the inlining.
Inlined(f, i, c) ==
  /\ f \in InOrder /\ c \in InOrder /\ InOrder \in SUBSET Fns /\ f \in Fns /\ c \in Fns
  /\ IsInlined(calls, f, i, c, calls')
  /\ size' = [size EXCEPT ![f] = size[f] + size[c]]
  /\ loops' = [loops EXCEPT ![f] = [hot |-> loops[f].hot + loops[c].hot,
                                    cold |-> loops[f].cold + loops[c].cold]]
  /\ preOrderedLoops' = [preOrderedLoops EXCEPT ![f] = preOrderedLoops[f] + preOrderedLoops[c]]
  /\ Called \in [Fns -> Seq(Fns)] /\ Called' \in [Fns -> Seq(Fns)]
  /\ Replaced(Called, f, c, Called')
  /\ Splice(orderedCalled[f], i, orderedCalled[c]) = Called'[f]

LEMMA InliningChanges ==
  ASSUME Types, TablesInv, NEW f, NEW i, NEW c, Inlining(f, i, c)
  PROVE  Inlined(f, i, c)
<1>1. /\ f \in InOrder /\ i \in DOMAIN calls[f] /\ c = calls[f][i].callee /\ c # f
      /\ inlineFunctionCall(f, i)
  BY DEF Inlining
<1>2. InOrder \in SUBSET Fns /\ f \in Fns /\ calls \in [Fns -> Seq(Call)]
  <2>1. InOrder \in SUBSET Fns
    BY Elements DEF Types, InOrder
  <2> QED BY <1>1, <2>1 DEF Types
<1>3. i \in 1 .. Len(calls[f])
  <2>1. calls[f] \in Seq(Call)
    BY <1>2
  <2> QED BY <1>1, <2>1
<1>4. /\ c \in Fns /\ Called[f][i] = c /\ c \in ToSet(Called[f]) /\ Called \in [Fns -> Seq(Fns)]
      /\ i \in 1 .. Len(Called[f])
  BY <1>1, <1>2, <1>3, CalleesTypes DEF Called
<1>5. c \in InOrder
  BY <1>1, <1>4 DEF TablesInv, Closed
<1>6. calls' = AfterInline(calls, f, i)
  BY <1>1, Zenon DEF inlineFunctionCall, InlineFunction, AfterInline, CopyOf
<1>7. /\ size' = [size EXCEPT ![f] = size[f] + size[c]]
      /\ loops' = [loops EXCEPT ![f] = [hot |-> loops[f].hot + loops[c].hot,
                                        cold |-> loops[f].cold + loops[c].cold]]
      /\ preOrderedLoops' = [preOrderedLoops EXCEPT ![f] = preOrderedLoops[f] + preOrderedLoops[c]]
  BY <1>1, Zenon DEF inlineFunctionCall, InlineFunction, adjustLoopOrdersAfterInline
<1>8. IsInlined(calls, f, i, c, calls')
  BY <1>1, <1>2, <1>3, <1>4, <1>6, InlinedCalls
<1>9. Called' = [Called EXCEPT ![f] = Splice(Called[f], i, Called[c])]
  BY <1>8, Zenon DEF IsInlined, Called
<1>10. Called' \in [Fns -> Seq(Fns)] /\ Replaced(Called, f, c, Called')
  BY <1>1, <1>2, <1>4, <1>9, SpliceReplaces
<1>11. Splice(orderedCalled[f], i, orderedCalled[c]) = Called'[f]
  <2>1. orderedCalled[f] = Called[f] /\ orderedCalled[c] = Called[c]
    BY <1>1, <1>5 DEF TablesInv, TableOf
  <2> QED BY <1>2, <1>4, <1>9, <2>1
<1> QED BY <1>1, <1>2, <1>4, <1>5, <1>7, <1>8, <1>10, <1>11, Zenon DEF Inlined

LEMMA InliningTypes ==
  ASSUME Types, TablesInv, NEW f, NEW i, NEW c, Inlining(f, i, c)
  PROVE  /\ calls' \in [Fns -> Seq(Call)] /\ before' \in [Fns -> Seq(Call)]
         /\ loops' \in [Fns -> [hot : Nat, cold : Nat]] /\ size' \in [Fns -> Nat]
         /\ opaque' \in SUBSET Fns /\ hoist' \in BOOLEAN
         /\ orderedCalled' \in [Fns -> Seq(Fns)] /\ parentFns' \in [Fns -> SUBSET Fns]
         /\ preOrderedLoops' \in [Fns -> Nat]
         /\ depthOrderedFns' \in Seq(Fns) /\ recursiveChainEntranceFns' \in SUBSET Fns
         /\ fnsAffected' \in SUBSET Fns /\ inlined' \in BOOLEAN
<1>1. Inlined(f, i, c) /\ f \in Fns /\ c \in Fns
  BY InliningChanges DEF Inlined
<1>2. c = calls[f][i].callee /\ inlineFunctionCall(f, i)
      /\ UNCHANGED <<options, before, orders>>
  BY DEF Inlining
<1>3. calls' \in [Fns -> Seq(Call)]
  BY <1>1, Zenon DEF Inlined, IsInlined
<1>4. size' \in [Fns -> Nat] /\ preOrderedLoops' \in [Fns -> Nat]
  <2>1. /\ size' = [size EXCEPT ![f] = size[f] + size[c]]
        /\ preOrderedLoops' = [preOrderedLoops EXCEPT ![f] = preOrderedLoops[f] + preOrderedLoops[c]]
    BY <1>1, Zenon DEF Inlined
  <2>2. size \in [Fns -> Nat] /\ preOrderedLoops \in [Fns -> Nat]
    BY DEF Types
  <2>3. size[f] + size[c] \in Nat /\ preOrderedLoops[f] + preOrderedLoops[c] \in Nat
    BY <1>1, <2>2
  <2> QED BY <2>1, <2>2, <2>3
<1>5. loops' \in [Fns -> [hot : Nat, cold : Nat]]
  <2>1. loops[f] \in [hot : Nat, cold : Nat] /\ loops[c] \in [hot : Nat, cold : Nat]
        /\ loops \in [Fns -> [hot : Nat, cold : Nat]]
    BY <1>1 DEF Types
  <2> DEFINE l == [hot |-> loops[f].hot + loops[c].hot, cold |-> loops[f].cold + loops[c].cold]
  <2>2. l \in [hot : Nat, cold : Nat]
    <3>1. loops[f].hot \in Nat /\ loops[c].hot \in Nat /\ loops[f].cold \in Nat /\ loops[c].cold \in Nat
      BY <2>1
    <3> QED BY <3>1
  <2>3. loops' = [loops EXCEPT ![f] = l]
    BY <1>1, Zenon DEF Inlined
  <2> HIDE DEF l
  <2> QED BY <2>1, <2>2, <2>3
<1>6. orderedCalled' \in [Fns -> Seq(Fns)] /\ parentFns' \in [Fns -> SUBSET Fns]
  <2> DEFINE s == Splice(orderedCalled[f], i, orderedCalled[c])
  <2>1. s \in Seq(Fns)
    BY <1>1 DEF Inlined
  <2>2. /\ orderedCalled' = [orderedCalled EXCEPT ![f] = s]
        /\ parentFns' = [g \in Fns |-> IF g \in ToSet(s) THEN parentFns[g] \cup {f}
                                       ELSE IF g = c THEN parentFns[g] \ {f}
                                       ELSE parentFns[g]]
    BY <1>2, Zenon DEF inlineFunctionCall, adjustFnGraphAfterInline
  <2> HIDE DEF s
  <2> QED BY <1>1, <2>1, <2>2 DEF Types
<1>7. fnsAffected' \in SUBSET Fns /\ inlined' \in BOOLEAN
  BY <1>1, <1>2 DEF inlineFunctionCall, Types
<1> QED BY <1>2, <1>3, <1>4, <1>5, <1>6, <1>7 DEF Types, options, orders

LEMMA InliningTables ==
  ASSUME Types, TablesInv, NEW f, NEW i, NEW c, Inlining(f, i, c)
  PROVE  TablesInv' /\ InOrder' = InOrder
<1>1. /\ f \in InOrder /\ c \in InOrder /\ InOrder \in SUBSET Fns /\ f \in Fns /\ c \in Fns
      /\ loops' = [loops EXCEPT ![f] = [hot |-> loops[f].hot + loops[c].hot,
                                        cold |-> loops[f].cold + loops[c].cold]]
      /\ preOrderedLoops' = [preOrderedLoops EXCEPT ![f] = preOrderedLoops[f] + preOrderedLoops[c]]
      /\ Called \in [Fns -> Seq(Fns)] /\ Called' \in [Fns -> Seq(Fns)]
      /\ Replaced(Called, f, c, Called')
      /\ Splice(orderedCalled[f], i, orderedCalled[c]) = Called'[f]
  <2>1. Inlined(f, i, c)
    BY InliningChanges
  <2> QED BY <2>1, Zenon DEF Inlined
<1>2. /\ c # f /\ fnOrders(f) <= fnOrders(c) /\ c = calls[f][i].callee
      /\ inlineFunctionCall(f, i) /\ UNCHANGED <<options, before, orders>>
  BY DEF Inlining
<1>3. /\ depthOrderedFns' = depthOrderedFns /\ InOrder' = InOrder
      /\ recursiveChainEntranceFns' = recursiveChainEntranceFns
      /\ \A g : fnOrders(g)' = fnOrders(g)
  BY <1>2 DEF orders, InOrder, fnOrders
<1>4. /\ orderedCalled' = [orderedCalled EXCEPT ![f] = Called'[f]]
      /\ parentFns' = [g \in Fns |-> IF g \in ToSet(Called'[f]) THEN parentFns[g] \cup {f}
                                     ELSE IF g = c THEN parentFns[g] \ {f}
                                     ELSE parentFns[g]]
  <2> DEFINE s == Splice(orderedCalled[f], i, orderedCalled[c])
  <2>1. /\ orderedCalled' = [orderedCalled EXCEPT ![f] = s]
        /\ parentFns' = [g \in Fns |-> IF g \in ToSet(s) THEN parentFns[g] \cup {f}
                                       ELSE IF g = c THEN parentFns[g] \ {f}
                                       ELSE parentFns[g]]
    BY <1>2, Zenon DEF inlineFunctionCall, adjustFnGraphAfterInline
  <2>2. s = Called'[f]
    BY <1>1
  <2> HIDE DEF s
  <2> QED BY <2>1, <2>2
<1>5. \A g \in InOrder : /\ orderedCalled[g] = Called[g] /\ preOrderedLoops[g] = Loops(g)
                         /\ parentFns[g] = {h \in InOrder : g \in ToSet(Called[h])}
  BY DEF TablesInv, TableOf
<1>6. ASSUME NEW g \in InOrder PROVE parentFns'[g] = {h \in InOrder : g \in ToSet(Called'[h])}
  <2>1. ASSUME NEW h PROVE h \in parentFns'[g] <=> h \in InOrder /\ g \in ToSet(Called'[h])
    <3>1. g \in Fns /\ (h \in parentFns[g] <=> h \in InOrder /\ g \in ToSet(Called[h]))
      BY <1>1, <1>5
    <3>2. CASE h # f
      <4>1. h \in InOrder => Called'[h] = Called[h]
        BY <1>1, <3>2 DEF Replaced
      <4>2. h \in parentFns'[g] <=> h \in parentFns[g]
        BY <1>4, <3>1, <3>2
      <4> QED BY <3>1, <4>1, <4>2
    <3>3. CASE h = f
      <4>1. g # c /\ g \notin ToSet(Called'[f]) => f \notin parentFns[g]
        BY <1>1, <3>1, <3>3 DEF Replaced
      <4>2. f \in parentFns'[g] <=> g \in ToSet(Called'[f])
        BY <1>4, <3>1, <4>1
      <4> QED BY <1>1, <3>3, <4>2
    <3> QED BY <3>2, <3>3
  <2> QED BY <2>1
<1>7. ASSUME NEW g \in InOrder PROVE orderedCalled'[g] = Called'[g]
  BY <1>1, <1>4, <1>5 DEF Replaced, Types
<1>8. ASSUME NEW g \in InOrder PROVE preOrderedLoops'[g] = Loops(g)'
  <2>1. loops \in [Fns -> [hot : Nat, cold : Nat]] /\ preOrderedLoops \in [Fns -> Nat] /\ g \in Fns
    BY <1>1 DEF Types
  <2>2. CASE g # f
    <3>1. preOrderedLoops'[g] = preOrderedLoops[g] /\ loops'[g] = loops[g]
      BY <1>1, <2>1, <2>2
    <3> QED BY <1>5, <3>1 DEF Loops
  <2>3. CASE g = f
    <3>1. loops'[f] = [hot |-> loops[f].hot + loops[c].hot, cold |-> loops[f].cold + loops[c].cold]
      BY <1>1, <2>1
    <3>2. loops'[f].hot = loops[f].hot + loops[c].hot /\ loops'[f].cold = loops[f].cold + loops[c].cold
      BY <3>1
    <3>3. loops[f].hot \in Nat /\ loops[c].hot \in Nat /\ loops[f].cold \in Nat /\ loops[c].cold \in Nat
      <4>1. loops[f] \in [hot : Nat, cold : Nat] /\ loops[c] \in [hot : Nat, cold : Nat]
        BY <1>1, <2>1
      <4> QED BY <4>1
    <3>4. preOrderedLoops'[f] = preOrderedLoops[f] + preOrderedLoops[c]
      BY <1>1, <2>1
    <3>5. preOrderedLoops[f] = loops[f].hot + loops[f].cold
          /\ preOrderedLoops[c] = loops[c].hot + loops[c].cold
      BY <1>1, <1>5 DEF Loops
    <3>6. preOrderedLoops'[f] = loops'[f].hot + loops'[f].cold
      BY <3>2, <3>3, <3>4, <3>5
    <3> QED BY <2>3, <3>6 DEF Loops
  <2> QED BY <2>2, <2>3
<1>9. \A g \in InOrder : TableOf(g)'
  BY <1>3, <1>6, <1>7, <1>8 DEF TableOf
<1>10. Closed(Called', InOrder)
  <2>1. Closed(Called, InOrder)
    BY DEF TablesInv
  <2>2. ASSUME NEW g \in InOrder PROVE ToSet(Called'[g]) \subseteq InOrder
    <3>1. CASE g = f
      BY <1>1, <2>1, <3>1 DEF Replaced, Closed
    <3>2. CASE g # f
      <4>1. Called'[g] = Called[g]
        BY <1>1, <3>2 DEF Replaced
      <4> QED BY <2>1, <4>1 DEF Closed
    <3> QED BY <3>1, <3>2
  <2> QED BY <2>2 DEF Closed
<1>11. ASSUME NEW g \in Fns \ InOrder PROVE preOrderedLoops'[g] = 0
  <2>1. g # f /\ preOrderedLoops[g] = 0
    BY <1>1 DEF TablesInv
  <2> QED BY <1>1, <2>1 DEF Types
<1>12. ASSUME NEW g \in InOrder \ (recursiveChainEntranceFns \cup {main}), NEW h \in parentFns'[g]
       PROVE  fnOrders(h) < fnOrders(g)
  <2>1. \A x \in parentFns[g] : fnOrders(x) < fnOrders(g)
    BY DEF TablesInv
  <2>2. h \in InOrder /\ g \in ToSet(Called'[h])
    BY <1>6, <1>12
  <2>3. CASE g \in ToSet(Called[h])
    BY <1>5, <2>1, <2>2, <2>3
  <2>4. CASE g \notin ToSet(Called[h])
    <3>1. h = f /\ g \in ToSet(Called[c])
      BY <1>1, <2>2, <2>4 DEF Replaced
    <3>2. fnOrders(c) < fnOrders(g)
      BY <1>1, <1>5, <2>1, <3>1
    <3>3. fnOrders(f) \in Nat /\ fnOrders(c) \in Nat /\ fnOrders(g) \in Nat
      BY PlaceInOrder DEF fnOrders, Types, TablesInv
    <3> QED BY <1>2, <3>1, <3>2, <3>3
  <2> QED BY <2>3, <2>4
<1>13. depthOrderedFns # <<>> /\ depthOrderedFns[1] = main /\ IsInjective(depthOrderedFns)
  BY DEF TablesInv
<1> QED BY <1>3, <1>9, <1>10, <1>11, <1>12, <1>13 DEF TablesInv

\* A function that is changed differs from the one of the beginning of the pass.
LEMMA InliningIsAChange ==
  ASSUME Types, TablesInv, Changes, NEW f, NEW i, NEW c, Inlining(f, i, c)
  PROVE  Changes'
<1>1. Inlined(f, i, c)
  BY InliningChanges
<1>2. /\ f \notin fnsAffected /\ fnsAffected' = fnsAffected \cup {f}
      /\ inlined' = TRUE /\ before' = before
  BY DEF Inlining, inlineFunctionCall, CanInline
<1>3. calls'[f] # calls[f] /\ \A g \in Fns : g # f => calls'[g] = calls[g]
  BY <1>1, Zenon DEF Inlined, IsInlined
<1>4. f \in Fns
  BY <1>1 DEF Inlined
<1>5. calls[f] = before[f]
  BY <1>2, <1>4 DEF Changes
<1> QED BY <1>2, <1>3, <1>5 DEF Changes

\* What is blocked stays blocked: the child may not be reached any more, but then
\* its size has been added to the one of the parent.
LEMMA InliningKeepsBlocks ==
  ASSUME Types, TablesInv, NEW f, NEW i, NEW c, Inlining(f, i, c)
  PROVE  /\ \A g \in Fns : g # f => size'[g] = size[g]
         /\ Blocked => Blocked'
<1>1. Inlined(f, i, c) /\ f \in Fns /\ c \in Fns
  BY InliningChanges DEF Inlined
<1>2. /\ c \notin opaque /\ opaque' = opaque /\ f # c
      /\ fnsAffected' = fnsAffected \cup {f}
  BY DEF Inlining, inlineFunctionCall, CanInline, options
<1>3. /\ size \in [Fns -> Nat] /\ size' = [size EXCEPT ![f] = size[f] + size[c]]
      /\ MaxFunctionInstructions \in Nat
  BY <1>1, InlinerAssumption DEF Inlined, Types, InlinerAssumption
<1>4. size'[f] = size[f] + size[c] /\ \A g \in Fns : g # f => size'[g] = size[g]
  BY <1>1, <1>3
<1>5. Called \in [Fns -> Seq(Fns)] /\ Called' \in [Fns -> Seq(Fns)] /\ Replaced(Called, f, c, Called')
  BY <1>1, Zenon DEF Inlined
<1>6. /\ ProgramFns(Called) \subseteq ProgramFns(Called') \cup {c}
      /\ c \in ProgramFns(Called) => c \in ProgramFns(Called') \/ f \in ProgramFns(Called')
  BY <1>1, <1>2, <1>5, StillReached
<1>7. \A g \in Fns : Blocks(g) => Blocks(g)'
  <2> SUFFICES ASSUME NEW g \in Fns, Blocks(g) PROVE Blocks(g)'
    OBVIOUS
  <2>1. size[g] \in Nat /\ size[c] \in Nat /\ size'[g] >= size[g]
    BY <1>1, <1>3, <1>4
  <2>2. size'[g] \in Nat
    BY <1>1, <1>3, <1>4
  <2>3. size[g] > MaxFunctionInstructions => size'[g] > MaxFunctionInstructions
    BY <1>3, <2>1, <2>2
  <2> QED BY <1>2, <2>3 DEF Blocks
<1>8. Blocks(c) => Blocks(f)'
  <2>1. size[f] \in Nat /\ size[c] \in Nat
    BY <1>1, <1>3
  <2>2. size[c] > MaxFunctionInstructions => size'[f] > MaxFunctionInstructions
    BY <1>3, <1>4, <2>1
  <2> QED BY <1>2, <2>2 DEF Blocks
<1>9. ASSUME NEW b \in ProgramFns(Called), Blocks(b) PROVE Blocked'
  <2>1. b \in Fns
    BY <1>5, CollectedGraph
  <2>2. CASE b \in ProgramFns(Called')
    BY <1>7, <1>9, <2>1, <2>2 DEF Blocked
  <2>3. CASE b \notin ProgramFns(Called')
    <3>1. b = c /\ f \in ProgramFns(Called')
      BY <1>6, <2>3
    <3> QED BY <1>8, <1>9, <3>1 DEF Blocked
  <2> QED BY <2>2, <2>3
<1> QED BY <1>4, <1>9 DEF Blocked

LEMMA InliningBlocks ==
  ASSUME Types, TablesInv, BlockedInv, NEW f, NEW i, NEW c, Inlining(f, i, c)
  PROVE  BlockedInv'
<1>1. InOrder' = InOrder /\ InOrder \in SUBSET Fns
  BY InliningTables, InliningChanges DEF Inlined
<1>2. opaque' = opaque /\ fnsAffected' = fnsAffected \cup {f}
  BY DEF Inlining, inlineFunctionCall, options
<1>3. (\A g \in Fns : g # f => size'[g] = size[g]) /\ (Blocked => Blocked')
  BY InliningKeepsBlocks
<1>4. ASSUME NEW g \in InOrder, g \in opaque' \/ (g \notin fnsAffected' /\ Blocks(g)')
      PROVE  Blocked'
  <2>1. g \in opaque \/ (g \notin fnsAffected /\ Blocks(g))
    BY <1>1, <1>2, <1>3, <1>4 DEF Blocks
  <2> QED BY <1>3, <2>1 DEF BlockedInv
<1> QED BY <1>1, <1>4 DEF BlockedInv

\* What is left to show of a step that inlines.
LEMMA InliningStep ==
  ASSUME InlinerInv, InPass, NEW f, NEW i, NEW c, Inlining(f, i, c),
         UNCHANGED <<file, stage, fnsToCheck, childF, inlinedInParents>>,
         orderedFns' \in Seq(Fns), fnIndex' \in 1 .. Len(orderedFns') + 1,
         fnsToAvoid' \in SUBSET Fns, parents' \in SUBSET InOrder,
         ToSet(orderedFns)' \subseteq InOrder,
         stage = "carried" => parents' = parents,
         ~Blocked => (stage = "hoist" => HoistInv')
  PROVE  InlinerInv'
<1>1. Types /\ Phases /\ Changes /\ TablesInv /\ WalkInv /\ BlockedInv /\ UnlessBlocked
  BY DEF InlinerInv
<1>2. TablesInv' /\ InOrder' = InOrder
  BY <1>1, InliningTables
<1>3. Changes'
  BY <1>1, InliningIsAChange
<1>4. BlockedInv' /\ (Blocked => Blocked')
  BY <1>1, InliningBlocks, InliningKeepsBlocks
<1>5. inlined' = TRUE /\ hoist' = hoist
  BY DEF Inlining, inlineFunctionCall, options
<1>6. InOrder \subseteq Fns
  BY <1>1, Elements DEF Types, InOrder
<1>7. Types'
  <2>1. /\ calls' \in [Fns -> Seq(Call)] /\ before' \in [Fns -> Seq(Call)]
        /\ loops' \in [Fns -> [hot : Nat, cold : Nat]] /\ size' \in [Fns -> Nat]
        /\ opaque' \in SUBSET Fns /\ hoist' \in BOOLEAN
        /\ orderedCalled' \in [Fns -> Seq(Fns)] /\ parentFns' \in [Fns -> SUBSET Fns]
        /\ preOrderedLoops' \in [Fns -> Nat]
        /\ depthOrderedFns' \in Seq(Fns) /\ recursiveChainEntranceFns' \in SUBSET Fns
        /\ fnsAffected' \in SUBSET Fns /\ inlined' \in BOOLEAN
    BY <1>1, InliningTypes
  <2>2. parents' \in SUBSET Fns
    BY <1>6
  <2> QED BY <1>1, <2>1, <2>2 DEF Types
<1>8. Phases'
  BY <1>1 DEF Phases, InPass
<1>9. WalkInv'
  BY <1>1, <1>2, <1>5 DEF WalkInv
<1>10. UnlessBlocked'
  BY <1>1, <1>4 DEF UnlessBlocked, InPass
<1>11. FileNamesTheRemaining'
  BY DEF FileNamesTheRemaining, InPass
<1> QED BY <1>2, <1>3, <1>4, <1>7, <1>8, <1>9, <1>10, <1>11 DEF InlinerInv

\* The call that a walk inlines.
LEMMA CarriedIsInlining ==
  ASSUME InlinerInv, inlineCallsInvolvedInLoopCarriedDataDependences
  PROVE  \E i, c : Inlining(orderedFns[fnIndex], i, c)
<1> DEFINE f == orderedFns[fnIndex]
<1>1. /\ stage = "carried" /\ fnIndex <= Len(orderedFns)
      /\ \E i \in CallsInSequentialSCCs(f) : inlineFunctionCall(f, i)
      /\ UNCHANGED <<options, before, orders>>
  BY DEF inlineCallsInvolvedInLoopCarriedDataDependences
<1>2. PICK i \in CallsInSequentialSCCs(f) : inlineFunctionCall(f, i)
  BY <1>1
<1>3. Types /\ TablesInv /\ WalkInv
  BY <1>1 DEF InlinerInv, InPass
<1>4. fnIndex \in 1 .. Len(orderedFns) /\ Len(orderedFns) \in Nat /\ orderedFns \in Seq(Fns)
  BY <1>1, <1>3 DEF Types
<1>5. f \in InOrder
  BY <1>3, <1>4, Elements DEF WalkInv
<1> DEFINE c == calls[f][i].callee
<1>6. i \in DOMAIN calls[f] /\ c # f /\ fnOrders(c) >= fnOrders(f)
  BY <1>2, Zenon DEF CallsInSequentialSCCs
<1>7. fnOrders(f) <= fnOrders(c)
  BY <1>6
<1> HIDE DEF f
<1>8. Inlining(f, i, c)
  BY <1>1, <1>2, <1>5, <1>6, <1>7, Zenon DEF Inlining
<1> QED BY <1>8 DEF f

LEMMA InlineCarriedStep ==
  ASSUME InlinerInv, inlineCallsInvolvedInLoopCarriedDataDependences
  PROVE  InlinerInv'
<1> DEFINE f == orderedFns[fnIndex]
<1>1. /\ stage = "carried" /\ fnIndex <= Len(orderedFns)
      /\ fnsToAvoid' = fnsToAvoid \cup parentFns'[f]
      /\ fnIndex' = fnIndex + 1
      /\ UNCHANGED <<options, before, file, stage, result, orders, fnsToCheck,
                     orderedFns, fnsWillCheck, current>>
  BY DEF inlineCallsInvolvedInLoopCarriedDataDependences
<1>3. Types /\ TablesInv /\ WalkInv
  BY <1>1 DEF InlinerInv, InPass
<1>4. fnIndex \in 1 .. Len(orderedFns) /\ Len(orderedFns) \in Nat /\ orderedFns \in Seq(Fns)
  BY <1>1, <1>3 DEF Types
<1>7. UNCHANGED <<file, stage, fnsToCheck, childF, inlinedInParents>>
      /\ orderedFns' = orderedFns /\ parents' = parents
  BY <1>1 DEF current
<1> HIDE DEF f
<1>8. PICK i, c : Inlining(f, i, c)
  BY CarriedIsInlining DEF f
<1>9. parentFns' \in [Fns -> SUBSET Fns] /\ f \in Fns
  BY <1>3, <1>8, InliningTypes, InliningChanges DEF Inlined
<1>10. /\ orderedFns' \in Seq(Fns) /\ fnIndex' \in 1 .. Len(orderedFns') + 1
       /\ fnsToAvoid' \in SUBSET Fns
  <2>1. fnIndex' \in 1 .. Len(orderedFns') + 1
    BY <1>1, <1>4, <1>7
  <2> QED BY <1>1, <1>3, <1>4, <1>7, <1>9, <2>1 DEF Types, f
<1>11. parents' \in SUBSET InOrder /\ ToSet(orderedFns)' \subseteq InOrder
  BY <1>3, <1>7 DEF WalkInv
<1>12. InPass /\ stage # "hoist"
  BY <1>1 DEF InPass
<1> QED BY <1>7, <1>8, <1>10, <1>11, <1>12, InliningStep

\* The sequence of functions with one more in front.
LEMMA InFront ==
  ASSUME NEW s \in Seq(Fns), NEW f \in Fns
  PROVE  /\ <<f>> \o s \in Seq(Fns) /\ Len(<<f>> \o s) = Len(s) + 1 /\ Len(s) \in Nat
         /\ (<<f>> \o s)[1] = f
         /\ \A j \in 1 .. Len(s) : (<<f>> \o s)[j + 1] = s[j]
         /\ ToSet(<<f>> \o s) = ToSet(s) \cup {f}
<1> DEFINE t == <<f>> \o s
<1>1. <<f>> \in Seq(Fns) /\ Len(<<f>>) = 1 /\ <<f>>[1] = f /\ Len(s) \in Nat
  OBVIOUS
<1>2. t \in Seq(Fns) /\ Len(t) = Len(s) + 1
  BY <1>1
<1>3. \A k \in 1 .. 1 + Len(s) : t[k] = IF k <= 1 THEN <<f>>[k] ELSE s[k - 1]
  BY <1>1
<1> HIDE DEF t
<1>4. t[1] = f
  BY <1>1, <1>3
<1>5. ASSUME NEW j \in 1 .. Len(s) PROVE t[j + 1] = s[j]
  <2>1. j + 1 \in 1 .. 1 + Len(s) /\ ~(j + 1 <= 1) /\ (j + 1) - 1 = j
    BY <1>1
  <2> QED BY <1>3, <2>1
<1>6. ToSet(t) = ToSet(s) \cup {f}
  <2>1. /\ \A x : x \in ToSet(t) <=> \E k \in 1 .. Len(t) : t[k] = x
        /\ \A x : x \in ToSet(s) <=> \E k \in 1 .. Len(s) : s[k] = x
    BY <1>2, Elements
  <2>2. ASSUME NEW k \in 1 .. Len(t) PROVE t[k] \in ToSet(s) \cup {f}
    <3>1. k = 1 \/ (k - 1 \in 1 .. Len(s) /\ (k - 1) + 1 = k)
      BY <1>1, <1>2
    <3>2. CASE k = 1
      BY <1>4, <3>2
    <3>3. CASE k - 1 \in 1 .. Len(s) /\ (k - 1) + 1 = k
      <4>1. t[k] = s[k - 1]
        BY <1>5, <3>3
      <4> QED BY <2>1, <3>3, <4>1
    <3> QED BY <3>1, <3>2, <3>3
  <2>3. ASSUME NEW k \in 1 .. Len(s) PROVE s[k] \in ToSet(t)
    <3>1. k + 1 \in 1 .. Len(t)
      BY <1>1, <1>2
    <3> QED BY <1>5, <2>1, <3>1
  <2>4. f \in ToSet(t)
    <3>1. 1 \in 1 .. Len(t)
      BY <1>1, <1>2
    <3> QED BY <1>4, <2>1, <3>1
  <2> QED BY <2>1, <2>2, <2>3, <2>4
<1> QED BY <1>1, <1>2, <1>4, <1>5, <1>6 DEF t

LEMMA HoistingIsInlining ==
  ASSUME InlinerInv, NEW parentF \in Fns, InlineIntoParent(parentF)
  PROVE  \E i : Inlining(parentF, i, childF)
<1>1. /\ stage = "hoist" /\ childF # NoFn /\ parentF \in parents /\ ~Skipped(parentF)
      /\ \E i \in DOMAIN calls[parentF] :
           calls[parentF][i].callee = childF /\ inlineFunctionCall(parentF, i)
      /\ UNCHANGED <<options, before, orders>>
  BY DEF InlineIntoParent
<1>2. PICK i \in DOMAIN calls[parentF] :
        calls[parentF][i].callee = childF /\ inlineFunctionCall(parentF, i)
  BY <1>1
<1>3. Types /\ TablesInv /\ WalkInv
  BY <1>1 DEF InlinerInv, InPass
<1>4. parentF \in InOrder
  BY <1>1, <1>3 DEF WalkInv
<1>5. Inlining(parentF, i, childF)
  <2>1. parentF # childF /\ ~(fnOrders(parentF) > fnOrders(childF))
    BY <1>1 DEF Skipped
  <2>2. fnOrders(parentF) \in Nat /\ fnOrders(childF) \in Nat
    BY <1>3, PlaceInOrder DEF fnOrders, Types, TablesInv
  <2>3. fnOrders(parentF) <= fnOrders(childF)
    BY <2>1, <2>2
  <2> QED BY <1>1, <1>2, <1>4, <2>1, <2>3 DEF Inlining
<1> QED BY <1>5

LEMMA InlineIntoParentStep ==
  ASSUME InlinerInv, NEW parentF \in Fns, InlineIntoParent(parentF)
  PROVE  InlinerInv'
<1>1. /\ stage = "hoist" /\ childF # NoFn /\ parentF \in parents
      /\ parents' = parents \ {parentF}
      /\ orderedFns' = orderedFns \/ orderedFns' = <<parentF>> \o orderedFns
      /\ UNCHANGED <<options, before, file, stage, result, orders, fnsToCheck,
                     fnIndex, fnsToAvoid, childF, inlinedInParents>>
  BY DEF InlineIntoParent
<1>2. Types /\ TablesInv /\ WalkInv /\ UnlessBlocked
  BY <1>1 DEF InlinerInv, InPass
<1>3. parentF \in InOrder /\ parents' \in SUBSET InOrder
  BY <1>1, <1>2 DEF WalkInv
<1>5. PICK i : Inlining(parentF, i, childF)
  BY HoistingIsInlining
<1>6. orderedFns \in Seq(Fns) /\ fnIndex \in 1 .. Len(orderedFns) + 1 /\ fnsToAvoid \in SUBSET Fns
  BY <1>2 DEF Types
<1>7. /\ <<parentF>> \o orderedFns \in Seq(Fns)
      /\ Len(<<parentF>> \o orderedFns) = Len(orderedFns) + 1 /\ Len(orderedFns) \in Nat
      /\ \A j \in 1 .. Len(orderedFns) : (<<parentF>> \o orderedFns)[j + 1] = orderedFns[j]
      /\ ToSet(<<parentF>> \o orderedFns) = ToSet(orderedFns) \cup {parentF}
  BY <1>6, InFront
<1>8. /\ orderedFns' \in Seq(Fns) /\ fnIndex' \in 1 .. Len(orderedFns') + 1
      /\ fnsToAvoid' \in SUBSET Fns
  <2>1. Len(orderedFns') = Len(orderedFns) \/ Len(orderedFns') = Len(orderedFns) + 1
    BY <1>1, <1>7, Zenon
  <2>2. fnIndex' \in 1 .. Len(orderedFns') + 1
    BY <1>1, <1>6, <1>7, <2>1
  <2>3. orderedFns' \in Seq(Fns)
    BY <1>1, <1>6, <1>7, Zenon
  <2> QED BY <1>1, <1>6, <2>2, <2>3
<1>9. ToSet(orderedFns)' \subseteq InOrder
  <2>1. ToSet(orderedFns') = ToSet(orderedFns) \/ ToSet(orderedFns') = ToSet(orderedFns) \cup {parentF}
    BY <1>1, <1>7, Zenon
  <2>2. ToSet(orderedFns) \subseteq InOrder
    BY <1>2 DEF WalkInv
  <2> QED BY <1>3, <2>1, <2>2
<1>10. ASSUME ~Blocked PROVE HoistInv'
  <2>1. HoistInv
    BY <1>1, <1>2, <1>10 DEF UnlessBlocked
  <2>2. inlined' = TRUE
    BY <1>5 DEF Inlining, inlineFunctionCall
  <2>3. ASSUME NEW j \in fnIndex .. Len(orderedFns) PROVE orderedFns[j] \in Ahead'
    <3>1. CASE orderedFns' = orderedFns
      BY <1>1, <3>1 DEF Ahead
    <3>2. CASE orderedFns' = <<parentF>> \o orderedFns
      <4>1. j \in 1 .. Len(orderedFns)
        BY <1>6, <1>7
      <4>2. orderedFns'[j + 1] = orderedFns[j]
        BY <1>7, <3>2, <4>1, Zenon
      <4>3. Len(orderedFns') = Len(orderedFns) + 1
        BY <1>7, <3>2, Zenon
      <4>4. j + 1 \in fnIndex' .. Len(orderedFns')
        BY <1>1, <1>6, <1>7, <4>3
      <4> QED BY <4>2, <4>4 DEF Ahead
    <3> QED BY <1>1, <3>1, <3>2
  <2>4. Ahead \subseteq Ahead'
    BY <2>3 DEF Ahead
  <2> QED BY <1>1, <2>1, <2>2, <2>4 DEF HoistInv
<1>11. InPass /\ stage # "carried"
  BY <1>1 DEF InPass
<1>12. UNCHANGED <<file, stage, fnsToCheck, childF, inlinedInParents>>
  BY <1>1
<1> QED BY <1>3, <1>5, <1>8, <1>9, <1>10, <1>11, <1>12, InliningStep

-----------------------------------------------------------------------------
(* The theorems.                                                           *)

LEMMA InlinerNext == InlinerInv /\ [Next]_vars => InlinerInv'
<1> SUFFICES ASSUME InlinerInv, [Next]_vars PROVE InlinerInv'
  OBVIOUS
<1>1. CASE runOnModule
  BY <1>1, RunOnModuleStep
<1>2. CASE AvoidFunction \/ NothingToInline
  BY <1>2, CarriedStep
<1>3. CASE inlineCallsInvolvedInLoopCarriedDataDependences
  BY <1>3, InlineCarriedStep
<1>4. CASE CarriedExit \/ IndexOutOfRange
  BY <1>4, CarriedEnds
<1>5. CASE getFunctionsToInline
  BY <1>5, HoistingStarts
<1>6. CASE TakeChild
  BY <1>6, TakeChildStep
<1>7. ASSUME NEW parentF \in Fns,
             SkipParent(parentF) \/ InlineIntoParent(parentF) \/ AvoidParent(parentF)
      PROVE  InlinerInv'
  BY <1>7, SkipParentStep, InlineIntoParentStep, AvoidParentStep
<1>8. CASE LeaveChild
  BY <1>8, LeaveChildStep
<1>9. CASE registerRemainingFunctions
  BY <1>9, RegisterStep
<1>10. CASE RunAgain
  BY <1>10, RunAgainStep
<1>11. CASE FixedPoint
  BY <1>11, FixedPointStep
<1>12. CASE Terminated \/ UNCHANGED vars
  BY <1>12, StutteringStep DEF Terminated
<1> QED BY <1>1, <1>2, <1>3, <1>4, <1>5, <1>6, <1>7, <1>8, <1>9, <1>10, <1>11, <1>12 DEF Next

LEMMA InlinerInvariant == Spec => []InlinerInv
  BY InlinerInit, InlinerNext, PTL DEF Spec

LEMMA TypesOK ==
  ASSUME Types
  PROVE  TypeOK
<1>1. ASSUME NEW f \in Fns, NEW i \in DOMAIN calls[f]
      PROVE  calls[f][i].callee \in Fns /\ ToSet(calls[f][i].via) \subseteq Fns
  <2>1. calls[f] \in Seq(Call)
    BY DEF Types
  <2>2. calls[f][i] \in Call
    BY <2>1
  <2>3. calls[f][i].callee \in Fns /\ calls[f][i].via \in Seq(Fns)
    BY <2>2 DEF Call
  <2> QED BY <2>3, Elements
<1>2. ToSet(depthOrderedFns) \subseteq Fns
  BY Elements DEF Types
<1> QED BY <1>1, <1>2 DEF TypeOK, Types

\* Without the callers that main does not reach any more, the adjusted tables of what
\* main reaches are those that collectFnGraph would collect.
LEMMA AdjustedIsCollected ==
  ASSUME Types, TablesInv
  PROVE  \A f \in ProgramFns(Called) :
           /\ orderedCalled[f] = CollectedCalled(Called)[f]
           /\ parentFns[f] \cap ProgramFns(Called) = CollectedParents(Called)[f]
<1> DEFINE R == ProgramFns(Called)
           collected == CollectedCalled(Called)
<1>1. Called \in [Fns -> Seq(Fns)]
  BY CalleesTypes DEF Types, Called
<1>2. R \subseteq Fns
  BY <1>1, CollectedGraph
<1>3. R \subseteq InOrder
  <2>1. /\ Len(depthOrderedFns) \in Nat \ {0} /\ depthOrderedFns[1] = main
        /\ depthOrderedFns \in Seq(Fns)
    BY DEF Types, TablesInv
  <2>2. main \in InOrder /\ InOrder \in SUBSET Fns
    BY <2>1, Elements DEF InOrder
  <2> QED BY <2>2, ReachedLeast DEF TablesInv
<1>4. \A g \in Fns : collected[g] = IF g \in R THEN Called[g] ELSE <<>>
  BY DEF CollectedCalled
<1>5. \A f \in Fns : CollectedParents(Called)[f] = {g \in Fns : f \in ToSet(collected[g])}
  BY DEF CollectedParents
<1>6. ToSet(<<>>) = {}
  BY DEF ToSet
<1> HIDE DEF R, collected
<1>7. ASSUME NEW f \in R
      PROVE  orderedCalled[f] = collected[f] /\ parentFns[f] \cap R = CollectedParents(Called)[f]
  <2>1. f \in Fns /\ f \in InOrder /\ TableOf(f)
    BY <1>2, <1>3, <1>7 DEF TablesInv
  <2>2. orderedCalled[f] = collected[f]
    BY <1>4, <1>7, <2>1 DEF TableOf
  <2>3. parentFns[f] \cap R = {g \in R : f \in ToSet(Called[g])}
    BY <1>3, <2>1 DEF TableOf
  <2>4. CollectedParents(Called)[f] = {g \in R : f \in ToSet(Called[g])}
    BY <1>2, <1>4, <1>5, <1>6, <2>1
  <2> QED BY <2>2, <2>3, <2>4
<1> QED BY <1>7 DEF R, collected

\* After every call that a pass inlines, adjustFnGraphAfterInline and
\* adjustLoopOrdersAfterInline have kept the pass's tables equal to what the
\* program is: the calls of every function in program order, its callers and the
\* number of its loops.
THEOREM TablesAreKept == Spec => []TablesMatchTheProgram
<1>1. InlinerInv => TablesMatchTheProgram
  <2> SUFFICES ASSUME InlinerInv PROVE TablesMatchTheProgram
    OBVIOUS
  <2>1. TypeOK
    BY TypesOK DEF InlinerInv
  <2>2. CASE InPass
    <3>1. Collected = InOrder /\ Callees(calls) = Called /\ TablesInv /\ Types
      BY <2>2 DEF Collected, InOrder, Called, InlinerInv
    <3>2. \A f \in ProgramFns(Called) :
            /\ orderedCalled[f] = CollectedCalled(Called)[f]
            /\ parentFns[f] \cap ProgramFns(Called) = CollectedParents(Called)[f]
      BY <3>1, AdjustedIsCollected
    <3>3. \A f \in Collected :
            /\ orderedCalled[f] = Called[f]
            /\ parentFns[f] = {g \in Collected : f \in ToSet(Called[g])}
            /\ preOrderedLoops[f] = loops[f].hot + loops[f].cold
      BY <3>1 DEF TablesInv, TableOf, Loops
    <3> QED BY <2>1, <3>1, <3>2, <3>3 DEF TablesMatchTheProgram
  <2>3. CASE ~InPass
    BY <2>1, <2>3 DEF TablesMatchTheProgram, Collected
  <2> QED BY <2>2, <2>3
<1> QED BY <1>1, InlinerInvariant, PTL

\* The order of collectInDepthOrderFns holds every function that main reaches once,
\* after its callers unless it is main or an entrance of a recursive chain, and
\* inlining does not spoil it for the rest of the pass.
THEOREM OrderIsTopological == Spec => []DepthOrderIsTopological
<1>1. InlinerInv => DepthOrderIsTopological
  <2> SUFFICES ASSUME InlinerInv, InPass PROVE DepthOrderIsTopological
    BY DEF DepthOrderIsTopological
  <2>1. Types /\ TablesInv
    BY DEF InlinerInv
  <2>2. main \in InOrder /\ InOrder \in SUBSET Fns
    <3>1. Len(depthOrderedFns) \in Nat \ {0} /\ depthOrderedFns[1] = main
          /\ depthOrderedFns \in Seq(Fns)
      BY <2>1 DEF Types, TablesInv
    <3> QED BY <3>1, Elements DEF InOrder
  <2>3. ProgramFns(Called) \subseteq InOrder
    BY <2>1, <2>2, ReachedLeast DEF TablesInv
  <2>4. Collected = InOrder
    BY DEF Collected, InOrder
  <2> QED BY <2>1, <2>3, <2>4 DEF DepthOrderIsTopological, TablesInv, Called, InOrder
<1> QED BY <1>1, InlinerInvariant, PTL

\* The indices that registerRemainingFunctions leaves in the file name, in the
\* order that the next pass will compute, the functions that are left to hoist.
THEOREM FileNamesWhatRemains == Spec => []FileNamesTheRemaining
<1>1. InlinerInv => FileNamesTheRemaining
  BY DEF InlinerInv
<1> QED BY <1>1, InlinerInvariant, PTL

\* When gino-inline ends and neither the sizes nor LLVM stood in its way, what main
\* still calls has no loops unless it is the entrance of a recursive chain.
THEOREM LoopsAreHoisted == Spec => []HoistingIsComplete
<1>1. InlinerInv => HoistingIsComplete
  <2> SUFFICES ASSUME InlinerInv, stage = "done", hoist, ~TooBig,
                      \A f \in ProgramFns(Callees(calls)) :
                        f \notin opaque /\ size[f] <= MaxFunctionInstructions
               PROVE  \A f \in ProgramFns(Callees(calls)) \ {main} :
                        loops[f].hot + loops[f].cold = 0 \/ f \in recursiveChainEntranceFns
    BY DEF HoistingIsComplete
  <2>1. Types /\ Phases /\ UnlessBlocked /\ Callees(calls) = Called
    BY DEF InlinerInv, Called
  <2>2. ~Blocked
    <3> SUFFICES ASSUME NEW f \in ProgramFns(Called) PROVE ~Blocks(f)
      BY DEF Blocked
    <3>1. f \notin opaque /\ size[f] <= MaxFunctionInstructions
      BY <2>1
    <3>2. Called \in [Fns -> Seq(Fns)]
      BY <2>1, CalleesTypes DEF Types
    <3>3. f \in Fns
      BY <3>2, CollectedGraph
    <3>4. size[f] \in Nat /\ MaxFunctionInstructions \in Nat
      BY <2>1, <3>3, InlinerAssumption DEF Types, InlinerAssumption
    <3> QED BY <3>1, <3>4 DEF Blocks
  <2>3. Hoisted
    BY <2>1, <2>2 DEF UnlessBlocked, Phases
  <2> QED BY <2>1, <2>3 DEF Hoisted, Loops
<1> QED BY <1>1, InlinerInvariant, PTL

-----------------------------------------------------------------------------
(* Recursion is not unrolled: the functions along a chain of copies have   *)
(* increasing places in the order of the first pass.                       *)

\* The functions whose copies a call of f is in follow each other in the places, f
\* before them and the function it calls after them unless that is an entrance.
ChainOf(place, E, f, via, callee) ==
  /\ \A a, b \in 1 .. Len(via) : a < b => place[via[a]] < place[via[b]]
  /\ \A a \in 1 .. Len(via) : place[f] < place[via[a]]
  /\ callee \notin E \cup {main} =>
       place[f] < place[callee] /\ \A a \in 1 .. Len(via) : place[via[a]] < place[callee]

Chain(place, E, f, call) == ChainOf(place, E, f, call.via, call.callee)

\* In U, where calls may be inlined.
Chains(p, U, place, E) ==
  \A f \in Fns : \A call \in ToSet(p[f]) :
    IF f \in U THEN Chain(place, E, f, call) ELSE call.via = <<>>

\* A chain has no function twice.
LEMMA ChainIsInjective ==
  ASSUME NEW place \in [Fns -> Nat], NEW E, NEW f \in Fns, NEW call \in Call, Chain(place, E, f, call)
  PROVE  IsInjective(call.via) /\ f \notin ToSet(call.via)
<1> DEFINE via == call.via
<1>1. via \in Seq(Fns)
  BY DEF Call
<1>2. /\ \A a, b \in 1 .. Len(via) : a < b => place[via[a]] < place[via[b]]
      /\ \A a \in 1 .. Len(via) : place[f] < place[via[a]]
  BY DEF Chain, ChainOf
<1> HIDE DEF via
<1>3. Len(via) \in Nat /\ DOMAIN via = 1 .. Len(via) /\ \A a \in 1 .. Len(via) : via[a] \in Fns
  BY <1>1
<1>4. \A g \in Fns : place[g] \in Nat
  OBVIOUS
<1>5. ASSUME NEW a \in 1 .. Len(via), NEW b \in 1 .. Len(via), via[a] = via[b] PROVE a = b
  <2>1. place[via[a]] \in Nat /\ place[via[b]] = place[via[a]]
    BY <1>3, <1>4, <1>5
  <2>2. ~(a < b) /\ ~(b < a)
    BY <1>2, <2>1
  <2> QED BY <1>3, <2>2
<1>6. IsInjective(via)
  BY <1>3, <1>5 DEF IsInjective
<1>7. f \notin ToSet(via)
  <2> SUFFICES ASSUME f \in ToSet(via) PROVE FALSE
    OBVIOUS
  <2>1. PICK a \in 1 .. Len(via) : via[a] = f
    BY <1>1, Elements
  <2>2. place[f] < place[f] /\ place[f] \in Nat
    BY <1>2, <1>4, <2>1
  <2> QED BY <2>2
<1> QED BY <1>6, <1>7 DEF via

\* The elements of a chain that is put together of two.
LEMMA JoinedChain ==
  ASSUME NEW v \in Seq(Fns), NEW c \in Fns, NEW w \in Seq(Fns)
  PROVE  LET j == v \o <<c>> \o w
         IN  /\ j \in Seq(Fns) /\ Len(j) = Len(v) + 1 + Len(w)
             /\ \A a \in 1 .. Len(j) : \/ a \in 1 .. Len(v) /\ j[a] = v[a]
                                       \/ a = Len(v) + 1 /\ j[a] = c
                                       \/ a - Len(v) - 1 \in 1 .. Len(w) /\ j[a] = w[a - Len(v) - 1]
<1> DEFINE u == v \o <<c>>
           j == u \o w
<1>1. <<c>> \in Seq(Fns) /\ Len(<<c>>) = 1 /\ <<c>>[1] = c /\ Len(v) \in Nat /\ Len(w) \in Nat
  OBVIOUS
<1>2. /\ u \in Seq(Fns) /\ Len(u) = Len(v) + 1
      /\ \A a \in 1 .. Len(v) + 1 : u[a] = IF a <= Len(v) THEN v[a] ELSE <<c>>[a - Len(v)]
  BY <1>1
<1>3. u[Len(v) + 1] = c
  BY <1>1, <1>2
<1> HIDE DEF u
<1>4. /\ j \in Seq(Fns) /\ Len(j) = Len(v) + 1 + Len(w)
      /\ \A a \in 1 .. Len(u) + Len(w) : j[a] = IF a <= Len(u) THEN u[a] ELSE w[a - Len(u)]
  <2>1. u \in Seq(Fns) /\ w \in Seq(Fns)
    BY <1>2
  <2>2. /\ j \in Seq(Fns) /\ Len(j) = Len(u) + Len(w)
        /\ \A a \in 1 .. Len(u) + Len(w) : j[a] = IF a <= Len(u) THEN u[a] ELSE w[a - Len(u)]
    BY <2>1
  <2> HIDE DEF j
  <2> QED BY <1>2, <2>2
<1> HIDE DEF j
<1>5. ASSUME NEW a \in 1 .. Len(j)
      PROVE  \/ a \in 1 .. Len(v) /\ j[a] = v[a]
             \/ a = Len(v) + 1 /\ j[a] = c
             \/ a - Len(v) - 1 \in 1 .. Len(w) /\ j[a] = w[a - Len(v) - 1]
  <2>1. a \in 1 .. Len(u) + Len(w) /\ a \in Nat
    BY <1>1, <1>2, <1>4
  <2>2. CASE a <= Len(v)
    <3>1. a \in 1 .. Len(v) + 1 /\ a <= Len(u) /\ a \in 1 .. Len(v)
      BY <1>1, <1>2, <2>1, <2>2
    <3> QED BY <1>2, <1>4, <2>1, <2>2, <3>1
  <2>3. CASE a = Len(v) + 1
    <3>1. a <= Len(u)
      BY <1>1, <1>2, <2>3
    <3> QED BY <1>3, <1>4, <2>1, <2>3, <3>1
  <2>4. CASE a > Len(v) + 1
    <3>1. ~(a <= Len(u)) /\ a - Len(u) = a - Len(v) - 1 /\ a - Len(v) - 1 \in 1 .. Len(w)
      BY <1>1, <1>2, <2>1, <2>4
    <3> QED BY <1>4, <2>1, <3>1
  <2> QED BY <1>1, <2>1, <2>2, <2>3, <2>4
<1> QED BY <1>4, <1>5 DEF j, u

\* Inlining joins the chains.
LEMMA ChainsJoin ==
  ASSUME NEW place \in [Fns -> Nat], NEW E, NEW f \in Fns, NEW call \in Call, Chain(place, E, f, call),
         NEW c \in Fns, c = call.callee, c \notin E, c # main,
         NEW copied \in Call, Chain(place, E, c, copied),
         NEW new, new = [callee |-> copied.callee, via |-> call.via \o <<c>> \o copied.via]
  PROVE  Chain(place, E, f, new)
<1> DEFINE v == call.via
           w == copied.via
           j == v \o <<c>> \o w
           d == copied.callee
<1>1. v \in Seq(Fns) /\ w \in Seq(Fns) /\ d \in Fns
  BY DEF Call
<1>2. new.via = j /\ new.callee = d
  OBVIOUS
<1>3. /\ \A a, b \in 1 .. Len(v) : a < b => place[v[a]] < place[v[b]]
      /\ \A a \in 1 .. Len(v) : place[f] < place[v[a]] /\ place[v[a]] < place[c]
      /\ place[f] < place[c]
  BY DEF Chain, ChainOf
<1>4. /\ \A a, b \in 1 .. Len(w) : a < b => place[w[a]] < place[w[b]]
      /\ \A a \in 1 .. Len(w) : place[c] < place[w[a]]
      /\ d \notin E \cup {main} =>
           place[c] < place[d] /\ \A a \in 1 .. Len(w) : place[w[a]] < place[d]
  BY DEF Chain, ChainOf
<1>5. /\ j \in Seq(Fns) /\ Len(j) = Len(v) + 1 + Len(w)
      /\ \A a \in 1 .. Len(j) : \/ a \in 1 .. Len(v) /\ j[a] = v[a]
                                \/ a = Len(v) + 1 /\ j[a] = c
                                \/ a - Len(v) - 1 \in 1 .. Len(w) /\ j[a] = w[a - Len(v) - 1]
  BY <1>1, JoinedChain
<1> HIDE DEF v, w, j, d
<1>6. /\ Len(v) \in Nat /\ Len(w) \in Nat
      /\ \A a \in 1 .. Len(v) : place[v[a]] \in Nat
      /\ \A a \in 1 .. Len(w) : place[w[a]] \in Nat
      /\ place[f] \in Nat /\ place[c] \in Nat /\ place[d] \in Nat
  BY <1>1
<1>7. ASSUME NEW a \in 1 .. Len(j), NEW b \in 1 .. Len(j), a < b PROVE place[j[a]] < place[j[b]]
  <2>1. CASE a \in 1 .. Len(v) /\ j[a] = v[a]
    <3>1. CASE b \in 1 .. Len(v) /\ j[b] = v[b]
      BY <1>3, <1>7, <2>1, <3>1
    <3>2. CASE b = Len(v) + 1 /\ j[b] = c
      BY <1>3, <2>1, <3>2
    <3>3. CASE b - Len(v) - 1 \in 1 .. Len(w) /\ j[b] = w[b - Len(v) - 1]
      <4> DEFINE k == b - Len(v) - 1
      <4>1. place[v[a]] < place[c] /\ place[c] < place[w[k]] /\ place[w[k]] \in Nat /\ place[v[a]] \in Nat
        BY <1>3, <1>4, <1>6, <2>1, <3>3
      <4>2. j[b] = w[k]
        BY <3>3
      <4> HIDE DEF k
      <4> QED BY <1>6, <2>1, <4>1, <4>2
    <3> QED BY <1>5, <3>1, <3>2, <3>3
  <2>2. CASE a = Len(v) + 1 /\ j[a] = c
    <3>1. b - Len(v) - 1 \in 1 .. Len(w) /\ j[b] = w[b - Len(v) - 1]
      <4>1. b \notin 1 .. Len(v) /\ b # Len(v) + 1
        BY <1>6, <1>7, <2>2
      <4> QED BY <1>5, <4>1
    <3> QED BY <1>4, <2>2, <3>1
  <2>3. CASE a - Len(v) - 1 \in 1 .. Len(w) /\ j[a] = w[a - Len(v) - 1]
    <3>1. b - Len(v) - 1 \in 1 .. Len(w) /\ j[b] = w[b - Len(v) - 1]
      <4>1. b \notin 1 .. Len(v) /\ b # Len(v) + 1
        <5>1. a > Len(v) + 1
          BY <1>6, <2>3
        <5> QED BY <1>6, <1>7, <5>1
      <4> QED BY <1>5, <4>1
    <3>2. a - Len(v) - 1 < b - Len(v) - 1
      BY <1>6, <1>7
    <3> QED BY <1>4, <2>3, <3>1, <3>2
  <2> QED BY <1>5, <2>1, <2>2, <2>3
<1>8. ASSUME NEW a \in 1 .. Len(j)
      PROVE  /\ place[f] < place[j[a]]
             /\ d \notin E \cup {main} => place[j[a]] < place[d]
  <2>1. CASE a \in 1 .. Len(v) /\ j[a] = v[a]
    <3>1. place[f] < place[v[a]] /\ place[v[a]] < place[c] /\ place[v[a]] \in Nat
      BY <1>3, <1>6, <2>1
    <3> QED BY <1>4, <1>6, <2>1, <3>1
  <2>2. CASE a = Len(v) + 1 /\ j[a] = c
    BY <1>3, <1>4, <2>2
  <2>3. CASE a - Len(v) - 1 \in 1 .. Len(w) /\ j[a] = w[a - Len(v) - 1]
    <3> DEFINE k == a - Len(v) - 1
    <3>1. /\ place[c] < place[w[k]] /\ place[w[k]] \in Nat /\ j[a] = w[k]
          /\ d \notin E \cup {main} => place[w[k]] < place[d]
      <4>1. k \in 1 .. Len(w) /\ j[a] = w[k]
        BY <2>3
      <4> HIDE DEF k
      <4> QED BY <1>4, <1>6, <4>1
    <3> HIDE DEF k
    <3> QED BY <1>3, <1>6, <3>1
  <2> QED BY <1>5, <2>1, <2>2, <2>3
<1>9. d \notin E \cup {main} => place[f] < place[d]
  BY <1>3, <1>4, <1>6
<1>10. ChainOf(place, E, f, j, d)
  <2>1. \A a, b \in 1 .. Len(j) : a < b => place[j[a]] < place[j[b]]
    BY <1>7, Zenon
  <2>2. /\ \A a \in 1 .. Len(j) : place[f] < place[j[a]]
        /\ d \notin E \cup {main} => \A a \in 1 .. Len(j) : place[j[a]] < place[d]
    BY <1>8, Zenon
  <2> QED BY <1>9, <2>1, <2>2, Zenon DEF ChainOf
<1> QED BY <1>2, <1>10, Zenon DEF Chain

\* What a copy of the calls of c consists of.
IsCopy(p, call, c, copy) ==
  /\ copy \in Seq(Call) /\ Len(copy) = Len(p[c])
  /\ \A k \in 1 .. Len(p[c]) :
       copy[k] = [callee |-> p[c][k].callee, via |-> call.via \o <<c>> \o p[c][k].via]

LEMMA CopyIs ==
  ASSUME NEW p \in [Fns -> Seq(Call)], NEW f \in Fns, NEW i \in 1 .. Len(p[f]),
         NEW c \in Fns, c = p[f][i].callee
  PROVE  IsCopy(p, p[f][i], c, CopyOf(p, f, i))
<1> DEFINE copy == CopyOf(p, f, i)
<1>1. /\ copy \in Seq(Call) /\ Len(copy) = Len(p[c])
      /\ \A k \in 1 .. Len(p[c]) : copy[k].callee = Callees(p)[c][k] /\ copy[k] # p[f][i]
  BY CopyFacts
<1>2. DOMAIN p[c] = 1 .. Len(p[c])
  OBVIOUS
<1>3. copy = [n \in DOMAIN p[c] |->
                [callee |-> p[c][n].callee, via |-> p[f][i].via \o <<c>> \o p[c][n].via]]
  BY Zenon DEF CopyOf
<1>4. \A k \in 1 .. Len(p[c]) :
        copy[k] = [callee |-> p[c][k].callee, via |-> p[f][i].via \o <<c>> \o p[c][k].via]
  BY <1>2, <1>3, Zenon
<1> HIDE DEF copy
<1> QED BY <1>1, <1>4, Zenon DEF copy, IsCopy

\* The calls after an inlining have chains.
LEMMA InliningKeepsChains ==
  ASSUME NEW p \in [Fns -> Seq(Call)], NEW f \in Fns, NEW i \in 1 .. Len(p[f]),
         NEW c \in Fns, c = p[f][i].callee, NEW U, f \in U, c \in U,
         NEW place \in [Fns -> Nat], NEW E, c \notin E, c # main,
         Chains(p, U, place, E)
  PROVE  Chains(AfterInline(p, f, i), U, place, E)
<1> DEFINE q == AfterInline(p, f, i)
           copy == CopyOf(p, f, i)
<1>1. copy \in Seq(Call) /\ Len(copy) = Len(p[c]) /\ p[f] \in Seq(Call) /\ p[c] \in Seq(Call)
  <2>1. IsCopy(p, p[f][i], c, copy)
    BY CopyIs, Zenon
  <2> HIDE DEF copy
  <2> QED BY <2>1, Zenon DEF IsCopy
<1>2. p[f][i] \in Call /\ p[f][i] \in ToSet(p[f])
  BY <1>1, Elements
<1>3. \A k \in 1 .. Len(p[c]) :
        copy[k] = [callee |-> p[c][k].callee, via |-> p[f][i].via \o <<c>> \o p[c][k].via]
  <2>1. IsCopy(p, p[f][i], c, copy)
    BY CopyIs, Zenon
  <2> QED BY <2>1, Zenon DEF IsCopy
<1>4. ToSet(Splice(p[f], i, copy)) \subseteq ToSet(p[f]) \cup ToSet(copy)
  BY <1>1, SpliceSets
<1>5. q = [p EXCEPT ![f] = Splice(p[f], i, copy)]
  BY DEF AfterInline
<1> HIDE DEF q, copy
<1>6. q[f] = Splice(p[f], i, copy) /\ \A g \in Fns : g # f => q[g] = p[g]
  <2> DEFINE spliced == Splice(p[f], i, copy)
  <2> HIDE DEF spliced
  <2>1. q = [p EXCEPT ![f] = spliced]
    BY <1>5 DEF spliced
  <2> QED BY <2>1 DEF spliced
<1>7. ASSUME NEW x \in ToSet(copy) PROVE Chain(place, E, f, x)
  <2>1. PICK k \in 1 .. Len(p[c]) : copy[k] = x
    BY <1>1, Elements
  <2>2. p[c][k] \in Call /\ p[c][k] \in ToSet(p[c])
    BY <1>1, Elements
  <2>3. Chain(place, E, f, p[f][i]) /\ Chain(place, E, c, p[c][k])
    BY <1>2, <2>2 DEF Chains
  <2>4. x = [callee |-> p[c][k].callee, via |-> p[f][i].via \o <<c>> \o p[c][k].via]
    BY <1>3, <2>1
  <2> QED BY <1>2, <2>2, <2>3, <2>4, ChainsJoin, Zenon
<1>8. ASSUME NEW g \in Fns, NEW x \in ToSet(q[g])
      PROVE  IF g \in U THEN Chain(place, E, g, x) ELSE x.via = <<>>
  <2>1. CASE g = f
    <3>1. x \in ToSet(p[f]) \cup ToSet(copy)
      BY <1>4, <1>6, <2>1
    <3> QED BY <1>7, <2>1, <3>1 DEF Chains
  <2>2. CASE g # f
    BY <1>6, <2>2 DEF Chains
  <2> QED BY <2>1, <2>2
<1> QED BY <1>8 DEF Chains, q

\* The entrances, rounds and places are those that the first pass finds, in U the
\* functions that it reaches.  All passes agree with it on the entrances.
Agreed(U, place, rho, E) ==
  /\ U \in SUBSET Fns /\ ProgramFns(Called) \subseteq U
  /\ RoundsOf(Called, rho, E) /\ PlacesOf(Called, place, E)
  /\ Chains(calls, U, place, E)
  /\ InPass => /\ InOrder \subseteq U
               /\ \A f \in InOrder : f \in recursiveChainEntranceFns <=> f \in E

RecursionInv == \E U, place, rho, E : Agreed(U, place, rho, E)

LEMMA RecursionInit == Init => RecursionInv
<1> SUFFICES ASSUME Init PROVE RecursionInv
  OBVIOUS
<1> DEFINE r == collectInDepthOrderFns(Called)
           U == ProgramFns(Called)
<1>1. calls \in [Fns -> Seq(Call)]
  BY InlinerInit DEF InlinerInv, Types
<1>2. Called \in [Fns -> Seq(Fns)]
  BY <1>1, CalleesTypes DEF Called
<1>3. PICK rho, place : RoundsOf(Called, rho, r.entrances) /\ PlacesOf(Called, place, r.entrances)
  BY <1>2, OrderHasRounds
<1> HIDE DEF r
<1>4. U \in SUBSET Fns
  BY <1>2, CollectedGraph
<1>5. ASSUME NEW f \in Fns, NEW call \in ToSet(calls[f])
      PROVE  call.via = <<>> /\ call.callee \in ToSet(Called[f])
  <2>1. PICK i \in 1 .. Len(calls[f]) : calls[f][i] = call
    BY <1>1, <1>5, Elements
  <2>2. PICK p \in Programs : calls = [g \in Fns |-> [k \in DOMAIN p.calls[g] |->
                                         [callee |-> p.calls[g][k], via |-> <<>>]]]
    BY DEF Init
  <2>3. calls[f] = [k \in DOMAIN p.calls[f] |-> [callee |-> p.calls[f][k], via |-> <<>>]]
    BY <2>2
  <2>4. i \in DOMAIN calls[f]
    <3>1. calls[f] \in Seq(Call)
      BY <1>1
    <3> QED BY <3>1
  <2>5. calls[f][i].via = <<>>
    BY <2>3, <2>4
  <2>6. calls[f][i].callee \in ToSet(Called[f])
    BY <1>1, CalleesTypes DEF Called
  <2> QED BY <2>1, <2>5, <2>6
<1>6. ASSUME NEW f \in Fns, NEW call \in ToSet(calls[f]), f \in U
      PROVE  Chain(place, r.entrances, f, call)
  <2>1. call.via = <<>> /\ call.callee \in ToSet(Called[f])
    BY <1>5
  <2>2. \A a \in 1 .. Len(call.via) : FALSE
    BY <2>1
  <2>3. call.callee \in U
    BY <1>2, <1>6, <2>1, CollectedGraph DEF Closed
  <2>4. call.callee \notin r.entrances \cup {main} => place[f] < place[call.callee]
    BY <1>3, <1>6, <2>1, <2>3 DEF PlacesOf
  <2> QED BY <2>2, <2>4, Zenon DEF Chain, ChainOf
<1>7. Chains(calls, U, place, r.entrances)
  BY <1>5, <1>6 DEF Chains
<1>8. ~InPass
  BY DEF Init, InPass
<1>9. Agreed(U, place, rho, r.entrances)
  BY <1>3, <1>4, <1>7, <1>8, Zenon DEF Agreed
<1> QED BY <1>9 DEF RecursionInv

\* Steps that do not change the program and do not order its functions again.
LEMMA RecursionSame ==
  ASSUME RecursionInv, calls' = calls,
         InPass' => InPass /\ UNCHANGED orders
  PROVE  RecursionInv'
<1>1. PICK U, place, rho, E : Agreed(U, place, rho, E)
  BY DEF RecursionInv
<1>2. Called' = Called
  BY DEF Called
<1>3. InPass' => InPass /\ InOrder' = InOrder /\ recursiveChainEntranceFns' = recursiveChainEntranceFns
  BY DEF InOrder, orders
<1>4. Agreed(U, place, rho, E)'
  BY <1>1, <1>2, <1>3 DEF Agreed
<1> QED BY <1>4 DEF RecursionInv

LEMMA RecursionRun ==
  ASSUME InlinerInv, RecursionInv, runOnModule
  PROVE  RecursionInv'
<1>1. calls' = calls /\ Types
  BY DEF runOnModule, program, InlinerInv
<1>2. CASE TooBig
  <2>1. ~InPass'
    BY <1>2 DEF runOnModule, InPass
  <2> QED BY <1>1, <2>1, RecursionSame
<1>3. CASE ~TooBig
  <2> DEFINE r == collectInDepthOrderFns(Called)
  <2>1. PICK U, place, rho, E : Agreed(U, place, rho, E)
    BY DEF RecursionInv
  <2>2. InOrder' = ProgramFns(Called) /\ Called' = Called
    BY <1>1, <1>3, CollectTables
  <2>3. recursiveChainEntranceFns' = r.entrances
    BY <1>3 DEF runOnModule, Called
  <2>4. Called \in [Fns -> Seq(Fns)]
    BY <1>1, CalleesTypes DEF Called, Types
  <2>5. PICK sigma, position : RoundsOf(Called, sigma, r.entrances) /\ PlacesOf(Called, position, r.entrances)
    BY <2>4, OrderHasRounds
  <2> HIDE DEF r
  <2>6. RoundsOf(Called, rho, E) /\ PlacesOf(Called, place, E) /\ ProgramFns(Called) \subseteq U
    BY <2>1 DEF Agreed
  <2>7. \A f \in ProgramFns(Called) : f \in r.entrances <=> f \in E
    BY <2>4, <2>5, <2>6, EntrancesAreUnique
  <2>8. InOrder' \subseteq U /\ \A f \in InOrder' : f \in recursiveChainEntranceFns' <=> f \in E
    BY <2>2, <2>3, <2>6, <2>7
  <2>9. Agreed(U, place, rho, E)'
    BY <1>1, <2>1, <2>2, <2>8 DEF Agreed
  <2> QED BY <2>9 DEF RecursionInv
<1> QED BY <1>2, <1>3

\* What is inlined is no entrance and not main.
LEMMA RecursionInlining ==
  ASSUME InlinerInv, RecursionInv, InPass, NEW f, NEW i, NEW c, Inlining(f, i, c)
  PROVE  RecursionInv'
<1>1. Types /\ TablesInv
  BY DEF InlinerInv
<1>2. /\ f \in InOrder /\ i \in DOMAIN calls[f] /\ c = calls[f][i].callee /\ c # f
      /\ fnOrders(f) <= fnOrders(c) /\ inlineFunctionCall(f, i) /\ UNCHANGED orders
  BY Zenon DEF Inlining
<1>3. /\ f \in InOrder /\ c \in InOrder /\ InOrder \in SUBSET Fns /\ f \in Fns /\ c \in Fns
      /\ Called \in [Fns -> Seq(Fns)] /\ Called' \in [Fns -> Seq(Fns)]
      /\ Replaced(Called, f, c, Called')
  <2>1. Inlined(f, i, c)
    BY <1>1, InliningChanges
  <2> QED BY <2>1, Zenon DEF Inlined
<1>4. c \notin recursiveChainEntranceFns
  BY <1>2, Zenon DEF inlineFunctionCall, CanInline, canInlineWithoutRecursiveLoop
<1>5. c # main
  <2> SUFFICES ASSUME c = main PROVE FALSE
    OBVIOUS
  <2>1. depthOrderedFns \in Seq(Fns) /\ IsInjective(depthOrderedFns)
        /\ Len(depthOrderedFns) \in Nat \ {0} /\ depthOrderedFns[1] = main
    BY <1>1 DEF Types, TablesInv
  <2>2. OrderIn(depthOrderedFns, depthOrderedFns[1]) = 1 - 1
    BY <2>1, PlaceInOrder
  <2>3. fnOrders(c) = 0 /\ fnOrders(f) \in Nat
    BY <2>1, <2>2, PlaceInOrder DEF fnOrders
  <2>4. fnOrders(f) = fnOrders(c)
    BY <1>2, <2>3
  <2>5. f = c
    BY <1>3, <2>1, <2>4, PlaceInOrder DEF fnOrders, InOrder
  <2> QED BY <1>2, <2>5
<1>6. PICK U, place, rho, E : Agreed(U, place, rho, E)
  BY DEF RecursionInv
<1>7. /\ U \in SUBSET Fns /\ ProgramFns(Called) \subseteq U
      /\ RoundsOf(Called, rho, E) /\ PlacesOf(Called, place, E)
      /\ Chains(calls, U, place, E)
      /\ InOrder \subseteq U
      /\ \A g \in InOrder : g \in recursiveChainEntranceFns <=> g \in E
  BY <1>6 DEF Agreed
<1>8. c \notin E /\ f \in U /\ c \in U
  BY <1>3, <1>4, <1>7
<1>9. /\ RoundsOf(Called', rho, E) /\ PlacesOf(Called', place, E)
      /\ ProgramFns(Called') \subseteq ProgramFns(Called)
  <2>1. PICK p, q : p = Called /\ q = Called'
    OBVIOUS
  <2>2. /\ p \in [Fns -> Seq(Fns)] /\ q \in [Fns -> Seq(Fns)] /\ f \in Fns /\ c \in Fns
        /\ f # c /\ Replaced(p, f, c, q) /\ RoundsOf(p, rho, E) /\ PlacesOf(p, place, E)
        /\ c \notin E /\ c # main
    BY <1>2, <1>3, <1>5, <1>7, <1>8, <2>1, Zenon
  <2>3. RoundsOf(q, rho, E) /\ PlacesOf(q, place, E)
    BY <2>2, InliningKeepsRounds
  <2>4. ProgramFns(q) \subseteq ProgramFns(p)
    BY <2>2, NothingMoreReached
  <2> QED BY <2>1, <2>3, <2>4
<1>10. ProgramFns(Called') \subseteq U
  BY <1>7, <1>9
<1>11. Chains(calls', U, place, E)
  <2>1. calls' = AfterInline(calls, f, i)
    BY <1>2, Zenon DEF inlineFunctionCall, InlineFunction, AfterInline, CopyOf
  <2>2. calls \in [Fns -> Seq(Call)]
    BY <1>1 DEF Types
  <2>3. i \in 1 .. Len(calls[f])
    <3>1. calls[f] \in Seq(Call)
      BY <1>3, <2>2
    <3> QED BY <1>2, <3>1
  <2>4. place \in [Fns -> Nat]
    BY <1>7 DEF PlacesOf
  <2>5. Chains(AfterInline(calls, f, i), U, place, E)
    BY <1>2, <1>3, <1>5, <1>7, <1>8, <2>2, <2>3, <2>4, InliningKeepsChains
  <2> QED BY <2>1, <2>5
<1>12. InOrder' = InOrder /\ recursiveChainEntranceFns' = recursiveChainEntranceFns
  BY <1>2 DEF orders, InOrder
<1>13. Agreed(U, place, rho, E)'
  BY <1>7, <1>9, <1>10, <1>11, <1>12 DEF Agreed
<1> QED BY <1>13 DEF RecursionInv

LEMMA RecursionNext == InlinerInv /\ RecursionInv /\ [Next]_vars => RecursionInv'
<1> SUFFICES ASSUME InlinerInv, RecursionInv, [Next]_vars PROVE RecursionInv'
  OBVIOUS
<1>1. CASE runOnModule
  BY <1>1, RecursionRun
<1>2. CASE AvoidFunction \/ NothingToInline
  BY <1>2, RecursionSame DEF AvoidFunction, NothingToInline, program, InPass
<1>3. CASE inlineCallsInvolvedInLoopCarriedDataDependences
  <2>1. \E f, i, c : Inlining(f, i, c)
    BY <1>3, CarriedIsInlining
  <2>2. InPass
    BY <1>3 DEF inlineCallsInvolvedInLoopCarriedDataDependences, InPass
  <2> QED BY <2>1, <2>2, RecursionInlining
<1>4. CASE CarriedExit \/ IndexOutOfRange
  BY <1>4, RecursionSame DEF CarriedExit, IndexOutOfRange, program, InPass
<1>5. CASE getFunctionsToInline
  BY <1>5, RecursionSame DEF getFunctionsToInline, program, InPass
<1>6. CASE TakeChild
  BY <1>6, RecursionSame DEF TakeChild, program, InPass
<1>7. ASSUME NEW parentF \in Fns, SkipParent(parentF) \/ AvoidParent(parentF) PROVE RecursionInv'
  BY <1>7, RecursionSame DEF SkipParent, AvoidParent, program, InPass
<1>8. ASSUME NEW parentF \in Fns, InlineIntoParent(parentF) PROVE RecursionInv'
  <2>1. \E f, i, c : Inlining(f, i, c)
    BY <1>8, HoistingIsInlining
  <2>2. InPass
    BY <1>8 DEF InlineIntoParent, InPass
  <2> QED BY <2>1, <2>2, RecursionInlining
<1>9. CASE LeaveChild
  BY <1>9, RecursionSame DEF LeaveChild, program, InPass
<1>10. CASE registerRemainingFunctions
  BY <1>10, RecursionSame DEF registerRemainingFunctions, program, InPass
<1>11. CASE RunAgain
  BY <1>11, RecursionSame DEF RunAgain, program, InPass
<1>12. CASE FixedPoint
  BY <1>12, RecursionSame DEF FixedPoint, program, InPass
<1>13. CASE Terminated \/ UNCHANGED vars
  BY <1>13, RecursionSame DEF Terminated, vars, program, InPass
<1> QED BY <1>1, <1>2, <1>3, <1>4, <1>5, <1>6, <1>7, <1>8, <1>9, <1>10, <1>11, <1>12, <1>13 DEF Next

\* RecursionNotUnrolled: no pass inlines a function into a copy of itself, whatever
\* the recursion in the program, its size and the choices of NOELLE's analyses.
THEOREM RecursionIsNotUnrolled == Spec => []RecursionNotUnrolled
<1>1. InlinerInv /\ RecursionInv => RecursionNotUnrolled
  <2> SUFFICES ASSUME InlinerInv, RecursionInv, NEW f \in Fns, NEW i \in DOMAIN calls[f]
               PROVE  IsInjective(calls[f][i].via) /\ f \notin ToSet(calls[f][i].via)
    BY DEF RecursionNotUnrolled
  <2>1. calls[f] \in Seq(Call)
    BY DEF InlinerInv, Types
  <2>2. calls[f][i] \in Call /\ calls[f][i] \in ToSet(calls[f])
    BY <2>1, Elements
  <2>3. PICK U, place, rho, E : Agreed(U, place, rho, E)
    BY DEF RecursionInv
  <2>4. place \in [Fns -> Nat]
    BY <2>3 DEF Agreed, PlacesOf
  <2>5. CASE f \in U
    <3>1. Chain(place, E, f, calls[f][i])
      BY <2>2, <2>3, <2>5 DEF Agreed, Chains
    <3> QED BY <2>2, <2>4, <3>1, ChainIsInjective
  <2>6. CASE f \notin U
    <3>1. calls[f][i].via = <<>>
      BY <2>2, <2>3, <2>6 DEF Agreed, Chains
    <3>2. IsInjective(<<>>) /\ ToSet(<<>>) = {}
      BY DEF IsInjective, ToSet
    <3> QED BY <3>1, <3>2
  <2> QED BY <2>5, <2>6
<1> QED BY <1>1, RecursionInit, RecursionNext, InlinerInvariant, PTL DEF Spec
=============================================================================
