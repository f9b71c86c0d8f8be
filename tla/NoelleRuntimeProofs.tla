------------------------- MODULE NoelleRuntimeProofs -------------------------
(***************************************************************************)
(* Proofs about the core accounting, for every number of calls, of cores   *)
(* and of values of uint32_t.                                              *)
(***************************************************************************)
EXTENDS NoelleRuntime, FiniteSetTheorems, TLAPS

\* The inductive invariant.  Conservation alone is not inductive: a reservation
\* must not overwrite one the call holds already, and the count of the reserved
\* cores must be the size of a finite set.
CoresInv ==
  /\ TypeOK
  /\ IsFiniteSet(ReservedCores)
  /\ \A c \in Calls : phase[c] # "reserved" => reserved[c] = 0
  /\ CoresConserved

\* reserveCores returns at least one core.
LEMMA GrantedType ==
  ASSUME idleCores \in Int, NEW n \in Nat \ {0}
  PROVE  Granted(n) \in Nat \ {0}
<1>1. ToUInt(idleCores) \in Nat
  BY RuntimeAssumption DEF RuntimeAssumption, ToUInt
<1> QED
  BY <1>1 DEF Granted

\* n cores of one call are n elements of ReservedCores.
LEMMA CoresOfACall ==
  ASSUME NEW c, NEW n \in Nat
  PROVE  /\ IsFiniteSet({c} \X (1 .. n))
         /\ Cardinality({c} \X (1 .. n)) = n
<1>1. IsFiniteSet({c}) /\ Cardinality({c}) = 1
  BY FS_Singleton
<1>2. IsFiniteSet(1 .. n) /\ Cardinality(1 .. n) = n
  BY FS_Interval
<1>3. /\ IsFiniteSet({c} \X (1 .. n))
      /\ Cardinality({c} \X (1 .. n)) = Cardinality({c}) * Cardinality(1 .. n)
  BY <1>1, <1>2, FS_Product, Zenon
<1> QED
  BY <1>1, <1>2, <1>3

\* The reserved cores of a function from calls to numbers.
CoresIn(f) == UNION {{c} \X (1 .. f[c]) : c \in Calls}

\* Giving n cores to a call that holds none adds n elements, and taking them
\* away again removes as many.
LEMMA OneCallMore ==
  ASSUME NEW f \in [Calls -> Nat], NEW g \in [Calls -> Nat], NEW c \in Calls,
         f[c] = 0, \A d \in Calls \ {c} : g[d] = f[d]
  PROVE  /\ IsFiniteSet(CoresIn(f)) <=> IsFiniteSet(CoresIn(g))
         /\ IsFiniteSet(CoresIn(f)) =>
              Cardinality(CoresIn(g)) = Cardinality(CoresIn(f)) + g[c]
<1> DEFINE N == {c} \X (1 .. g[c])
<1>1. CoresIn(g) = CoresIn(f) \cup N
  <2>1. \A x : x \in CoresIn(g) <=> \E d \in Calls : x \in {d} \X (1 .. g[d])
    BY DEF CoresIn
  <2>2. \A x : x \in CoresIn(f) <=> \E d \in Calls : x \in {d} \X (1 .. f[d])
    BY DEF CoresIn
  <2>3. {c} \X (1 .. f[c]) = {}
    OBVIOUS
  <2> QED
    BY <2>1, <2>2, <2>3
<1>2. CoresIn(f) \cap N = {}
  BY DEF CoresIn
<1>3. IsFiniteSet(N) /\ Cardinality(N) = g[c]
  BY CoresOfACall
<1>4. IsFiniteSet(CoresIn(f)) =>
        /\ IsFiniteSet(CoresIn(g))
        /\ Cardinality(CoresIn(g)) = Cardinality(CoresIn(f)) + g[c]
  <2> HAVE IsFiniteSet(CoresIn(f))
  <2>1. /\ IsFiniteSet(CoresIn(g))
        /\ Cardinality(CoresIn(g)) =
             Cardinality(CoresIn(f)) + Cardinality(N) - Cardinality({})
    BY <1>1, <1>2, <1>3, FS_Union
  <2>2. Cardinality(CoresIn(f)) \in Nat
    BY FS_CardinalityType
  <2> QED
    BY <2>1, <2>2, <1>3, FS_EmptySet
<1>5. IsFiniteSet(CoresIn(g)) => IsFiniteSet(CoresIn(f))
  <2> HAVE IsFiniteSet(CoresIn(g))
  <2>1. CoresIn(f) \in SUBSET CoresIn(g)
    BY <1>1
  <2> QED
    BY <2>1, FS_Subset
<1> QED
  BY <1>4, <1>5

LEMMA ReservedCoresIn == ReservedCores = CoresIn(reserved)
BY DEF ReservedCores, CoresIn

LEMMA InitCoresInv == InitCores => CoresInv
<1> SUFFICES ASSUME InitCores PROVE CoresInv
  OBVIOUS
<1>1. TypeOK
  BY RuntimeAssumption DEF InitCores, TypeOK, RuntimeAssumption
<1>2. ReservedCores = {}
  BY DEF InitCores, ReservedCores
<1>3. IsFiniteSet(ReservedCores) /\ Cardinality(ReservedCores) = 0
  BY <1>2, FS_EmptySet
<1>4. CoresConserved
  BY <1>3, RuntimeAssumption DEF InitCores, CoresConserved, RuntimeAssumption
<1> QED
  BY <1>1, <1>3, <1>4 DEF InitCores, CoresInv

\* Each operation of the runtime, and each step of a call, keeps the invariant.
LEMMA NextCoresInv == CoresInv /\ [Next]_coreVars => CoresInv'
<1> SUFFICES ASSUME CoresInv, [Next]_coreVars PROVE CoresInv'
  OBVIOUS
<1> USE DEF CoresInv, TypeOK
<1>1. ASSUME UNCHANGED <<idleCores, reserved>>,
             \A c \in Calls : phase'[c] # "reserved" => reserved[c] = 0,
             phase' \in [Calls -> {"outside", "parallel", "sequential", "reserved",
                                   "returned"}]
      PROVE  CoresInv'
  BY <1>1 DEF CoresConserved, ReservedCores
<1>2. CASE UNCHANGED coreVars
  BY <1>1, <1>2 DEF coreVars
<1>3. ASSUME NEW c \in Calls, ChooseVersion(c) PROVE CoresInv'
  BY <1>1, <1>3 DEF ChooseVersion
<1>4. ASSUME NEW c \in Calls, RunSequential(c) PROVE CoresInv'
  BY <1>1, <1>4 DEF RunSequential
<1>5. ASSUME NEW c \in Calls, ReserveCores(c) PROVE CoresInv'
  <2>1. PICK n \in Nat \ {0} :
          /\ idleCores' = idleCores - n
          /\ reserved' = [reserved EXCEPT ![c] = n]
    BY <1>5, GrantedType, RuntimeAssumption DEF ReserveCores, RuntimeAssumption
  <2>2. reserved[c] = 0 /\ phase' = [phase EXCEPT ![c] = "reserved"]
    BY <1>5 DEF ReserveCores
  <2>3. TypeOK' /\ reserved'[c] = n
    BY <2>1, <2>2
  <2>4. /\ IsFiniteSet(CoresIn(reserved'))
        /\ Cardinality(CoresIn(reserved')) = Cardinality(CoresIn(reserved)) + n
    BY <2>1, <2>2, <2>3, OneCallMore, ReservedCoresIn
  <2>5. ReservedCores' = CoresIn(reserved')
    BY DEF ReservedCores, CoresIn
  <2>6. Cardinality(ReservedCores) \in Nat
    BY FS_CardinalityType
  <2>7. CoresConserved'
    BY <2>1, <2>4, <2>5, <2>6, ReservedCoresIn DEF CoresConserved
  <2> QED
    BY <2>1, <2>2, <2>3, <2>4, <2>5, <2>7
<1>6. ASSUME NEW c \in Calls, phase[c] = "reserved", ReleaseCores(c, "returned")
      PROVE  CoresInv'
  <2>1. /\ idleCores' = idleCores + reserved[c]
        /\ reserved' = [reserved EXCEPT ![c] = 0]
        /\ phase' = [phase EXCEPT ![c] = "returned"]
    BY <1>6 DEF ReleaseCores
  <2>2. TypeOK' /\ reserved'[c] = 0 /\ \A d \in Calls \ {c} : reserved[d] = reserved'[d]
    BY <2>1
  <2>3. IsFiniteSet(CoresIn(reserved))
    BY ReservedCoresIn
  <2>4. /\ IsFiniteSet(CoresIn(reserved'))
        /\ Cardinality(CoresIn(reserved)) = Cardinality(CoresIn(reserved')) + reserved[c]
    BY <2>2, <2>3, OneCallMore
  <2>5. ReservedCores' = CoresIn(reserved')
    BY DEF ReservedCores, CoresIn
  <2>6. Cardinality(ReservedCores') \in Nat
    BY <2>4, <2>5, FS_CardinalityType
  <2>7. CoresConserved'
    BY <2>1, <2>4, <2>5, <2>6, ReservedCoresIn DEF CoresConserved
  <2> QED
    BY <2>1, <2>2, <2>4, <2>5, <2>7
<1>7. ASSUME NEW c \in Calls, CallAgain(c) PROVE CoresInv'
  BY <1>1, <1>7 DEF CallAgain
<1> QED
  BY <1>2, <1>3, <1>4, <1>5, <1>6, <1>7 DEF Next

\* The counters of reserveCores and releaseCores keep their types: in
\* particular a call never holds a negative number of cores, although the
\* idle cores may be negative.
THEOREM TypeCorrect == Spec => []TypeOK
<1>1. CoresInv => TypeOK
  BY DEF CoresInv
<1> QED
  BY <1>1, InitCoresInv, NextCoresInv, PTL DEF Spec

\* However many calls reserve and release cores, idle and reserved cores add up
\* to the cores of the machine.
THEOREM ConservationOfCores == Spec => []CoresConserved
<1>1. CoresInv => CoresConserved
  BY DEF CoresInv
<1> QED
  BY <1>1, InitCoresInv, NextCoresInv, PTL DEF Spec
=============================================================================
