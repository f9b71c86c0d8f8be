------------------------- MODULE DOALLChunkingProofs -------------------------
(***************************************************************************)
(* For every number of tasks, chunk size and trip count: the chunks of the *)
(* tasks of a DOALL loop cover its iterations without overlap, and the     *)
(* live-out and the reduction variable get their sequential values.        *)
(***************************************************************************)
EXTENDS DOALLChunking, Folds, FiniteSetTheorems, WellFoundedInduction, TLAPS

-----------------------------------------------------------------------------
(* Arithmetic.                                                             *)

LEMMA ProductNat == ASSUME NEW a \in Nat, NEW b \in Nat PROVE a * b \in Nat
OBVIOUS

LEMMA ProductGrows ==
  ASSUME NEW a \in Int, NEW b \in Int, NEW m \in Nat, a <= b
  PROVE  a * m <= b * m
<1>1. b - a \in Nat
  OBVIOUS
<1>2. (b - a) * m \in Nat
  BY <1>1, ProductNat
<1>3. (b - a) * m = b * m - a * m
  OBVIOUS
<1>4. a * m \in Int /\ b * m \in Int
  OBVIOUS
<1> QED BY <1>2, <1>3, <1>4

\* A quotient and a remainder determine each other.
LEMMA QuotientsCompare ==
  ASSUME NEW q \in Int, NEW p \in Int, NEW m \in Nat, NEW c \in 0 .. m - 1,
         NEW d \in 0 .. m - 1, q * m + c <= p * m + d
  PROVE  q <= p
<1>1. SUFFICES ASSUME p + 1 <= q PROVE FALSE
  OBVIOUS
<1>2. (p + 1) * m <= q * m
  BY <1>1, ProductGrows
<1>3. (p + 1) * m = p * m + m
  OBVIOUS
<1>4. p * m \in Int /\ q * m \in Int
  OBVIOUS
<1> QED BY <1>2, <1>3, <1>4

LEMMA Division ==
  ASSUME NEW k \in Int, NEW m \in Nat, m # 0
  PROVE  k \div m \in Int /\ k % m \in 0 .. m - 1 /\ k = (k \div m) * m + (k % m)
<1>1. k \div m \in Int
  OBVIOUS
<1>2. k % m \in 0 .. m - 1
  OBVIOUS
<1>3. k = m * (k \div m) + (k % m)
  OBVIOUS
<1> DEFINE q == k \div m
           d == k % m
<1>4. q \in Int /\ d \in Int /\ k = m * q + d
  BY <1>1, <1>2, <1>3
<1> HIDE DEF q, d
<1>5. k = q * m + d
  BY <1>4
<1> QED BY <1>1, <1>2, <1>5 DEF q, d

LEMMA Remainder ==
  ASSUME NEW q \in Int, NEW m \in Nat, m # 0, NEW c \in 0 .. m - 1
  PROVE  (q * m + c) % m = c
<1> DEFINE k == q * m + c
           p == k \div m
           d == k % m
<1>1. k \in Int /\ p \in Int /\ d \in 0 .. m - 1 /\ k = p * m + d
  <2>1. k \in Int
    OBVIOUS
  <2> HIDE DEF k
  <2> QED BY <2>1, Division
<1> HIDE DEF p, d
<1>2. q = p
  BY <1>1, QuotientsCompare
<1> QED BY <1>1, <1>2 DEF d

\* Values that fit the type stay as they are.
LEMMA WrapFits ==
  ASSUME NEW x \in Int, -(Modulus \div 2) <= x, x < Modulus \div 2
  PROVE  Wrap(x) = x
<1> DEFINE h == Modulus \div 2
<1>1. Modulus \in Nat /\ Modulus # 0
  BY ChunkingAssumption DEF ChunkingAssumption
<1>2. h \in Int /\ 2 * h <= Modulus
  BY <1>1
<1>3. x + h \in Int /\ 0 <= x + h /\ x + h < Modulus
  <2> HIDE DEF h
  <2> QED BY <1>1, <1>2 DEF h
<1>4. (x + h) % Modulus = x + h
  <2> DEFINE y == x + h
  <2>1. y \in Int /\ 0 <= y /\ y < Modulus
    BY <1>3
  <2> HIDE DEF y
  <2>2. y % Modulus = y
    BY <1>1, <2>1
  <2> QED BY <2>2 DEF y
<1> HIDE DEF h
<1>5. (x + h) - h = x
  BY <1>2
<1> QED BY <1>4, <1>5 DEF Wrap, h

-----------------------------------------------------------------------------
(* Chunks: with n tasks and chunks of c iterations, iteration              *)
(* (r * n + t) * c + d is the d-th of task t's r-th chunk.                 *)

At(n, c, t, r, d) == (r * n + t) * c + d

LEMMA AtType ==
  ASSUME NEW n \in Nat, NEW c \in Nat, NEW t \in Nat, NEW r \in Nat, NEW d \in Nat
  PROVE  At(n, c, t, r, d) \in Nat
<1>1. r * n + t \in Nat
  BY ProductNat
<1>2. (r * n + t) * c \in Nat
  BY <1>1, ProductNat
<1> QED BY <1>2 DEF At

\* Chunks do not overlap.
LEMMA ChunksApart ==
  ASSUME NEW n \in Nat, NEW c \in Nat, NEW t \in 0 .. n - 1, NEW u \in 0 .. n - 1,
         NEW r \in Nat, NEW p \in Nat, NEW d \in 0 .. c - 1, NEW e \in 0 .. c - 1,
         At(n, c, t, r, d) = At(n, c, u, p, e)
  PROVE  t = u /\ r = p /\ d = e
<1> DEFINE q == r * n + t
           s == p * n + u
<1>1. q \in Int /\ s \in Int
  OBVIOUS
<1>2. q * c + d = s * c + e
  BY DEF At
<1>3. q <= s /\ s <= q
  <2> HIDE DEF q, s
  <2>1. q * c + d \in Int /\ s * c + e \in Int
    BY <1>1
  <2>2. q * c + d <= s * c + e /\ s * c + e <= q * c + d
    BY <1>2, <2>1
  <2> QED BY <1>1, <2>2, QuotientsCompare
<1>4. q = s /\ d = e
  <2>1. q = s
    BY <1>1, <1>3
  <2> HIDE DEF q, s
  <2>2. q * c \in Int
    BY <1>1
  <2> QED BY <1>2, <2>1, <2>2
<1>5. r * n + t <= p * n + u /\ p * n + u <= r * n + t
  BY <1>3
<1>6. r = p
  BY <1>5, QuotientsCompare
<1> QED BY <1>4, <1>6

\* Every iteration is in a chunk of some task.
LEMMA ChunksCover ==
  ASSUME NEW n \in Nat \ {0}, NEW c \in Nat \ {0}, NEW k \in Nat
  PROVE  \E t \in 0 .. n - 1 : \E r \in Nat : \E d \in 0 .. c - 1 : k = At(n, c, t, r, d)
<1>1. ASSUME NEW x \in Nat, NEW m \in Nat \ {0}
      PROVE  \E q \in Nat : \E d \in 0 .. m - 1 : x = q * m + d
  <2> DEFINE q == x \div m
             d == x % m
  <2>1. q \in Int /\ d \in 0 .. m - 1 /\ x = q * m + d
    BY Division
  <2> HIDE DEF q, d
  <2>2. 0 * m + 0 <= q * m + d
    BY <2>1
  <2>3. 0 <= q
    BY <2>1, <2>2, QuotientsCompare
  <2> QED BY <2>1, <2>3
<1>2. PICK q \in Nat : \E d \in 0 .. c - 1 : k = q * c + d
  BY <1>1
<1>3. PICK r \in Nat : \E t \in 0 .. n - 1 : q = r * n + t
  BY <1>1
<1> QED BY <1>2, <1>3 DEF At

\* Between the last iteration of a chunk and the first of the task's next one
\* there is no other iteration of the task.
LEMMA NoneBetween ==
  ASSUME NEW n \in Nat, NEW c \in Nat, NEW t \in 0 .. n - 1, NEW r \in Nat, NEW p \in Nat,
         NEW d \in 0 .. c - 1, d + 1 = c, NEW e \in 0 .. c - 1,
         At(n, c, t, r, d) < At(n, c, t, p, e)
  PROVE  At(n, c, t, r + 1, 0) <= At(n, c, t, p, e)
<1>1. r < p
  <2>1. CASE p <= r
    <3>1. p * n <= r * n
      BY <2>1, ProductGrows
    <3>2. p * n + t <= r * n + t
      BY <3>1
    <3>3. (p * n + t) * c <= (r * n + t) * c
      BY <3>2, ProductGrows
    <3> QED BY <3>3 DEF At
  <2> QED BY <2>1
<1>2. (r + 1) * n <= p * n
  BY <1>1, ProductGrows
<1>3. (r + 1) * n + t <= p * n + t
  BY <1>2
<1>4. ((r + 1) * n + t) * c <= (p * n + t) * c
  BY <1>3, ProductGrows
<1> QED BY <1>4 DEF At

-----------------------------------------------------------------------------
(* Bags that are sets, and their sum over the tasks.                       *)

LEMMA SetToBagFacts ==
  ASSUME NEW S
  PROVE  DOMAIN SetToBag(S) = S /\ \A x \in S : SetToBag(S)[x] = 1
BY DEF SetToBag

LEMMA SumOfSets ==
  ASSUME NEW S, NEW T, S \cap T = {}
  PROVE  SetToBag(S) (+) SetToBag(T) = SetToBag(S \cup T)
<1>1. /\ DOMAIN SetToBag(S) = S /\ \A x \in S : SetToBag(S)[x] = 1
      /\ DOMAIN SetToBag(T) = T /\ \A x \in T : SetToBag(T)[x] = 1
  BY SetToBagFacts
<1> QED BY <1>1 DEF (+), SetToBag

\* The recursion of FoldFunctionOnSet for bag addition.
FoldsTo(g, base, f, S) ==
  g = [s \in SUBSET S |->
         IF s = {} THEN base
         ELSE f[CHOOSE x \in s : TRUE] (+) g[s \ {CHOOSE x \in s : TRUE}]]

\* The sum of bags that are disjoint sets is their union.
LEMMA FoldOfSets ==
  ASSUME NEW S, IsFiniteSet(S), NEW B, NEW A, NEW f,
         \A t \in S : f[t] = SetToBag(A[t]) /\ A[t] \cap B = {},
         \A t, u \in S : t # u => A[t] \cap A[u] = {}
  PROVE  FoldFunctionOnSet((+), SetToBag(B), f, S) = SetToBag(B \cup UNION {A[t] : t \in S})
<1> DEFINE Sum(s) == SetToBag(B \cup UNION {A[t] : t \in s})
           pick(s) == CHOOSE x \in s : TRUE
           h == [s \in SUBSET S |-> Sum(s)]
<1>1. ASSUME NEW s \in SUBSET S, s # {}
      PROVE  pick(s) \in s /\ Sum(s) = f[pick(s)] (+) Sum(s \ {pick(s)})
  <2>1. PICK x \in s : x = pick(s)
    BY <1>1
  <2> DEFINE T == B \cup UNION {A[t] : t \in s \ {x}}
  <2>2. A[x] \cap T = {}
    BY <2>1
  <2>3. B \cup UNION {A[t] : t \in s} = A[x] \cup T
    BY <2>1
  <2>4. f[x] = SetToBag(A[x])
    BY <2>1
  <2> HIDE DEF T
  <2>5. SetToBag(A[x]) (+) SetToBag(T) = SetToBag(A[x] \cup T)
    BY <2>2, SumOfSets
  <2>6. Sum(s) = f[x] (+) SetToBag(T)
    BY <2>3, <2>4, <2>5
  <2> QED BY <2>1, <2>6 DEF T
<1>2. Sum({}) = SetToBag(B)
  BY DEF SetToBag
<1> HIDE DEF Sum
<1>3. FoldsTo(h, SetToBag(B), f, S)
  <2>1. ASSUME NEW s \in SUBSET S
        PROVE  h[s] = IF s = {} THEN SetToBag(B) ELSE f[pick(s)] (+) h[s \ {pick(s)}]
    <3>1. CASE s = {}
      BY <1>2, <3>1
    <3>2. CASE s # {}
      <4>1. h[s] = Sum(s) /\ h[s \ {pick(s)}] = Sum(s \ {pick(s)})
        BY Zenon
      <4> QED BY <1>1, <3>2, <4>1
    <3> QED BY <3>1, <3>2
  <2> QED BY <2>1, Zenon DEF FoldsTo
<1> DEFINE g == CHOOSE g : FoldsTo(g, SetToBag(B), f, S)
<1>4. FoldsTo(g, SetToBag(B), f, S)
  BY <1>3, Zenon
<1>5. FoldFunctionOnSet((+), SetToBag(B), f, S) = g[S]
  BY Zenon DEF FoldFunctionOnSet, MapThenFoldSet, FoldsTo
<1> HIDE DEF g, h
<1>6. ASSUME NEW s \in SUBSET S
      PROVE  g[s] = IF s = {} THEN SetToBag(B) ELSE f[pick(s)] (+) g[s \ {pick(s)}]
  BY <1>4, Zenon DEF FoldsTo
<1> HIDE DEF pick
<1> DEFINE Bad == {r \in SUBSET S : g[r] # Sum(r)}
<1>7. FiniteSubsetsOf(S) = SUBSET S
  BY FS_FiniteSubsetsOfFinite
<1>8. ASSUME Bad # {} PROVE FALSE
  <2>1. IsWellFoundedOn(StrictSubsetOrdering(S), SUBSET S)
    BY <1>7, FS_StrictSubsetOrderingWellFounded
  <2>2. PICK s \in Bad : \A r \in Bad : ~(<<r, s>> \in StrictSubsetOrdering(S))
    BY <1>8, <2>1, WFMin
  <2>3. s \in SUBSET S /\ g[s] # Sum(s)
    OBVIOUS
  <2>4. s # {}
    BY <1>2, <1>6, <2>3
  <2>5. PICK x \in s : x = pick(s)
    BY <1>1, <2>4
  <2>6. s \ {x} \in SUBSET S /\ <<s \ {x}, s>> \in StrictSubsetOrdering(S)
    BY <2>3 DEF StrictSubsetOrdering
  <2>7. g[s \ {x}] = Sum(s \ {x})
    BY <2>2, <2>6
  <2>8. g[s] = f[x] (+) Sum(s \ {x})
    BY <1>6, <2>3, <2>4, <2>5, <2>7
  <2> QED BY <1>1, <2>3, <2>4, <2>5, <2>8
<1>9. g[S] = Sum(S)
  BY <1>8
<1> QED BY <1>5, <1>9 DEF Sum

-----------------------------------------------------------------------------
(* The inductive invariant.                                                *)

\* The type of the induction variable holds what the tasks compute: one step
\* before the start, and the first iteration of the chunk after the last one.
Fits ==
  \A c \in ChunkSizes, n \in TripCounts :
    /\ -(Modulus \div 2) <= Start - Step
    /\ Start + Step * (n + (maxCores - 1) * c) < Modulus \div 2

TypeInv ==
  /\ numCores \in 1 .. maxCores /\ chunkSize \in ChunkSizes /\ tripCount \in TripCounts
  /\ guarded \in BOOLEAN /\ headerLogic \in BOOLEAN
  /\ pc \in [Tasks -> {"not launched", "entry", "header", "body", "last", "exit"}]
  /\ iv \in [Tasks -> Int] /\ chunk \in [Tasks -> Nat] /\ iterCounter \in [Tasks -> Nat]
  /\ fromLatch \in [Tasks -> BOOLEAN]

\* Task t is the one to execute iteration k.
Owns(t, k) ==
  \E r \in Nat : \E d \in 0 .. chunkSize - 1 : k = At(numCores, chunkSize, t, r, d)

\* A task that has entered is in its own chunks, and its induction variable in
\* step.  The task of the iteration that leaves the loop gets there and no further.
TaskInv(t) ==
  /\ pc[t] = "entry" => chunk[t] = 0
  /\ pc[t] # "entry" =>
       /\ chunk[t] \in 0 .. chunkSize - 1
       /\ \E r \in Nat : iterCounter[t] = At(numCores, chunkSize, t, r, chunk[t])
       /\ iterCounter[t] <= tripCount + (maxCores - 1) * chunkSize
       /\ iv[t] = Start + Step * iterCounter[t]
       /\ Owns(t, tripCount) => iterCounter[t] <= tripCount
  /\ pc[t] \in {"header", "body"} /\ guarded => iterCounter[t] <= tripCount
  /\ pc[t] = "body" => iterCounter[t] < tripCount
  /\ pc[t] = "last" => /\ iterCounter[t] >= tripCount
                       /\ fromLatch[t] => iterCounter[t] > tripCount
  /\ pc[t] \in {"last", "exit"} /\ Owns(t, tripCount) => iterCounter[t] = tripCount

\* The header, or the body, of iteration k of task t is behind it.
HeaderDone(t, k) ==
  /\ k <= iterCounter[t] /\ (k = iterCounter[t] => pc[t] # "header")
  /\ guarded => k <= tripCount

BodyDone(t, k) == k < iterCounter[t] /\ k < tripCount

Done(t, x) ==
  /\ pc[t] # "entry"
  /\ \E k \in Nat : /\ Owns(t, k)
                    /\ \/ x = <<"header", Start + Step * k>> /\ HeaderDone(t, k)
                       \/ x = <<"body", Start + Step * k>> /\ BodyDone(t, k)

ExecutedInv ==
  \A x \in DOMAIN executed : executed[x] = 1 /\ \E t \in Launched : Done(t, x)

\* The live-out is stored when the task of the last iteration ends.
LiveOutInv ==
  liveOut = IF \E t \in Launched : Owns(t, tripCount) /\ pc[t] = "exit"
            THEN <<exitValue>> ELSE <<>>

ChunkingInv ==
  /\ TypeInv
  /\ \A t \in Launched : TaskInv(t)
  /\ ExecutedInv
  /\ LiveOutInv
  /\ result # NoResult => \A t \in Launched : pc[t] = "exit"

-----------------------------------------------------------------------------
(* What the generated tests and steps say of iteration numbers.            *)

LEMMA LoopFacts ==
  ASSUME TypeInv
  PROVE  /\ maxCores \in Nat /\ numCores \in Nat \ {0} /\ numCores <= maxCores
         /\ chunkSize \in Nat \ {0} /\ tripCount \in Nat
         /\ Start \in Int /\ Step \in Nat \ {0}
         /\ Launched = 0 .. numCores - 1 /\ Launched \subseteq Tasks /\ Launched \subseteq Nat
         /\ (maxCores - 1) * chunkSize \in Nat
<1>1. /\ maxCores \in Nat /\ numCores \in Nat \ {0} /\ numCores <= maxCores
      /\ chunkSize \in Nat \ {0} /\ tripCount \in Nat
      /\ Start \in Int /\ Step \in Nat \ {0}
  <2>1. maxCores \in Nat /\ Start \in Int /\ Step \in Nat \ {0}
    BY ChunkingAssumption DEF ChunkingAssumption
  <2>2. chunkSize \in Nat \ {0} /\ tripCount \in Nat
    BY ChunkingAssumption DEF ChunkingAssumption, TypeInv
  <2>3. numCores \in 1 .. maxCores
    BY DEF TypeInv
  <2> QED BY <2>1, <2>2, <2>3
<1>2. Launched = 0 .. numCores - 1 /\ Launched \subseteq Tasks /\ Launched \subseteq Nat
  BY <1>1 DEF Launched, Tasks
<1>3. maxCores - 1 \in Nat
  BY <1>1
<1>4. (maxCores - 1) * chunkSize \in Nat
  BY <1>1, <1>3, ProductNat
<1> QED BY <1>1, <1>2, <1>4

LEMMA StepGrows ==
  ASSUME TypeInv, NEW j \in Int, NEW k \in Int, j <= k
  PROVE  Step * j <= Step * k
<1>1. Step \in Nat
  BY LoopFacts
<1>2. j * Step <= k * Step
  BY <1>1, ProductGrows
<1>3. Step * j = j * Step /\ Step * k = k * Step
  BY <1>1
<1> QED BY <1>2, <1>3

LEMMA StepSeparates ==
  ASSUME TypeInv, NEW j \in Int, NEW k \in Int
  PROVE  /\ j < k => Start + Step * j < Start + Step * k
         /\ Start + Step * j = Start + Step * k => j = k
<1>1. Step \in Nat \ {0} /\ Start \in Int
  BY LoopFacts
<1>2. ASSUME NEW a \in Int, NEW b \in Int, a < b PROVE Step * a < Step * b
  <2>1. Step * (a + 1) <= Step * b
    BY <1>2, StepGrows
  <2>2. Step * (a + 1) = Step * a + Step
    BY <1>1
  <2>3. Step * a \in Int /\ Step * b \in Int
    BY <1>1
  <2> QED BY <1>1, <2>1, <2>2, <2>3
<1>3. Step * j \in Int /\ Step * k \in Int
  BY <1>1
<1>4. (j < k => Step * j < Step * k) /\ (k < j => Step * k < Step * j)
  BY <1>2
<1> QED BY <1>1, <1>3, <1>4

\* The iterations a task can be at, and the one before, have a value.
LEMMA IterationFits ==
  ASSUME Fits, TypeInv, NEW k \in Int, NEW v, v = Start + Step * k,
         -1 <= k, k <= tripCount + (maxCores - 1) * chunkSize
  PROVE  v \in Int /\ Wrap(v) = v
<1> DEFINE K == tripCount + (maxCores - 1) * chunkSize
<1>1. Step \in Nat /\ Start \in Int /\ K \in Int
  BY LoopFacts
<1>2. chunkSize \in ChunkSizes /\ tripCount \in TripCounts
  BY DEF TypeInv
<1>3. -(Modulus \div 2) <= Start - Step /\ Start + Step * K < Modulus \div 2
  BY <1>2 DEF Fits
<1>4. Modulus \div 2 \in Int
  BY ChunkingAssumption DEF ChunkingAssumption
<1> HIDE DEF K
<1>5. Step * (-1) <= Step * k /\ Step * k <= Step * K
  BY <1>1, StepGrows DEF K
<1>6. Step * (-1) = -Step /\ Step * k \in Int /\ Step * K \in Int
  BY <1>1
<1>7. v \in Int /\ -(Modulus \div 2) <= v /\ v < Modulus \div 2
  BY <1>1, <1>3, <1>4, <1>5, <1>6
<1> QED BY <1>7, WrapFits

LEMMA ExitTest ==
  ASSUME TypeInv, NEW k \in Int, NEW v, v = Start + Step * k
  PROVE  ExitsAt(v) <=> k >= tripCount
<1>0. tripCount \in Int /\ Start \in Int /\ Step \in Int
  BY LoopFacts
<1>1. tripCount \in Int /\ Step * k \in Int /\ Step * tripCount \in Int /\ Start \in Int
  BY <1>0
<1>2. k >= tripCount => Step * tripCount <= Step * k
  BY <1>1, StepGrows
<1>3. k < tripCount => Start + Step * k < Start + Step * tripCount
  BY <1>1, StepSeparates
<1> QED BY <1>1, <1>2, <1>3 DEF ExitsAt, exitValue

LEMMA PreviousTest ==
  ASSUME Fits, TypeInv, NEW k \in Nat, k <= tripCount + (maxCores - 1) * chunkSize,
         NEW v, v = Start + Step * k
  PROVE  /\ PreviousExits(v) <=> k > tripCount
         /\ ExitsAt(Wrap(v - Step)) <=> k > tripCount
<1>1. Start \in Int /\ Step \in Nat /\ tripCount \in Nat
  BY LoopFacts
<1>2. PICK w : w = Start + Step * (k - 1)
  OBVIOUS
<1>3. v - Step = w
  BY <1>1, <1>2
<1>4. k - 1 \in Int /\ -1 <= k - 1 /\ k - 1 <= tripCount + (maxCores - 1) * chunkSize
  <2>1. (maxCores - 1) * chunkSize \in Nat
    BY LoopFacts
  <2> QED BY <1>1, <2>1
<1>5. Wrap(w) = w
  BY <1>2, <1>4, IterationFits
<1>6. ExitsAt(w) <=> k - 1 >= tripCount
  BY <1>2, <1>4, ExitTest
<1>7. k - 1 >= tripCount <=> k > tripCount
  BY <1>1
<1> QED BY <1>3, <1>5, <1>6, <1>7 DEF PreviousExits

LEMMA PastTest ==
  ASSUME Fits, TypeInv, NEW k \in Nat, k <= tripCount + (maxCores - 1) * chunkSize,
         NEW v, v = Start + Step * k
  PROVE  PastTheLast(v) <=> k > tripCount
<1>1. PreviousExits(v) <=> k > tripCount
  BY PreviousTest
<1>2. Start + Step * 0 = Start /\ tripCount \in Nat
  BY LoopFacts
<1>3. v = Start => k = 0
  BY <1>2, StepSeparates
<1> QED BY <1>1, <1>2, <1>3 DEF PastTheLast

-----------------------------------------------------------------------------
(* Ownership of iterations.                                                *)

LEMMA OwnsFacts ==
  ASSUME TypeInv, NEW t \in Launched, NEW k, Owns(t, k)
  PROVE  k \in Nat /\ \A u \in Launched : Owns(u, k) => u = t
<1>1. PICK r \in Nat, d \in 0 .. chunkSize - 1 : k = At(numCores, chunkSize, t, r, d)
  BY DEF Owns
<1>2. numCores \in Nat /\ chunkSize \in Nat /\ Launched = 0 .. numCores - 1
  BY LoopFacts
<1>3. k \in Nat
  BY <1>1, <1>2, AtType
<1>4. ASSUME NEW u \in Launched, Owns(u, k) PROVE u = t
  <2>1. PICK p \in Nat, e \in 0 .. chunkSize - 1 : k = At(numCores, chunkSize, u, p, e)
    BY <1>4 DEF Owns
  <2>2. At(numCores, chunkSize, t, r, d) = At(numCores, chunkSize, u, p, e)
    BY <1>1, <2>1
  <2>3. t \in 0 .. numCores - 1 /\ u \in 0 .. numCores - 1
    BY <1>2
  <2>4. PICK n \in Nat, c \in Nat : n = numCores /\ c = chunkSize
    BY <1>2
  <2>5. /\ t \in 0 .. n - 1 /\ u \in 0 .. n - 1 /\ d \in 0 .. c - 1 /\ e \in 0 .. c - 1
        /\ At(n, c, t, r, d) = At(n, c, u, p, e)
    BY <2>2, <2>3, <2>4
  <2> QED BY <2>5, ChunksApart, SMTT(30)
<1> QED BY <1>3, <1>4

LEMMA OwnerOf ==
  ASSUME TypeInv, NEW k \in Nat
  PROVE  \E t \in Launched : Owns(t, k)
<1>1. numCores \in Nat \ {0} /\ chunkSize \in Nat \ {0} /\ Launched = 0 .. numCores - 1
  BY LoopFacts
<1>2. \E t \in 0 .. numCores - 1 : \E r \in Nat : \E d \in 0 .. chunkSize - 1 :
        k = At(numCores, chunkSize, t, r, d)
  BY <1>1, ChunksCover
<1> QED BY <1>1, <1>2 DEF Owns

\* The first iteration of a task, and the ones after each.
LEMMA FirstIteration ==
  ASSUME TypeInv, NEW t \in Launched
  PROVE  /\ t * chunkSize \in Nat
         /\ t * chunkSize = At(numCores, chunkSize, t, 0, 0)
         /\ t * chunkSize <= (maxCores - 1) * chunkSize
         /\ \A k : Owns(t, k) => t * chunkSize <= k
<1>1. /\ t \in Nat /\ numCores \in Nat /\ chunkSize \in Nat \ {0} /\ maxCores \in Nat
      /\ t <= maxCores - 1
  BY LoopFacts
<1>2. t * chunkSize \in Nat
  BY <1>1, ProductNat
<1>3. t * chunkSize = At(numCores, chunkSize, t, 0, 0)
  BY <1>1 DEF At
<1>4. t * chunkSize <= (maxCores - 1) * chunkSize
  BY <1>1, ProductGrows
<1>5. ASSUME NEW k, Owns(t, k) PROVE t * chunkSize <= k
  <2>1. PICK r \in Nat, d \in 0 .. chunkSize - 1 : k = At(numCores, chunkSize, t, r, d)
    BY <1>5 DEF Owns
  <2>2. r * numCores \in Nat
    BY <1>1, ProductNat
  <2> DEFINE q == r * numCores + t
  <2>3. q \in Nat /\ t <= q
    BY <1>1, <2>2
  <2> HIDE DEF q
  <2>4. t * chunkSize <= q * chunkSize
    BY <1>1, <2>3, ProductGrows
  <2>5. q * chunkSize \in Int
    BY <1>1, <2>3
  <2>6. t * chunkSize <= q * chunkSize + d
    BY <1>1, <1>2, <2>4, <2>5
  <2> QED BY <2>1, <2>6 DEF At, q
<1> QED BY <1>2, <1>3, <1>4, <1>5

\* The latch: from iteration k, the d-th of a chunk, to x, the e-th.
Latch(n, c, d, k, x, e) ==
  /\ x = k + 1 + (IF d + 1 = c THEN (n - 1) * c ELSE 0)
  /\ e = IF d + 1 = c THEN 0 ELSE d + 1

\* It leads to the next iteration of the same task.
LEMMA NextAt ==
  ASSUME NEW n \in Nat \ {0}, NEW c \in Nat \ {0}, NEW t \in 0 .. n - 1, NEW r \in Nat,
         NEW d \in 0 .. c - 1, NEW k, k = At(n, c, t, r, d),
         NEW x, NEW e, Latch(n, c, d, k, x, e)
  PROVE  /\ k \in Nat /\ x \in Nat /\ k < x /\ x <= k + 1 + (n - 1) * c
         /\ e \in 0 .. c - 1
         /\ \E p \in Nat : x = At(n, c, t, p, e)
         /\ \A p \in Nat : \A f \in 0 .. c - 1 :
              k < At(n, c, t, p, f) => x <= At(n, c, t, p, f)
<1>1. k \in Nat
  BY AtType
<1>2. (n - 1) * c \in Nat
  <2>1. n - 1 \in Nat
    OBVIOUS
  <2> QED BY <2>1, ProductNat
<1>0. n \in Nat /\ c \in Nat /\ t \in Nat /\ d \in Nat /\ \A f \in 0 .. c - 1 : f \in Nat
  OBVIOUS
<1>3. ASSUME NEW p \in Nat, NEW f \in 0 .. c - 1 PROVE At(n, c, t, p, f) \in Nat
  BY <1>0, AtType
<1>4. CASE d + 1 = c
  <2>1. x = k + 1 + (n - 1) * c /\ e = 0
    BY <1>4 DEF Latch
  <2>2. x = At(n, c, t, r + 1, 0)
    <3> DEFINE q == r * n + t
    <3>1. q \in Int /\ (r + 1) * n + t = q + n /\ k = q * c + d
      BY DEF At
    <3> HIDE DEF q
    <3>2. (q + n) * c + 0 = q * c + d + 1 + (n - 1) * c
      BY <1>4, <3>1
    <3> QED BY <2>1, <3>1, <3>2 DEF At
  <2>3. ASSUME NEW p \in Nat, NEW f \in 0 .. c - 1, k < At(n, c, t, p, f)
        PROVE  x <= At(n, c, t, p, f)
    <3>1. At(n, c, t, r, d) < At(n, c, t, p, f)
      BY <2>3
    <3>2. At(n, c, t, r + 1, 0) <= At(n, c, t, p, f)
      BY <1>0, <1>4, <3>1, NoneBetween
    <3> QED BY <2>2, <3>2
  <2>4. e \in 0 .. c - 1 /\ \E p \in Nat : x = At(n, c, t, p, e)
    BY <2>1, <2>2
  <2>5. x \in Nat /\ k < x /\ x <= k + 1 + (n - 1) * c
    BY <1>1, <1>2, <2>1
  <2> QED BY <1>1, <2>3, <2>4, <2>5
<1>5. CASE d + 1 # c
  <2>1. x = k + 1 /\ e = d + 1
    BY <1>1, <1>5 DEF Latch
  <2>2. e \in 0 .. c - 1
    BY <1>5, <2>1
  <2>3. x = At(n, c, t, r, e)
    <3>1. (r * n + t) * c \in Int
      OBVIOUS
    <3> QED BY <2>1, <3>1 DEF At
  <2>4. \A p \in Nat : \A f \in 0 .. c - 1 :
          k < At(n, c, t, p, f) => x <= At(n, c, t, p, f)
    BY <1>1, <1>3, <2>1
  <2>5. x \in Nat /\ k < x /\ x <= k + 1 + (n - 1) * c
    BY <1>1, <1>2, <2>1
  <2> QED BY <1>1, <2>2, <2>3, <2>4, <2>5
<1> QED BY <1>4, <1>5

NextChunkCounter(t) == IF ChunkIsOver(t) THEN 0 ELSE chunk[t] + 1

LEMMA NextIteration ==
  ASSUME TypeInv, NEW t \in Launched, chunk[t] \in 0 .. chunkSize - 1,
         \E r \in Nat : iterCounter[t] = At(numCores, chunkSize, t, r, chunk[t])
  PROVE  /\ iterCounter[t] \in Nat /\ NextIterCounter(t) \in Nat
         /\ iterCounter[t] < NextIterCounter(t)
         /\ NextIterCounter(t) <= iterCounter[t] + 1 + (maxCores - 1) * chunkSize
         /\ NextChunkCounter(t) \in 0 .. chunkSize - 1
         /\ \E p \in Nat :
              NextIterCounter(t) = At(numCores, chunkSize, t, p, NextChunkCounter(t))
         /\ \A j : Owns(t, j) /\ iterCounter[t] < j => NextIterCounter(t) <= j
<1>0. /\ numCores \in Nat \ {0} /\ chunkSize \in Nat \ {0} /\ maxCores \in Nat
      /\ numCores <= maxCores /\ t \in Tasks
  BY LoopFacts
<1>1. PICK n \in Nat \ {0}, c \in Nat \ {0}, m \in Nat, d \in Nat, k \in Nat :
        /\ n = numCores /\ c = chunkSize /\ m = maxCores /\ d = chunk[t]
        /\ k = iterCounter[t] /\ n <= m
  BY <1>0 DEF TypeInv
<1>2. PICK r \in Nat : k = At(n, c, t, r, d)
  BY <1>1
<1>3. PICK x, e : x = NextIterCounter(t) /\ e = NextChunkCounter(t)
  OBVIOUS
<1>4. Latch(n, c, d, k, x, e)
  BY <1>1, <1>3 DEF Latch, NextIterCounter, NextChunkCounter, ChunkIsOver, chunkStepSize
<1>5. t \in 0 .. n - 1 /\ d \in 0 .. c - 1
  BY <1>1, LoopFacts
<1>6. /\ k \in Nat /\ x \in Nat /\ k < x /\ x <= k + 1 + (n - 1) * c
      /\ e \in 0 .. c - 1 /\ \E p \in Nat : x = At(n, c, t, p, e)
      /\ \A p \in Nat : \A f \in 0 .. c - 1 :
           k < At(n, c, t, p, f) => x <= At(n, c, t, p, f)
  BY <1>2, <1>4, <1>5, NextAt, SMTT(30)
<1>7. x <= k + 1 + (m - 1) * c
  <2>1. n - 1 \in Int /\ m - 1 \in Int /\ n - 1 <= m - 1 /\ c \in Nat
    BY <1>1
  <2>2. (n - 1) * c <= (m - 1) * c
    BY <2>1, ProductGrows
  <2>3. (n - 1) * c \in Int /\ (m - 1) * c \in Int
    BY <2>1
  <2> QED BY <1>6, <2>2, <2>3
<1>8. \A j : Owns(t, j) /\ k < j => x <= j
  BY <1>1, <1>6 DEF Owns
<1> QED BY <1>1, <1>3, <1>6, <1>7, <1>8

-----------------------------------------------------------------------------
(* Steps.                                                                  *)

LEMMA ChunkingInvInit == Init => ChunkingInv
<1> SUFFICES ASSUME Init PROVE ChunkingInv
  OBVIOUS
<1>1. TypeInv
  <2>1. Start \in Int
    BY ChunkingAssumption DEF ChunkingAssumption
  <2>2. iv \in [Tasks -> Int] /\ chunk \in [Tasks -> Nat] /\ iterCounter \in [Tasks -> Nat]
    BY <2>1 DEF Init
  <2>3. fromLatch \in [Tasks -> BOOLEAN]
    BY Zenon DEF Init
  <2> QED BY <2>2, <2>3 DEF Init, TypeInv
<1>2. \A t \in Launched : t \in Tasks /\ pc[t] = "entry" /\ chunk[t] = 0
  <2>1. \A t \in Launched : t \in Tasks /\ t < numCores
    BY <1>1, LoopFacts
  <2> QED BY <2>1 DEF Init
<1>3. DOMAIN executed = {}
  BY DEF Init, EmptyBag, SetToBag
<1>4. \A t \in Launched : TaskInv(t)
  BY <1>2 DEF TaskInv
<1>5. ExecutedInv
  BY <1>3 DEF ExecutedInv
<1>6. LiveOutInv
  BY <1>2 DEF LiveOutInv, Init
<1> QED BY <1>1, <1>4, <1>5, <1>6 DEF ChunkingInv, Init

\* The loop, and with it the owners of iterations, stay the same.
LEMMA SameLoop ==
  ASSUME UNCHANGED loop
  PROVE  /\ UNCHANGED <<numCores, chunkSize, tripCount, guarded, headerLogic>>
         /\ Launched' = Launched /\ exitValue' = exitValue
         /\ \A t, k : Owns(t, k)' <=> Owns(t, k)
<1>1. UNCHANGED <<numCores, chunkSize, tripCount, guarded, headerLogic>>
  BY DEF loop
<1> QED BY <1>1 DEF Launched, exitValue, Owns

\* A step leaves the other tasks alone.
SameTask(u) ==
  /\ pc'[u] = pc[u] /\ iv'[u] = iv[u] /\ chunk'[u] = chunk[u]
  /\ iterCounter'[u] = iterCounter[u] /\ fromLatch'[u] = fromLatch[u]

LEMMA TaskFrame ==
  ASSUME UNCHANGED loop, NEW u, SameTask(u), TaskInv(u)
  PROVE  TaskInv(u)'
<1>1. UNCHANGED <<numCores, chunkSize, tripCount, guarded>>
  BY SameLoop
<1>2. Owns(u, tripCount)' <=> Owns(u, tripCount)
  BY <1>1, SameLoop
<1> QED BY <1>1, <1>2 DEF TaskInv, SameTask

\* What is done stays done: a task does not go back.
Advances(u) ==
  /\ pc'[u] # "entry"
  /\ iterCounter'[u] \in Nat /\ iterCounter[u] \in Nat /\ iterCounter[u] <= iterCounter'[u]
  /\ pc'[u] = "header" /\ iterCounter'[u] = iterCounter[u] => pc[u] = "header"

LEMMA DoneFrame ==
  ASSUME UNCHANGED loop, NEW u, Advances(u), NEW x, Done(u, x)
  PROVE  Done(u, x)'
<1>1. UNCHANGED <<numCores, chunkSize, tripCount, guarded>>
  BY SameLoop
<1>2. PICK k \in Nat : /\ Owns(u, k)
                       /\ \/ x = <<"header", Start + Step * k>> /\ HeaderDone(u, k)
                          \/ x = <<"body", Start + Step * k>> /\ BodyDone(u, k)
  BY DEF Done
<1>3. Owns(u, k)'
  BY <1>2, SameLoop
<1>4. HeaderDone(u, k) => HeaderDone(u, k)'
  BY <1>1 DEF HeaderDone, Advances
<1>5. BodyDone(u, k) => BodyDone(u, k)'
  BY <1>1 DEF BodyDone, Advances
<1> QED BY <1>2, <1>3, <1>4, <1>5 DEF Done, Advances

LEMMA ExecutedSame ==
  ASSUME UNCHANGED <<loop, executed>>, ExecutedInv,
         \A u \in Launched : pc[u] # "entry" => Advances(u)
  PROVE  ExecutedInv'
<1>1. Launched' = Launched /\ executed' = executed /\ UNCHANGED loop
  BY SameLoop
<1>2. ASSUME NEW x \in DOMAIN executed PROVE \E u \in Launched : Done(u, x)'
  <2>1. PICK u \in Launched : Done(u, x)
    BY DEF ExecutedInv
  <2>2. Advances(u)
    BY <2>1 DEF Done
  <2> QED BY <1>1, <2>1, <2>2, DoneFrame
<1> QED BY <1>1, <1>2 DEF ExecutedInv

LEMMA ExecutedGrows ==
  ASSUME UNCHANGED loop, ExecutedInv, NEW x, x \notin DOMAIN executed,
         executed' = executed (+) Once(x),
         \A u \in Launched : pc[u] # "entry" => Advances(u),
         NEW t \in Launched, Done(t, x)'
  PROVE  ExecutedInv'
<1>1. Launched' = Launched
  BY SameLoop
<1>2. /\ DOMAIN executed' = DOMAIN executed \cup {x}
      /\ \A y \in DOMAIN executed' : executed'[y] = IF y = x THEN 1 ELSE executed[y]
  <2>1. DOMAIN Once(x) = {x} /\ Once(x)[x] = 1
    BY DEF Once, SetToBag
  <2>2. \A y \in DOMAIN executed : executed[y] = 1
    BY DEF ExecutedInv
  <2> QED BY <2>1, <2>2 DEF (+)
<1>3. ASSUME NEW y \in DOMAIN executed PROVE \E u \in Launched : Done(u, y)'
  <2>1. PICK u \in Launched : Done(u, y)
    BY DEF ExecutedInv
  <2>2. Advances(u)
    BY <2>1 DEF Done
  <2> QED BY <2>1, <2>2, DoneFrame
<1> QED BY <1>1, <1>2, <1>3 DEF ExecutedInv

\* The live-out is stored only when the task of the last iteration ends.
LEMMA LiveOutSame ==
  ASSUME UNCHANGED <<loop, liveOut>>, LiveOutInv,
         \A u \in Launched : Owns(u, tripCount) => (pc'[u] = "exit" <=> pc[u] = "exit")
  PROVE  LiveOutInv'
<1>1. Launched' = Launched /\ exitValue' = exitValue /\ tripCount' = tripCount /\ liveOut' = liveOut
  BY SameLoop
<1>2. \A u : Owns(u, tripCount)' <=> Owns(u, tripCount)
  BY <1>1, SameLoop
<1> QED BY <1>1, <1>2 DEF LiveOutInv

\* No task but t moves.
OthersStay(t) == \A u \in Launched : u # t => SameTask(u)

\* Where a task starts, and whether that is past the end.
LEMMA EntryTest ==
  ASSUME Fits, TypeInv, NEW t \in Launched, NEW k, k = t * chunkSize
  PROVE  /\ k \in Nat /\ k = At(numCores, chunkSize, t, 0, 0)
         /\ k <= tripCount + (maxCores - 1) * chunkSize /\ \A j : Owns(t, j) => k <= j
         /\ OffsetStart(t) = Start + Step * k /\ OffsetStart(t) \in Int
         /\ PastTheLast(OffsetStart(t)) <=> k > tripCount
<1>1. /\ k \in Nat /\ k = At(numCores, chunkSize, t, 0, 0)
      /\ k <= (maxCores - 1) * chunkSize /\ \A j : Owns(t, j) => k <= j
  BY FirstIteration
<1>2. k <= tripCount + (maxCores - 1) * chunkSize
  BY <1>1, LoopFacts
<1>3. PICK v : v = Start + Step * k
  OBVIOUS
<1>4. OffsetStart(t) = v /\ v \in Int
  <2>1. Start + Step * t * chunkSize = v
    BY <1>3, LoopFacts
  <2>2. v \in Int /\ Wrap(v) = v
    BY <1>1, <1>2, <1>3, IterationFits, LoopFacts
  <2> QED BY <2>1, <2>2 DEF OffsetStart
<1>5. PastTheLast(v) <=> k > tripCount
  BY <1>1, <1>2, <1>3, PastTest
<1> QED BY <1>1, <1>2, <1>3, <1>4, <1>5

LEMMA EnterStep ==
  ASSUME Fits, ChunkingInv, NEW t \in Launched, Enter(t)
  PROVE  ChunkingInv'
<1> DEFINE k == t * chunkSize
<1>1. /\ TypeInv /\ t \in Tasks /\ UNCHANGED loop
      /\ UNCHANGED <<loop, executed>> /\ UNCHANGED <<loop, liveOut>>
  BY LoopFacts DEF ChunkingInv, Enter
<1>2. PICK v : v = OffsetStart(t)
  OBVIOUS
<1>3. k <= tripCount + (maxCores - 1) * chunkSize /\ v = Start + Step * k /\ v \in Int
  BY <1>1, <1>2, EntryTest
<1>4. k \in Nat /\ k = At(numCores, chunkSize, t, 0, 0) /\ \A j : Owns(t, j) => k <= j
  BY <1>1, EntryTest
<1>6. PastTheLast(v) <=> k > tripCount
  BY <1>1, <1>2, EntryTest
<1> HIDE DEF k
<1>7. /\ pc[t] = "entry" /\ iv' = [iv EXCEPT ![t] = v]
      /\ iterCounter' = [iterCounter EXCEPT ![t] = k]
      /\ pc' = [pc EXCEPT ![t] = IF guarded /\ k > tripCount THEN "exit" ELSE "header"]
      /\ UNCHANGED <<chunk, fromLatch, result>>
  BY <1>2, <1>3, <1>6 DEF Enter, k
<1>8. TypeInv'
  BY <1>1, <1>4, <1>2, <1>3, <1>7, SameLoop DEF TypeInv
<1>9. /\ pc'[t] = IF guarded /\ k > tripCount THEN "exit" ELSE "header"
      /\ iv'[t] = v /\ iterCounter'[t] = k /\ chunk'[t] = chunk[t]
  BY <1>1, <1>7 DEF TypeInv
<1>10. OthersStay(t)
  BY <1>7, LoopFacts, <1>1 DEF OthersStay, SameTask, TypeInv
<1>11. TaskInv(t)'
  <2>1. chunk[t] = 0
    BY <1>7 DEF ChunkingInv, TaskInv
  <2>2. UNCHANGED <<numCores, chunkSize, tripCount, guarded>>
    BY <1>1, SameLoop
  <2>3. Owns(t, tripCount)' <=> Owns(t, tripCount)
    BY <1>1, <2>2, SameLoop
  <2>4. 0 \in 0 .. chunkSize - 1 /\ tripCount \in Nat
    BY <1>1, LoopFacts
  <2>5. Owns(t, tripCount) => k <= tripCount
    BY <1>4
  <2>6. \E r \in Nat : k = At(numCores, chunkSize, t, r, 0)
    BY <1>4
  <2>7. pc'[t] = "exit" => k > tripCount /\ guarded
    BY <1>9
  <2>8. pc'[t] = "header" /\ guarded => k <= tripCount
    BY <1>4, <1>9, <2>4
  <2>9. Owns(t, tripCount) => pc'[t] # "exit"
    BY <1>4, <2>4, <2>5, <2>7
  <2>10. pc'[t] \in {"header", "exit"}
    BY <1>9
  <2> QED BY <1>3, <1>9, <2>1, <2>2, <2>3, <2>4, <2>5, <2>6, <2>8, <2>9, <2>10 DEF TaskInv
<1>12. \A u \in Launched : TaskInv(u)'
  BY <1>1, <1>10, <1>11, TaskFrame DEF ChunkingInv, OthersStay
<1>13. ExecutedInv'
  <2>1. ASSUME NEW u \in Launched, pc[u] # "entry" PROVE Advances(u)
    <3>1. SameTask(u)
      BY <1>7, <1>10, <2>1 DEF OthersStay
    <3>2. iterCounter[u] \in Nat
      BY <1>1, LoopFacts DEF TypeInv
    <3> QED BY <2>1, <3>1, <3>2 DEF Advances, SameTask
  <2> QED BY <1>1, <2>1, ExecutedSame DEF ChunkingInv
<1>14. LiveOutInv'
  <2>1. ASSUME NEW u \in Launched, Owns(u, tripCount)
        PROVE  pc'[u] = "exit" <=> pc[u] = "exit"
    <3>1. CASE u = t
      <4>1. k <= tripCount
        BY <1>4, <2>1, <3>1
      <4>2. ~(k > tripCount)
        BY <1>1, <1>4, <4>1, LoopFacts
      <4> QED BY <1>7, <1>9, <3>1, <4>2
    <3>2. CASE u # t
      BY <1>10, <3>2 DEF OthersStay, SameTask
    <3> QED BY <3>1, <3>2
  <2> QED BY <1>1, <2>1, LiveOutSame DEF ChunkingInv
<1>15. result' = NoResult
  BY <1>7 DEF ChunkingInv
<1> QED BY <1>8, <1>12, <1>13, <1>14, <1>15, SameLoop, <1>1 DEF ChunkingInv, NoResult, EmptyBag

\* Whose header or body it was that was executed.
LEMMA DoneByOwner ==
  ASSUME TypeInv, ExecutedInv, NEW t \in Launched, NEW k \in Nat, Owns(t, k)
  PROVE  /\ <<"header", Start + Step * k>> \in DOMAIN executed => HeaderDone(t, k)
         /\ <<"body", Start + Step * k>> \in DOMAIN executed => BodyDone(t, k)
<1>1. ASSUME NEW kind \in {"header", "body"}, <<kind, Start + Step * k>> \in DOMAIN executed
      PROVE  IF kind = "header" THEN HeaderDone(t, k) ELSE BodyDone(t, k)
  <2>1. PICK x \in DOMAIN executed : x = <<kind, Start + Step * k>>
    BY <1>1
  <2>2. PICK u \in Launched : Done(u, x)
    BY DEF ExecutedInv
  <2>3. PICK j \in Nat : /\ Owns(u, j)
                         /\ \/ x = <<"header", Start + Step * j>> /\ HeaderDone(u, j)
                            \/ x = <<"body", Start + Step * j>> /\ BodyDone(u, j)
    BY <2>2 DEF Done
  <2>4. Start + Step * j = Start + Step * k
    BY <2>1, <2>3
  <2>5. j = k
    BY <2>4, StepSeparates
  <2>6. u = t
    BY <2>3, <2>5, OwnsFacts
  <2> QED BY <2>1, <2>3, <2>5, <2>6
<1> QED BY <1>1

LEMMA HeaderStep ==
  ASSUME Fits, ChunkingInv, NEW t \in Launched, Header(t)
  PROVE  ChunkingInv'
<1>1. /\ TypeInv /\ TaskInv(t) /\ t \in Tasks /\ tripCount \in Nat /\ UNCHANGED loop
      /\ UNCHANGED <<loop, liveOut>> /\ pc[t] = "header"
  BY LoopFacts DEF ChunkingInv, Header
<1>2. PICK k \in Nat : k = iterCounter[t]
  BY <1>1 DEF TypeInv
<1>3. PICK v : v = iv[t]
  OBVIOUS
<1>4. /\ v = Start + Step * k /\ chunk[t] \in 0 .. chunkSize - 1
      /\ \E r \in Nat : k = At(numCores, chunkSize, t, r, chunk[t])
      /\ k <= tripCount + (maxCores - 1) * chunkSize
      /\ Owns(t, tripCount) => k <= tripCount
      /\ guarded => k <= tripCount
  BY <1>1, <1>2, <1>3 DEF TaskInv
<1>5. Owns(t, k)
  BY <1>4 DEF Owns
<1>6. ExitsAt(v) <=> k >= tripCount
  BY <1>1, <1>4, ExitTest
<1>7. /\ pc' = [pc EXCEPT ![t] = IF k >= tripCount THEN "last" ELSE "body"]
      /\ fromLatch' = [fromLatch EXCEPT ![t] = FALSE]
      /\ UNCHANGED <<iv, chunk, iterCounter, result>>
      /\ executed' = executed (+) Once(<<"header", v>>)
  BY <1>3, <1>6 DEF Header
<1>8. TypeInv'
  BY <1>1, <1>7, SameLoop DEF TypeInv
<1>9. /\ pc'[t] = IF k >= tripCount THEN "last" ELSE "body"
      /\ ~fromLatch'[t] /\ iv'[t] = v /\ iterCounter'[t] = k /\ chunk'[t] = chunk[t]
  BY <1>1, <1>2, <1>3, <1>7 DEF TypeInv
<1>10. OthersStay(t)
  BY <1>7, LoopFacts, <1>1 DEF OthersStay, SameTask, TypeInv
<1>11. TaskInv(t)'
  <2>1. UNCHANGED <<numCores, chunkSize, tripCount, guarded>>
    BY <1>1, SameLoop
  <2>2. Owns(t, tripCount)' <=> Owns(t, tripCount)
    BY <1>1, <2>1, SameLoop
  <2>3. pc'[t] \in {"last", "body"}
    BY <1>9
  <2>4. pc'[t] = "body" => k < tripCount
    BY <1>1, <1>9
  <2>5. pc'[t] = "last" => k >= tripCount
    BY <1>1, <1>9
  <2>6. pc'[t] = "last" /\ Owns(t, tripCount) => k = tripCount
    BY <1>1, <1>4, <2>5
  <2> QED BY <1>4, <1>9, <2>1, <2>2, <2>3, <2>4, <2>5, <2>6 DEF TaskInv
<1>12. \A u \in Launched : TaskInv(u)'
  BY <1>1, <1>10, <1>11, TaskFrame DEF ChunkingInv, OthersStay
<1>13. ExecutedInv'
  <2>1. ASSUME NEW u \in Launched, pc[u] # "entry" PROVE Advances(u)
    <3>1. iterCounter[u] \in Nat /\ iterCounter' = iterCounter
      BY <1>1, <1>7, LoopFacts DEF TypeInv
    <3>2. CASE u = t
      BY <1>1, <1>9, <3>1, <3>2 DEF Advances
    <3>3. CASE u # t
      BY <1>10, <2>1, <3>1, <3>3 DEF Advances, OthersStay, SameTask
    <3> QED BY <3>2, <3>3
  <2>2. PICK x : x = <<"header", v>>
    OBVIOUS
  <2>3. x \notin DOMAIN executed
    <3>1. <<"header", Start + Step * k>> \in DOMAIN executed => HeaderDone(t, k)
      BY <1>1, <1>5, DoneByOwner DEF ChunkingInv
    <3>2. ~HeaderDone(t, k)
      BY <1>1, <1>2 DEF HeaderDone
    <3> QED BY <1>4, <2>2, <3>1, <3>2
  <2>4. Done(t, x)'
    <3>1. HeaderDone(t, k)'
      BY <1>1, <1>4, <1>9, SameLoop DEF HeaderDone
    <3>2. Owns(t, k)'
      BY <1>1, <1>5, SameLoop
    <3>3. pc'[t] # "entry"
      BY <1>9
    <3> QED BY <1>4, <2>2, <3>1, <3>2, <3>3 DEF Done
  <2> QED BY <1>1, <1>7, <2>1, <2>2, <2>3, <2>4, ExecutedGrows DEF ChunkingInv
<1>14. LiveOutInv'
  <2>1. \A u \in Launched : pc'[u] = "exit" <=> pc[u] = "exit"
    BY <1>1, <1>9, <1>10 DEF OthersStay, SameTask
  <2> QED BY <1>1, <2>1, LiveOutSame DEF ChunkingInv
<1>15. result' = NoResult
  BY <1>1, <1>7 DEF ChunkingInv
<1> QED BY <1>8, <1>12, <1>13, <1>14, <1>15, SameLoop, <1>1 DEF ChunkingInv, NoResult, EmptyBag

LEMMA BodyStep ==
  ASSUME Fits, ChunkingInv, NEW t \in Launched, Body(t)
  PROVE  ChunkingInv'
<1>1. /\ TypeInv /\ TaskInv(t) /\ t \in Tasks /\ tripCount \in Nat /\ UNCHANGED loop
      /\ UNCHANGED <<loop, liveOut>> /\ pc[t] = "body" /\ (maxCores - 1) * chunkSize \in Nat
  BY LoopFacts DEF ChunkingInv, Body
<1>2. PICK j \in Nat : j = iterCounter[t]
  BY <1>1 DEF TypeInv
<1>3. /\ iv[t] = Start + Step * j /\ chunk[t] \in 0 .. chunkSize - 1
      /\ \E r \in Nat : iterCounter[t] = At(numCores, chunkSize, t, r, chunk[t])
      /\ j < tripCount
  BY <1>1, <1>2 DEF TaskInv
<1>4. PICK k \in Nat : k = NextIterCounter(t)
  BY <1>1, <1>3, NextIteration
<1>5. /\ j < k /\ k <= j + 1 + (maxCores - 1) * chunkSize
      /\ NextChunkCounter(t) \in 0 .. chunkSize - 1
      /\ \E p \in Nat : k = At(numCores, chunkSize, t, p, NextChunkCounter(t))
      /\ Owns(t, tripCount) => k <= tripCount
  BY <1>1, <1>2, <1>3, <1>4, NextIteration
<1>6. k <= tripCount + (maxCores - 1) * chunkSize
  BY <1>1, <1>3, <1>5
<1>7. PICK v : v = Start + Step * k
  OBVIOUS
<1>8. NextIV(t) = v /\ v \in Int
  <2>1. v \in Int /\ Wrap(v) = v
    BY <1>1, <1>6, <1>7, IterationFits
  <2>2. iv[t] + Step + (IF ChunkIsOver(t) THEN Step * chunkStepSize ELSE 0) = v
    <3>1. Start \in Int /\ Step \in Int /\ numCores \in Int /\ chunkSize \in Int
      BY <1>1, LoopFacts
    <3>2. chunkStepSize \in Int
      BY <3>1 DEF chunkStepSize
    <3>3. k = j + 1 + (IF ChunkIsOver(t) THEN chunkStepSize ELSE 0)
      BY <1>2, <1>4 DEF NextIterCounter
    <3>4. CASE ChunkIsOver(t)
      <4>1. k = j + 1 + chunkStepSize
        BY <3>2, <3>3, <3>4
      <4>2. Step * k = Step * j + Step + Step * chunkStepSize
        BY <3>1, <3>2, <4>1
      <4>3. Step * j \in Int /\ Step * chunkStepSize \in Int
        BY <3>1, <3>2
      <4> QED BY <1>3, <1>7, <3>1, <3>4, <4>2, <4>3
    <3>5. CASE ~ChunkIsOver(t)
      <4>1. Step * k = Step * j + Step
        BY <3>1, <3>3, <3>5
      <4>2. Step * j \in Int
        BY <3>1
      <4> QED BY <1>3, <1>7, <3>1, <3>5, <4>1, <4>2
    <3> QED BY <3>4, <3>5
  <2> QED BY <2>1, <2>2 DEF NextIV
<1>9. PreviousExits(v) <=> k > tripCount
  BY <1>1, <1>6, <1>7, PreviousTest
<1> DEFINE leave == guarded /\ k > tripCount
<1>10. /\ pc' = [pc EXCEPT ![t] = IF leave THEN "last" ELSE "header"]
       /\ fromLatch' = [fromLatch EXCEPT ![t] = leave]
       /\ iv' = [iv EXCEPT ![t] = v]
       /\ chunk' = [chunk EXCEPT ![t] = NextChunkCounter(t)]
       /\ iterCounter' = [iterCounter EXCEPT ![t] = k]
       /\ UNCHANGED result
       /\ executed' = executed (+) Once(<<"body", iv[t]>>)
  BY <1>1, <1>4, <1>8, <1>9 DEF Body, NextChunkCounter, TypeInv
<1>11. leave \in BOOLEAN /\ NextChunkCounter(t) \in Nat
  BY <1>1, <1>5, LoopFacts
<1> HIDE DEF leave
<1>12. TypeInv'
  BY <1>1, <1>8, <1>10, <1>11, SameLoop DEF TypeInv
<1>13. /\ pc'[t] = IF leave THEN "last" ELSE "header"
       /\ fromLatch'[t] = leave /\ iv'[t] = v /\ iterCounter'[t] = k
       /\ chunk'[t] = NextChunkCounter(t)
  BY <1>1, <1>10 DEF TypeInv
<1>14. OthersStay(t)
  BY <1>10, LoopFacts, <1>1 DEF OthersStay, SameTask, TypeInv
<1>15. TaskInv(t)'
  <2>1. UNCHANGED <<numCores, chunkSize, tripCount, guarded>>
    BY <1>1, SameLoop
  <2>2. Owns(t, tripCount)' <=> Owns(t, tripCount)
    BY <1>1, <2>1, SameLoop
  <2>3. pc'[t] \in {"last", "header"}
    BY <1>13
  <2>4. pc'[t] = "header" /\ guarded => k <= tripCount
    BY <1>1, <1>13 DEF leave
  <2>5. pc'[t] = "last" => k > tripCount /\ k >= tripCount
    BY <1>1, <1>13 DEF leave
  <2>6. ~(pc'[t] = "last" /\ Owns(t, tripCount))
    BY <1>1, <1>5, <2>5
  <2> QED BY <1>5, <1>6, <1>7, <1>13, <2>1, <2>2, <2>3, <2>4, <2>5, <2>6 DEF TaskInv
<1>16. \A u \in Launched : TaskInv(u)'
  BY <1>1, <1>14, <1>15, TaskFrame DEF ChunkingInv, OthersStay
<1>17. ExecutedInv'
  <2>1. ASSUME NEW u \in Launched, pc[u] # "entry" PROVE Advances(u)
    <3>1. CASE u = t
      BY <1>2, <1>5, <1>13, <3>1 DEF Advances
    <3>2. CASE u # t
      <4>1. iterCounter[u] \in Nat
        BY <1>1, LoopFacts DEF TypeInv
      <4> QED BY <1>14, <2>1, <3>2, <4>1 DEF Advances, OthersStay, SameTask
    <3> QED BY <3>1, <3>2
  <2>2. PICK x : x = <<"body", Start + Step * j>>
    OBVIOUS
  <2>3. Owns(t, j)
    BY <1>2, <1>3 DEF Owns
  <2>4. x \notin DOMAIN executed
    <3>1. <<"body", Start + Step * j>> \in DOMAIN executed => BodyDone(t, j)
      BY <1>1, <2>3, DoneByOwner DEF ChunkingInv
    <3>2. ~BodyDone(t, j)
      BY <1>1, <1>2 DEF BodyDone
    <3> QED BY <2>2, <3>1, <3>2
  <2>5. Done(t, x)'
    <3>1. BodyDone(t, j)'
      BY <1>1, <1>3, <1>5, <1>13, SameLoop DEF BodyDone
    <3>2. Owns(t, j)'
      BY <1>1, <2>3, SameLoop
    <3>3. pc'[t] # "entry"
      BY <1>13
    <3> QED BY <2>2, <3>1, <3>2, <3>3 DEF Done
  <2>6. executed' = executed (+) Once(x)
    BY <1>3, <1>10, <2>2
  <2> QED BY <1>1, <2>1, <2>4, <2>5, <2>6, ExecutedGrows DEF ChunkingInv
<1>18. LiveOutInv'
  <2>1. \A u \in Launched : pc'[u] = "exit" <=> pc[u] = "exit"
    BY <1>1, <1>13, <1>14 DEF OthersStay, SameTask
  <2> QED BY <1>1, <2>1, LiveOutSame DEF ChunkingInv
<1>19. result' = NoResult
  BY <1>1, <1>10 DEF ChunkingInv
<1> QED BY <1>12, <1>16, <1>17, <1>18, <1>19, SameLoop, <1>1 DEF ChunkingInv, NoResult, EmptyBag

LEMMA LastBlockStep ==
  ASSUME Fits, ChunkingInv, NEW t \in Launched, LastBlock(t)
  PROVE  ChunkingInv'
<1>1. /\ TypeInv /\ TaskInv(t) /\ LiveOutInv /\ t \in Tasks /\ tripCount \in Nat
      /\ UNCHANGED loop /\ UNCHANGED <<loop, executed>> /\ pc[t] = "last"
  BY LoopFacts DEF ChunkingInv, LastBlock
<1>2. PICK k \in Nat : k = iterCounter[t]
  BY <1>1 DEF TypeInv
<1>3. PICK v : v = iv[t]
  OBVIOUS
<1>4. /\ v = Start + Step * k /\ chunk[t] \in 0 .. chunkSize - 1
      /\ \E r \in Nat : k = At(numCores, chunkSize, t, r, chunk[t])
      /\ k <= tripCount + (maxCores - 1) * chunkSize
      /\ Owns(t, tripCount) => k = tripCount
      /\ k >= tripCount /\ (fromLatch[t] => k > tripCount)
  BY <1>1, <1>2, <1>3 DEF TaskInv
<1>5. Owns(t, tripCount) <=> k = tripCount
  <2>1. Owns(t, k)
    BY <1>4 DEF Owns
  <2> QED BY <1>4, <2>1
<1>6. IsLastIteration(t) <=> k = tripCount
  <2>1. ExitsAt(v)
    BY <1>1, <1>4, ExitTest
  <2>2. ExitsAt(Wrap(v - Step)) <=> k > tripCount
    BY <1>1, <1>4, PreviousTest
  <2>3. CASE fromLatch[t]
    <3>1. ~IsLastIteration(t)
      BY <1>3, <2>1, <2>3 DEF IsLastIteration
    <3> QED BY <1>1, <1>4, <2>3, <3>1
  <2>4. CASE ~fromLatch[t]
    <3>1. IsLastIteration(t) <=> ~(k > tripCount)
      BY <1>3, <2>2, <2>4 DEF IsLastIteration
    <3> QED BY <1>1, <1>4, <3>1
  <2> QED BY <2>3, <2>4
<1>7. /\ pc' = [pc EXCEPT ![t] = "exit"]
      /\ UNCHANGED <<iv, chunk, iterCounter, fromLatch, result>>
      /\ liveOut' = IF k = tripCount THEN Append(liveOut, v) ELSE liveOut
  BY <1>3, <1>6 DEF LastBlock, locals
<1>8. TypeInv'
  BY <1>1, <1>7, SameLoop DEF TypeInv
<1>9. pc'[t] = "exit"
  BY <1>1, <1>7 DEF TypeInv
<1>10. OthersStay(t)
  BY <1>7, LoopFacts, <1>1 DEF OthersStay, SameTask, TypeInv
<1>11. TaskInv(t)'
  <2>1. UNCHANGED <<numCores, chunkSize, tripCount, guarded>>
    BY <1>1, SameLoop
  <2>2. Owns(t, tripCount)' <=> Owns(t, tripCount)
    BY <1>1, <2>1, SameLoop
  <2>3. Owns(t, tripCount) => k <= tripCount
    BY <1>1, <1>4
  <2> QED BY <1>2, <1>3, <1>4, <1>7, <1>9, <2>1, <2>2, <2>3 DEF TaskInv
<1>12. \A u \in Launched : TaskInv(u)'
  BY <1>1, <1>10, <1>11, TaskFrame DEF ChunkingInv, OthersStay
<1>13. ExecutedInv'
  <2>1. ASSUME NEW u \in Launched, pc[u] # "entry" PROVE Advances(u)
    <3>1. iterCounter[u] \in Nat /\ iterCounter' = iterCounter
      BY <1>1, <1>7, LoopFacts DEF TypeInv
    <3>2. CASE u = t
      BY <1>1, <1>9, <3>1, <3>2 DEF Advances
    <3>3. CASE u # t
      BY <1>10, <2>1, <3>1, <3>3 DEF Advances, OthersStay, SameTask
    <3> QED BY <3>2, <3>3
  <2> QED BY <1>1, <2>1, ExecutedSame DEF ChunkingInv
<1>14. LiveOutInv'
  <2>1. CASE k = tripCount
    <3>1. \A u \in Launched : Owns(u, tripCount) => u = t
      BY <1>1, <1>5, <2>1, OwnsFacts
    <3>2. liveOut = <<>>
      BY <1>1, <3>1 DEF LiveOutInv
    <3>3. v = exitValue
      BY <1>4, <2>1 DEF exitValue
    <3>4. liveOut' = <<exitValue>>
      BY <1>7, <2>1, <3>2, <3>3
    <3>5. /\ Launched' = Launched /\ exitValue' = exitValue /\ tripCount' = tripCount
          /\ \A u, i : Owns(u, i)' <=> Owns(u, i)
      BY <1>1, SameLoop
    <3>6. Owns(t, tripCount)'
      BY <1>5, <2>1, <3>5
    <3> QED BY <1>9, <3>4, <3>5, <3>6 DEF LiveOutInv
  <2>2. CASE k # tripCount
    <3>1. UNCHANGED <<loop, liveOut>>
      BY <1>1, <1>7, <2>2
    <3>2. \A u \in Launched : Owns(u, tripCount) => (pc'[u] = "exit" <=> pc[u] = "exit")
      BY <1>5, <1>10, <2>2 DEF OthersStay, SameTask
    <3> QED BY <1>1, <3>1, <3>2, LiveOutSame
  <2> QED BY <2>1, <2>2
<1>15. result' = NoResult
  BY <1>1, <1>7 DEF ChunkingInv
<1> QED BY <1>8, <1>12, <1>13, <1>14, <1>15, SameLoop, <1>1 DEF ChunkingInv, NoResult, EmptyBag

\* The reduction and stuttering steps leave the tasks alone.
LEMMA NoTaskStep ==
  ASSUME ChunkingInv, UNCHANGED <<loop, pc, locals, liveOut, executed>>,
         result' = result \/ \A t \in Launched : pc[t] = "exit"
  PROVE  ChunkingInv'
<1>1. /\ UNCHANGED loop /\ UNCHANGED <<loop, executed>> /\ UNCHANGED <<loop, liveOut>>
      /\ UNCHANGED <<pc, iv, chunk, iterCounter, fromLatch>> /\ TypeInv
  BY DEF locals, ChunkingInv
<1>2. TypeInv'
  BY <1>1, SameLoop DEF TypeInv
<1>3. \A u : SameTask(u)
  BY <1>1 DEF SameTask
<1>4. \A u \in Launched : TaskInv(u)'
  BY <1>1, <1>3, TaskFrame DEF ChunkingInv
<1>5. ExecutedInv'
  <2>1. ASSUME NEW u \in Launched, pc[u] # "entry" PROVE Advances(u)
    <3>1. iterCounter[u] \in Nat
      BY <1>1, LoopFacts DEF TypeInv
    <3> QED BY <1>1, <2>1, <3>1 DEF Advances
  <2> QED BY <1>1, <2>1, ExecutedSame DEF ChunkingInv
<1>6. LiveOutInv'
  BY <1>1, LiveOutSame DEF ChunkingInv
<1>7. result' # NoResult => \A t \in Launched : pc'[t] = "exit"
  BY <1>1 DEF ChunkingInv
<1> QED BY <1>1, <1>2, <1>4, <1>5, <1>6, <1>7, SameLoop DEF ChunkingInv, NoResult, EmptyBag

LEMMA ChunkingInvNext ==
  ASSUME Fits
  PROVE  ChunkingInv /\ [Next]_vars => ChunkingInv'
<1> SUFFICES ASSUME ChunkingInv, [Next]_vars PROVE ChunkingInv'
  OBVIOUS
<1>1. ASSUME NEW t \in Launched, Enter(t) PROVE ChunkingInv'
  BY <1>1, EnterStep
<1>2. ASSUME NEW t \in Launched, Header(t) PROVE ChunkingInv'
  BY <1>2, HeaderStep
<1>3. ASSUME NEW t \in Launched, Body(t) PROVE ChunkingInv'
  BY <1>3, BodyStep
<1>4. ASSUME NEW t \in Launched, LastBlock(t) PROVE ChunkingInv'
  BY <1>4, LastBlockStep
<1>5. CASE Reduce
  BY <1>5, NoTaskStep DEF Reduce
<1>6. CASE UNCHANGED vars
  BY <1>6, NoTaskStep DEF vars
<1> QED BY <1>1, <1>2, <1>3, <1>4, <1>5, <1>6 DEF Next, Terminated

-----------------------------------------------------------------------------
(* The reduction variable: the private value of a task is the set of what  *)
(* its headers and bodies so far have added.                               *)

\* What the header or the body of iteration j adds.
Item(kind, j) == <<kind, Start + Step * j>>

\* The headers, or the bodies, of the iterations of task t before k.
Upto(kind, t, k) == {Item(kind, j) : j \in {i \in 0 .. k - 1 : Owns(t, i)}}

Added(t, bodies, headers) ==
  Upto("body", t, bodies) \cup (IF headerLogic THEN Upto("header", t, headers) ELSE {})

\* What task t has to add.
Share(t) == Added(t, tripCount, tripCount + 1)

ReductionTask(t) ==
  /\ pc[t] = "entry" => acc[t] = Identity
  /\ pc[t] # "entry" => \A j : Owns(t, j) /\ j < iterCounter[t] => j < tripCount
  /\ pc[t] = "header" => acc[t] = SetToBag(Added(t, iterCounter[t], iterCounter[t]))
  /\ pc[t] = "body" => acc[t] = SetToBag(Added(t, iterCounter[t], iterCounter[t] + 1))
  /\ pc[t] = "last" /\ fromLatch[t] =>
       guarded /\ acc[t] = SetToBag(Added(t, iterCounter[t], iterCounter[t]))
  /\ pc[t] = "last" /\ ~fromLatch[t] =>
       /\ guarded => iterCounter[t] = tripCount
       /\ phi[t] = SetToBag(Added(t, iterCounter[t], iterCounter[t]))
       /\ acc[t] = SetToBag(Added(t, iterCounter[t], iterCounter[t] + 1))
  /\ pc[t] = "exit" => slot[t] = SetToBag(Share(t))

ReductionInv ==
  /\ DOMAIN acc = Tasks /\ DOMAIN phi = Tasks /\ DOMAIN slot = Tasks
  /\ \A t \in Launched : ReductionTask(t)
  /\ ReductionIsSequential

LEMMA ItemsDiffer ==
  ASSUME TypeInv, NEW a, NEW b, NEW i \in Nat, NEW j \in Nat, Item(a, i) = Item(b, j)
  PROVE  a = b /\ i = j
<1>1. a = b /\ Start + Step * i = Start + Step * j
  BY DEF Item
<1> QED BY <1>1, StepSeparates

LEMMA InUpto ==
  ASSUME TypeInv, NEW t \in Launched, NEW kind, NEW k \in Nat, NEW x
  PROVE  x \in Upto(kind, t, k) <=> \E j \in Nat : j < k /\ Owns(t, j) /\ x = Item(kind, j)
<1>1. \A j : j \in 0 .. k - 1 <=> j \in Nat /\ j < k
  OBVIOUS
<1> QED BY <1>1 DEF Upto

\* The iterations up to k and up to l are the same for a task that has none between.
LEMMA UptoSame ==
  ASSUME TypeInv, NEW t \in Launched, NEW kind, NEW k \in Nat, NEW l \in Nat,
         \A j \in Nat : Owns(t, j) => (j < k <=> j < l)
  PROVE  Upto(kind, t, k) = Upto(kind, t, l)
<1>1. \A x : x \in Upto(kind, t, k) <=> x \in Upto(kind, t, l)
  BY InUpto
<1> QED BY <1>1

LEMMA UptoNext ==
  ASSUME TypeInv, NEW t \in Launched, NEW kind, NEW k \in Nat, Owns(t, k)
  PROVE  /\ Upto(kind, t, k + 1) = Upto(kind, t, k) \cup {Item(kind, k)}
         /\ \A other : \A n \in Nat : Item(kind, k) \in Upto(other, t, n) => other = kind /\ k < n
<1>1. k + 1 \in Nat /\ \A j \in Nat : j < k + 1 <=> j < k \/ j = k
  OBVIOUS
<1>2. \A x : x \in Upto(kind, t, k + 1) <=> x \in Upto(kind, t, k) \/ x = Item(kind, k)
  <2>1. ASSUME NEW x PROVE x \in Upto(kind, t, k + 1) <=> x \in Upto(kind, t, k) \/ x = Item(kind, k)
    <3>1. x \in Upto(kind, t, k + 1) <=> \E j \in Nat : j < k + 1 /\ Owns(t, j) /\ x = Item(kind, j)
      BY <1>1, InUpto
    <3>2. x \in Upto(kind, t, k) <=> \E j \in Nat : j < k /\ Owns(t, j) /\ x = Item(kind, j)
      BY InUpto
    <3> QED BY <1>1, <3>1, <3>2
  <2> QED BY <2>1
<1>3. ASSUME NEW other, NEW n \in Nat, Item(kind, k) \in Upto(other, t, n)
      PROVE  other = kind /\ k < n
  <2>1. PICK j \in Nat : j < n /\ Item(kind, k) = Item(other, j)
    BY <1>3, InUpto
  <2> QED BY <2>1, ItemsDiffer
<1> QED BY <1>2, <1>3

\* What is added by the next header, and by the next body.
LEMMA AddedNext ==
  ASSUME TypeInv, NEW t \in Launched, NEW k \in Nat, Owns(t, k)
  PROVE  /\ IF headerLogic
            THEN SetToBag(Added(t, k, k)) (+) Once(Item("header", k)) = SetToBag(Added(t, k, k + 1))
            ELSE SetToBag(Added(t, k, k)) = SetToBag(Added(t, k, k + 1))
         /\ SetToBag(Added(t, k, k + 1)) (+) Once(Item("body", k)) = SetToBag(Added(t, k + 1, k + 1))
<1>1. k + 1 \in Nat
  OBVIOUS
<1>2. ASSUME headerLogic
      PROVE  SetToBag(Added(t, k, k)) (+) Once(Item("header", k)) = SetToBag(Added(t, k, k + 1))
  <2> DEFINE A == Added(t, k, k)
             x == Item("header", k)
  <2>1. A = Upto("body", t, k) \cup Upto("header", t, k)
    BY <1>2 DEF Added
  <2>2. /\ Upto("header", t, k + 1) = Upto("header", t, k) \cup {x}
        /\ x \notin Upto("header", t, k) /\ x \notin Upto("body", t, k)
    <3>1. ~(k < k)
      OBVIOUS
    <3>2. /\ Upto("header", t, k + 1) = Upto("header", t, k) \cup {x}
          /\ \A other : \A n \in Nat : x \in Upto(other, t, n) => other = "header" /\ k < n
      BY UptoNext
    <3> QED BY <3>1, <3>2
  <2>3. Added(t, k, k + 1) = A \cup {x} /\ A \cap {x} = {}
    BY <1>2, <2>1, <2>2 DEF Added
  <2> HIDE DEF A, x
  <2>4. SetToBag(A) (+) SetToBag({x}) = SetToBag(A \cup {x})
    BY <2>3, SumOfSets
  <2> QED BY <1>2, <2>3, <2>4 DEF A, x, Once
<1>3. ~headerLogic => Added(t, k, k) = Added(t, k, k + 1)
  BY DEF Added
<1>4. SetToBag(Added(t, k, k + 1)) (+) Once(Item("body", k)) = SetToBag(Added(t, k + 1, k + 1))
  <2> DEFINE A == Added(t, k, k + 1)
             x == Item("body", k)
  <2>1. /\ Upto("body", t, k + 1) = Upto("body", t, k) \cup {x}
        /\ x \notin Upto("body", t, k) /\ x \notin Upto("header", t, k + 1)
    BY <1>1, UptoNext
  <2>2. Added(t, k + 1, k + 1) = A \cup {x} /\ A \cap {x} = {}
    BY <2>1 DEF Added
  <2> HIDE DEF A, x
  <2>3. SetToBag(A) (+) SetToBag({x}) = SetToBag(A \cup {x})
    BY <2>2, SumOfSets
  <2> QED BY <2>2, <2>3 DEF A, x, Once
<1> QED BY <1>2, <1>3, <1>4

LEMMA AddedSame ==
  ASSUME UNCHANGED loop
  PROVE  /\ \A t, b, h : Added(t, b, h)' = Added(t, b, h)
         /\ \A t : Share(t)' = Share(t)
         /\ SequentialResult' = SequentialResult
<1>1. UNCHANGED <<tripCount, headerLogic>> /\ \A t, k : Owns(t, k)' <=> Owns(t, k)
  BY SameLoop
<1>2. \A kind, t, k : Upto(kind, t, k)' = Upto(kind, t, k)
  BY <1>1 DEF Upto, Item
<1>3. \A t, b, h : Added(t, b, h)' = Added(t, b, h)
  BY <1>1, <1>2 DEF Added
<1>4. \A t : Share(t)' = Share(t)
  BY <1>1, <1>3 DEF Share
<1>5. SequentialResult' = SequentialResult
  BY <1>1 DEF SequentialResult, SequentialBodies, SequentialHeaders
<1> QED BY <1>3, <1>4, <1>5

LEMMA ReductionInvInit == Init => ReductionInv
<1> SUFFICES ASSUME Init PROVE ReductionInv
  OBVIOUS
<1>1. DOMAIN acc = Tasks /\ DOMAIN phi = Tasks /\ DOMAIN slot = Tasks
  BY DEF Init
<1>2. TypeInv
  BY ChunkingInvInit DEF ChunkingInv
<1>3. ASSUME NEW t \in Launched PROVE ReductionTask(t)
  <2>1. t \in Tasks /\ t < numCores
    BY <1>2, LoopFacts
  <2>2. pc[t] = "entry" /\ acc[t] = Identity
    BY <2>1 DEF Init
  <2> QED BY <2>2 DEF ReductionTask
<1>4. ReductionIsSequential
  BY DEF Init, ReductionIsSequential
<1> QED BY <1>1, <1>3, <1>4 DEF ReductionInv

\* A step of one task leaves the private values of the others alone.
SamePrivate(u) == SameTask(u) /\ acc'[u] = acc[u] /\ phi'[u] = phi[u] /\ slot'[u] = slot[u]

LEMMA PrivateFrame ==
  ASSUME UNCHANGED loop, NEW u, SamePrivate(u), ReductionTask(u)
  PROVE  ReductionTask(u)'
<1>1. UNCHANGED <<tripCount, guarded>> /\ \A j : Owns(u, j)' <=> Owns(u, j)
  BY SameLoop
<1>2. (\A b, h : Added(u, b, h)' = Added(u, b, h)) /\ Share(u)' = Share(u)
  BY AddedSame
<1>3. PICK k : k = iterCounter[u]
  OBVIOUS
<1>4. Added(u, k, k)' = Added(u, k, k) /\ Added(u, k, k + 1)' = Added(u, k, k + 1)
  BY <1>2
<1>5. iterCounter'[u] = k
  BY <1>3 DEF SamePrivate, SameTask
<1>6. /\ Added(u, iterCounter[u], iterCounter[u])' = Added(u, k, k)
      /\ Added(u, iterCounter[u], iterCounter[u] + 1)' = Added(u, k, k + 1)
  BY <1>4, <1>5
<1> QED BY <1>1, <1>2, <1>3, <1>5, <1>6 DEF ReductionTask, SamePrivate, SameTask, Identity, EmptyBag

LEMMA ReductionStep ==
  ASSUME ReductionInv, UNCHANGED loop, UNCHANGED result, NEW t \in Launched,
         DOMAIN acc' = Tasks, DOMAIN phi' = Tasks, DOMAIN slot' = Tasks,
         \A u \in Launched : u # t => SamePrivate(u), ReductionTask(t)'
  PROVE  ReductionInv'
<1>1. \A u \in Launched : ReductionTask(u)'
  BY PrivateFrame DEF ReductionInv
<1>2. Launched' = Launched /\ SequentialResult' = SequentialResult
  BY SameLoop, AddedSame
<1>3. ReductionIsSequential'
  BY <1>2 DEF ReductionInv, ReductionIsSequential, NoResult, EmptyBag
<1>4. Tasks' = Tasks
  BY DEF Tasks
<1> QED BY <1>1, <1>2, <1>3, <1>4 DEF ReductionInv

\* The value of a task before its next header, or after its last one, when what
\* it has executed are the iterations of its own before k.
LEMMA AddedFacts ==
  ASSUME TypeInv, NEW t \in Launched, NEW k \in Nat
  PROVE  /\ (\A j \in Nat : Owns(t, j) => k <= j) => SetToBag(Added(t, k, k)) = EmptyBag
         /\ (k > tripCount /\ \A j \in Nat : Owns(t, j) /\ j < k => j < tripCount) =>
              Added(t, k, k) = Share(t) /\ (~headerLogic => Added(t, k, k + 1) = Share(t))
<1>0. tripCount \in Nat /\ tripCount + 1 \in Nat /\ k + 1 \in Nat
  BY LoopFacts
<1>1. ASSUME \A j \in Nat : Owns(t, j) => k <= j
      PROVE  SetToBag(Added(t, k, k)) = EmptyBag
  <2>1. \A j \in Nat : Owns(t, j) => ~(j < k)
    BY <1>1
  <2>2. Upto("body", t, k) = {} /\ Upto("header", t, k) = {}
    BY <2>1, InUpto
  <2>3. Added(t, k, k) = {}
    BY <2>2 DEF Added
  <2> QED BY <2>3 DEF EmptyBag
<1>2. ASSUME k > tripCount, \A j \in Nat : Owns(t, j) /\ j < k => j < tripCount
      PROVE  Added(t, k, k) = Share(t) /\ (~headerLogic => Added(t, k, k + 1) = Share(t))
  <2>1. \A j \in Nat : Owns(t, j) => (j < k <=> j < tripCount) /\ (j < k <=> j < tripCount + 1)
    BY <1>0, <1>2
  <2>2. /\ Upto("body", t, k) = Upto("body", t, tripCount)
        /\ Upto("header", t, k) = Upto("header", t, tripCount + 1)
    BY <1>0, <2>1, UptoSame
  <2> QED BY <2>2 DEF Added, Share
<1> QED BY <1>1, <1>2

LEMMA EnterReduction ==
  ASSUME Fits, ChunkingInv, ReductionInv, NEW t \in Launched, Enter(t)
  PROVE  ReductionInv'
<1>1. TypeInv /\ t \in Tasks /\ UNCHANGED loop /\ UNCHANGED result /\ pc[t] = "entry"
  BY LoopFacts DEF ChunkingInv, Enter
<1>2. PICK k : k = t * chunkSize
  OBVIOUS
<1>3. k \in Nat /\ (\A j : Owns(t, j) => k <= j) /\ (PastTheLast(OffsetStart(t)) <=> k > tripCount)
  BY <1>1, <1>2, EntryTest
<1>4. /\ slot' = [slot EXCEPT ![t] = Identity] /\ iterCounter' = [iterCounter EXCEPT ![t] = k]
      /\ iv' = [iv EXCEPT ![t] = OffsetStart(t)]
      /\ pc' = [pc EXCEPT ![t] = IF guarded /\ k > tripCount THEN "exit" ELSE "header"]
      /\ UNCHANGED <<chunk, phi, acc, fromLatch>>
  BY <1>2, <1>3 DEF Enter
<1>5. /\ pc'[t] = IF guarded /\ k > tripCount THEN "exit" ELSE "header"
      /\ iterCounter'[t] = k /\ slot'[t] = EmptyBag /\ acc'[t] = EmptyBag
  BY <1>1, <1>4 DEF TypeInv, ReductionInv, ReductionTask, Identity
<1>6. UNCHANGED <<tripCount, guarded>> /\ \A j : Owns(t, j)' <=> Owns(t, j)
  BY <1>1, SameLoop
<1>7. (\A j \in Nat : Owns(t, j) => k <= j) /\ \A j \in Nat : Owns(t, j) /\ j < k => j < tripCount
  BY <1>3
<1>8. SetToBag(Added(t, k, k)) = EmptyBag
  BY <1>1, <1>3, <1>7, AddedFacts
<1>9. k > tripCount => SetToBag(Share(t)) = EmptyBag
  BY <1>1, <1>3, <1>7, <1>8, AddedFacts
<1>10. Added(t, k, k)' = Added(t, k, k) /\ Share(t)' = Share(t)
  BY <1>1, AddedSame
<1>11. \A j : Owns(t, j) /\ j < k => j < tripCount
  BY <1>1, <1>7, OwnsFacts
<1>12. ReductionTask(t)'
  <2>1. Added(t, iterCounter[t], iterCounter[t])' = Added(t, k, k)
    BY <1>5, <1>10
  <2>2. pc'[t] \in {"header", "exit"} /\ (pc'[t] = "exit" => k > tripCount)
    BY <1>5
  <2> QED BY <1>5, <1>6, <1>8, <1>9, <1>10, <1>11, <2>1, <2>2 DEF ReductionTask
<1>13. \A u \in Launched : u # t => SamePrivate(u)
  BY <1>1, <1>4, LoopFacts DEF SamePrivate, SameTask, TypeInv, ReductionInv
<1>14. DOMAIN acc' = Tasks /\ DOMAIN phi' = Tasks /\ DOMAIN slot' = Tasks
  BY <1>4 DEF ReductionInv
<1> QED BY <1>1, <1>12, <1>13, <1>14, ReductionStep

LEMMA HeaderReduction ==
  ASSUME Fits, ChunkingInv, ReductionInv, NEW t \in Launched, Header(t)
  PROVE  ReductionInv'
<1>1. /\ TypeInv /\ TaskInv(t) /\ ReductionTask(t) /\ t \in Tasks /\ tripCount \in Nat
      /\ UNCHANGED loop /\ UNCHANGED result /\ pc[t] = "header"
  BY LoopFacts DEF ChunkingInv, ReductionInv, Header
<1>2. PICK k \in Nat : k = iterCounter[t]
  BY <1>1 DEF TypeInv
<1>3. Owns(t, k) /\ iv[t] = Start + Step * k /\ (guarded => k <= tripCount)
  BY <1>1, <1>2 DEF TaskInv, Owns
<1>4. acc[t] = SetToBag(Added(t, k, k)) /\ \A j : Owns(t, j) /\ j < k => j < tripCount
  BY <1>1, <1>2 DEF ReductionTask
<1>5. ExitsAt(iv[t]) <=> k >= tripCount
  BY <1>1, <1>3, ExitTest
<1>6. <<"header", iv[t]>> = Item("header", k)
  BY <1>3 DEF Item
<1>7. /\ phi' = [phi EXCEPT ![t] = acc[t]]
      /\ acc' = IF headerLogic THEN [acc EXCEPT ![t] = @ (+) Once(Item("header", k))] ELSE acc
      /\ fromLatch' = [fromLatch EXCEPT ![t] = FALSE]
      /\ pc' = [pc EXCEPT ![t] = IF k >= tripCount THEN "last" ELSE "body"]
      /\ UNCHANGED <<iv, chunk, iterCounter, slot>>
  BY <1>5, <1>6 DEF Header
<1>8. acc'[t] = SetToBag(Added(t, k, k + 1))
  <2>1. acc'[t] = IF headerLogic THEN acc[t] (+) Once(Item("header", k)) ELSE acc[t]
    BY <1>1, <1>7 DEF ReductionInv
  <2> QED BY <1>1, <1>3, <1>4, <2>1, AddedNext
<1>9. /\ phi'[t] = SetToBag(Added(t, k, k)) /\ ~fromLatch'[t] /\ iterCounter'[t] = k
      /\ pc'[t] = IF k >= tripCount THEN "last" ELSE "body"
  BY <1>1, <1>2, <1>4, <1>7 DEF ReductionInv, TypeInv
<1>10. UNCHANGED <<tripCount, guarded>> /\ \A j : Owns(t, j)' <=> Owns(t, j)
  BY <1>1, SameLoop
<1>11. Added(t, k, k)' = Added(t, k, k) /\ Added(t, k, k + 1)' = Added(t, k, k + 1)
  BY <1>1, AddedSame
<1>12. ReductionTask(t)'
  <2>1. /\ Added(t, iterCounter[t], iterCounter[t])' = Added(t, k, k)
        /\ Added(t, iterCounter[t], iterCounter[t] + 1)' = Added(t, k, k + 1)
    BY <1>9, <1>11
  <2>2. pc'[t] \in {"last", "body"} /\ (pc'[t] = "last" /\ guarded => k = tripCount)
    BY <1>1, <1>3, <1>9
  <2> QED BY <1>4, <1>8, <1>9, <1>10, <2>1, <2>2 DEF ReductionTask
<1>13. \A u \in Launched : u # t => SamePrivate(u)
  BY <1>1, <1>7, LoopFacts DEF SamePrivate, SameTask, TypeInv, ReductionInv
<1>14. DOMAIN acc' = Tasks /\ DOMAIN phi' = Tasks /\ DOMAIN slot' = Tasks
  BY <1>7 DEF ReductionInv
<1> QED BY <1>1, <1>12, <1>13, <1>14, ReductionStep

LEMMA BodyReduction ==
  ASSUME Fits, ChunkingInv, ReductionInv, NEW t \in Launched, Body(t)
  PROVE  ReductionInv'
<1>1. /\ TypeInv /\ TaskInv(t) /\ ReductionTask(t) /\ t \in Tasks /\ tripCount \in Nat
      /\ UNCHANGED loop /\ UNCHANGED result /\ pc[t] = "body"
  BY LoopFacts DEF ChunkingInv, ReductionInv, Body
<1>2. PICK k \in Nat : k = iterCounter[t]
  BY <1>1 DEF TypeInv
<1>3. /\ iv[t] = Start + Step * k /\ k < tripCount /\ chunk[t] \in 0 .. chunkSize - 1
      /\ \E r \in Nat : iterCounter[t] = At(numCores, chunkSize, t, r, chunk[t])
  BY <1>1, <1>2 DEF TaskInv
<1>4. Owns(t, k)
  BY <1>2, <1>3 DEF Owns
<1>5. acc[t] = SetToBag(Added(t, k, k + 1))
  BY <1>1, <1>2 DEF ReductionTask
<1>6. PICK n \in Nat : n = NextIterCounter(t)
  BY <1>1, <1>3, NextIteration
<1>7. k < n /\ \A j : Owns(t, j) /\ k < j => n <= j
  BY <1>1, <1>2, <1>3, <1>6, NextIteration
<1>8. k + 1 \in Nat /\ \A j \in Nat : Owns(t, j) => (j < k + 1 <=> j < n)
  BY <1>7
<1>9. Added(t, k + 1, k + 1) = Added(t, n, n)
  <2>1. /\ Upto("body", t, k + 1) = Upto("body", t, n)
        /\ Upto("header", t, k + 1) = Upto("header", t, n)
    BY <1>1, <1>8, UptoSame
  <2> QED BY <2>1 DEF Added
<1>10. PICK leave \in BOOLEAN : leave <=> (guarded /\ PreviousExits(NextIV(t)))
  OBVIOUS
<1>11. /\ acc' = [acc EXCEPT ![t] = @ (+) Once(Item("body", k))]
       /\ iterCounter' = [iterCounter EXCEPT ![t] = n]
       /\ pc' = [pc EXCEPT ![t] = IF leave THEN "last" ELSE "header"]
       /\ UNCHANGED <<phi, slot>>
       /\ iv' = [iv EXCEPT ![t] = NextIV(t)]
       /\ chunk' = [chunk EXCEPT ![t] = NextChunkCounter(t)]
  BY <1>1, <1>3, <1>6, <1>10 DEF Body, Item, NextChunkCounter
<1>12. fromLatch' = [fromLatch EXCEPT ![t] = guarded /\ PreviousExits(NextIV(t))]
  BY DEF Body
<1>13. acc'[t] = SetToBag(Added(t, n, n))
  <2>1. acc'[t] = acc[t] (+) Once(Item("body", k))
    BY <1>1, <1>11 DEF ReductionInv
  <2> QED BY <1>1, <1>4, <1>5, <1>9, <2>1, AddedNext
<1>14. /\ iterCounter'[t] = n /\ pc'[t] = IF leave THEN "last" ELSE "header"
       /\ leave => fromLatch'[t] /\ guarded
  BY <1>1, <1>10, <1>11, <1>12 DEF TypeInv
<1>15. UNCHANGED <<tripCount, guarded>> /\ \A j : Owns(t, j)' <=> Owns(t, j)
  BY <1>1, SameLoop
<1>16. Added(t, n, n)' = Added(t, n, n)
  BY <1>1, AddedSame
<1>17. \A j : Owns(t, j) /\ j < n => j < tripCount
  <2>1. ASSUME NEW j, Owns(t, j), j < n PROVE j < tripCount
    <3>1. j \in Nat
      BY <1>1, <2>1, OwnsFacts
    <3> QED BY <1>1, <1>3, <1>8, <2>1, <3>1
  <2> QED BY <2>1
<1>18. ReductionTask(t)'
  <2>1. Added(t, iterCounter[t], iterCounter[t])' = Added(t, n, n)
    BY <1>14, <1>16
  <2>2. pc'[t] \in {"last", "header"} /\ (pc'[t] = "last" => fromLatch'[t] /\ guarded)
    BY <1>14
  <2> QED BY <1>13, <1>14, <1>15, <1>17, <2>1, <2>2 DEF ReductionTask
<1>19. \A u \in Launched : u # t => SamePrivate(u)
  BY <1>1, <1>11, <1>12, LoopFacts DEF SamePrivate, SameTask, TypeInv, ReductionInv
<1>20. DOMAIN acc' = Tasks /\ DOMAIN phi' = Tasks /\ DOMAIN slot' = Tasks
  BY <1>11 DEF ReductionInv
<1> QED BY <1>1, <1>18, <1>19, <1>20, ReductionStep

\* The value that is stored leaves out a header that was executed in vain.
LEMMA LastBlockReduction ==
  ASSUME Fits, ChunkingInv, ReductionInv, NEW t \in Launched, LastBlock(t)
  PROVE  ReductionInv'
<1>1. /\ TypeInv /\ TaskInv(t) /\ ReductionTask(t) /\ t \in Tasks /\ tripCount \in Nat
      /\ UNCHANGED loop /\ UNCHANGED result /\ pc[t] = "last"
  BY LoopFacts DEF ChunkingInv, ReductionInv, LastBlock
<1>2. PICK k \in Nat : k = iterCounter[t]
  BY <1>1 DEF TypeInv
<1>3. /\ iv[t] = Start + Step * k /\ k <= tripCount + (maxCores - 1) * chunkSize
      /\ k >= tripCount /\ (fromLatch[t] => k > tripCount)
  BY <1>1, <1>2 DEF TaskInv
<1>4. \A j \in Nat : Owns(t, j) /\ j < k => j < tripCount
  BY <1>1, <1>2 DEF ReductionTask
<1>5. k > tripCount => Added(t, k, k) = Share(t) /\ (~headerLogic => Added(t, k, k + 1) = Share(t))
  BY <1>1, <1>4, AddedFacts
<1>6. k = tripCount => Added(t, k, k + 1) = Share(t)
  BY DEF Share
<1>7. PastTheLast(iv[t]) <=> k > tripCount
  BY <1>1, <1>3, PastTest
<1>8. ValueToStore(t) = SetToBag(Share(t))
  <2>1. ValueToStore(t) = IF ~guarded /\ headerLogic /\ k > tripCount THEN phi[t] ELSE acc[t]
    BY <1>7 DEF ValueToStore
  <2>2. CASE fromLatch[t]
    <3>1. guarded /\ acc[t] = SetToBag(Added(t, k, k))
      BY <1>1, <1>2, <2>2 DEF ReductionTask
    <3> QED BY <1>3, <1>5, <2>1, <2>2, <3>1
  <2>3. CASE ~fromLatch[t]
    <3>1. /\ guarded => k = tripCount
          /\ phi[t] = SetToBag(Added(t, k, k)) /\ acc[t] = SetToBag(Added(t, k, k + 1))
      BY <1>1, <1>2, <2>3 DEF ReductionTask
    <3>2. k = tripCount \/ k > tripCount
      BY <1>1, <1>3
    <3>3. ~(k = tripCount /\ k > tripCount)
      BY <1>1
    <3> QED BY <1>5, <1>6, <2>1, <3>1, <3>2, <3>3
  <2> QED BY <2>2, <2>3
<1>9. /\ slot' = [slot EXCEPT ![t] = SetToBag(Share(t))] /\ pc' = [pc EXCEPT ![t] = "exit"]
      /\ UNCHANGED <<iv, chunk, iterCounter, phi, acc, fromLatch>>
  BY <1>8 DEF LastBlock, locals
<1>10. slot'[t] = SetToBag(Share(t)) /\ pc'[t] = "exit" /\ iterCounter'[t] = k
  BY <1>1, <1>2, <1>9 DEF ReductionInv, TypeInv
<1>11. UNCHANGED tripCount /\ (\A j : Owns(t, j)' <=> Owns(t, j)) /\ Share(t)' = Share(t)
  BY <1>1, SameLoop, AddedSame
<1>12. ReductionTask(t)'
  <2>1. \A j : Owns(t, j) /\ j < k => j < tripCount
    BY <1>1, <1>4, OwnsFacts
  <2> QED BY <1>10, <1>11, <2>1 DEF ReductionTask
<1>13. \A u \in Launched : u # t => SamePrivate(u)
  BY <1>1, <1>9, LoopFacts DEF SamePrivate, SameTask, TypeInv, ReductionInv
<1>14. DOMAIN acc' = Tasks /\ DOMAIN phi' = Tasks /\ DOMAIN slot' = Tasks
  BY <1>9 DEF ReductionInv
<1> QED BY <1>1, <1>12, <1>13, <1>14, ReductionStep

\* The shares of the tasks are disjoint and make up the loop.
LEMMA SharesAreTheLoop ==
  ASSUME TypeInv
  PROVE  /\ \A t, u \in Launched : t # u => Share(t) \cap Share(u) = {}
         /\ \A t \in Launched : <<"initial value", 0>> \notin Share(t)
         /\ UNION {Share(t) : t \in Launched} =
              SequentialBodies \cup (IF headerLogic THEN SequentialHeaders ELSE {})
<1>1. tripCount \in Nat /\ tripCount + 1 \in Nat
  BY LoopFacts
<1> DEFINE InShare(t, x) ==
             \E j \in Nat : /\ Owns(t, j)
                            /\ \/ j < tripCount /\ x = Item("body", j)
                               \/ headerLogic /\ j < tripCount + 1 /\ x = Item("header", j)
<1>2. ASSUME NEW t \in Launched, NEW x PROVE x \in Share(t) <=> InShare(t, x)
  <2>1. x \in Upto("body", t, tripCount) <=>
          \E j \in Nat : j < tripCount /\ Owns(t, j) /\ x = Item("body", j)
    BY <1>1, InUpto
  <2>2. x \in Upto("header", t, tripCount + 1) <=>
          \E j \in Nat : j < tripCount + 1 /\ Owns(t, j) /\ x = Item("header", j)
    BY <1>1, InUpto
  <2> QED BY <2>1, <2>2 DEF Share, Added
<1>3. ASSUME NEW t \in Launched, NEW u \in Launched, NEW x, x \in Share(t), x \in Share(u)
      PROVE  t = u
  <2>1. PICK i \in Nat, a \in {"body", "header"} : Owns(t, i) /\ x = Item(a, i)
    BY <1>2, <1>3
  <2>2. PICK j \in Nat, b \in {"body", "header"} : Owns(u, j) /\ x = Item(b, j)
    BY <1>2, <1>3
  <2>3. Item(a, i) = Item(b, j)
    BY <2>1, <2>2
  <2>4. i = j
    BY <2>3, ItemsDiffer
  <2> QED BY <2>1, <2>2, <2>4, OwnsFacts
<1>4. ASSUME NEW t \in Launched PROVE <<"initial value", 0>> \notin Share(t)
  <2>1. SUFFICES ASSUME <<"initial value", 0>> \in Share(t) PROVE FALSE
    OBVIOUS
  <2>2. PICK j \in Nat, a \in {"body", "header"} : <<"initial value", 0>> = Item(a, j)
    BY <1>2, <2>1
  <2>3. a = "initial value"
    BY <2>2 DEF Item
  <2> QED BY <2>3
<1>5. ASSUME NEW x
      PROVE  (\E t \in Launched : x \in Share(t)) <=>
               x \in SequentialBodies \cup (IF headerLogic THEN SequentialHeaders ELSE {})
  <2>1. x \in SequentialBodies <=> \E j \in Nat : j < tripCount /\ x = Item("body", j)
    <3>1. \A j : j \in 0 .. tripCount - 1 <=> j \in Nat /\ j < tripCount
      BY <1>1
    <3> QED BY <3>1 DEF SequentialBodies, Item
  <2>2. x \in SequentialHeaders <=> \E j \in Nat : j < tripCount + 1 /\ x = Item("header", j)
    <3>1. \A j : j \in 0 .. tripCount <=> j \in Nat /\ j < tripCount + 1
      BY <1>1
    <3> QED BY <3>1 DEF SequentialHeaders, Item
  <2>3. (\E t \in Launched : x \in Share(t)) <=>
          \E j \in Nat : \/ j < tripCount /\ x = Item("body", j)
                         \/ headerLogic /\ j < tripCount + 1 /\ x = Item("header", j)
    BY <1>2, OwnerOf
  <2> QED BY <2>1, <2>2, <2>3
<1>6. \A t, u \in Launched : t # u => Share(t) \cap Share(u) = {}
  BY <1>3
<1>7. UNION {Share(t) : t \in Launched} =
        SequentialBodies \cup (IF headerLogic THEN SequentialHeaders ELSE {})
  BY <1>5
<1> QED BY <1>4, <1>6, <1>7

LEMMA ReduceGivesSequential ==
  ASSUME TypeInv, \A t \in Launched : slot[t] = SetToBag(Share(t))
  PROVE  FoldFunctionOnSet((+), InitialValue, slot, Launched) = SequentialResult
<1> DEFINE B == {<<"initial value", 0>>}
           A == [t \in Launched |-> Share(t)]
           L == SequentialBodies \cup (IF headerLogic THEN SequentialHeaders ELSE {})
<1>1. IsFiniteSet(Launched)
  BY LoopFacts, FS_Interval DEF Launched
<1>2. /\ \A t, u \in Launched : t # u => A[t] \cap A[u] = {}
      /\ \A t \in Launched : slot[t] = SetToBag(A[t]) /\ A[t] \cap B = {}
  BY SharesAreTheLoop
<1>3. UNION {A[t] : t \in Launched} = L /\ B \cap L = {}
  <2>1. {A[t] : t \in Launched} = {Share(t) : t \in Launched}
    OBVIOUS
  <2>2. UNION {Share(t) : t \in Launched} = L
    BY SharesAreTheLoop
  <2>3. B \cap UNION {Share(t) : t \in Launched} = {}
    BY SharesAreTheLoop
  <2> QED BY <2>1, <2>2, <2>3
<1> HIDE DEF A, B, L
<1>4. FoldFunctionOnSet((+), SetToBag(B), slot, Launched) = SetToBag(B \cup UNION {A[t] : t \in Launched})
  BY <1>1, <1>2, FoldOfSets
<1>5. SetToBag(B) (+) SetToBag(L) = SetToBag(B \cup L)
  BY <1>3, SumOfSets
<1>6. InitialValue = SetToBag(B) /\ SequentialResult = SetToBag(B) (+) SetToBag(L)
  BY DEF InitialValue, Once, SequentialResult, B, L
<1> QED BY <1>3, <1>4, <1>5, <1>6

LEMMA ReduceReduction ==
  ASSUME ChunkingInv, ReductionInv, Reduce
  PROVE  ReductionInv'
<1>1. /\ UNCHANGED loop /\ UNCHANGED <<pc, iv, chunk, iterCounter, phi, acc, fromLatch, slot>>
      /\ TypeInv
  BY DEF Reduce, locals, ChunkingInv
<1>2. \A u \in Launched : ReductionTask(u)'
  BY <1>1, PrivateFrame DEF ReductionInv, SamePrivate, SameTask
<1>3. \A t \in Launched : slot[t] = SetToBag(Share(t))
  BY DEF Reduce, ReductionInv, ReductionTask
<1>4. result' = SequentialResult
  BY <1>1, <1>3, ReduceGivesSequential DEF Reduce
<1>5. Launched' = Launched /\ SequentialResult' = SequentialResult /\ Tasks' = Tasks
  BY <1>1, SameLoop, AddedSame DEF Tasks
<1> QED BY <1>1, <1>2, <1>4, <1>5 DEF ReductionInv, ReductionIsSequential

LEMMA ReductionInvNext ==
  ASSUME Fits, ChunkingInv, ReductionInv, [Next]_vars
  PROVE  ReductionInv'
<1>1. ASSUME NEW t \in Launched, Enter(t) PROVE ReductionInv'
  BY <1>1, EnterReduction
<1>2. ASSUME NEW t \in Launched, Header(t) PROVE ReductionInv'
  BY <1>2, HeaderReduction
<1>3. ASSUME NEW t \in Launched, Body(t) PROVE ReductionInv'
  BY <1>3, BodyReduction
<1>4. ASSUME NEW t \in Launched, LastBlock(t) PROVE ReductionInv'
  BY <1>4, LastBlockReduction
<1>5. CASE Reduce
  BY <1>5, ReduceReduction
<1>6. CASE UNCHANGED vars
  <2>1. /\ UNCHANGED loop /\ UNCHANGED result
        /\ UNCHANGED <<pc, iv, chunk, iterCounter, phi, acc, fromLatch, slot>>
    BY <1>6 DEF vars, locals
  <2>2. \A u \in Launched : ReductionTask(u)'
    BY <2>1, PrivateFrame DEF ReductionInv, SamePrivate, SameTask
  <2>3. Launched' = Launched /\ SequentialResult' = SequentialResult /\ Tasks' = Tasks
    BY <2>1, SameLoop, AddedSame DEF Tasks
  <2> QED BY <2>1, <2>2, <2>3 DEF ReductionInv, ReductionIsSequential, NoResult, EmptyBag
<1> QED BY <1>1, <1>2, <1>3, <1>4, <1>5, <1>6 DEF Next, Terminated

-----------------------------------------------------------------------------
(* Theorems.                                                               *)

LEMMA ChunkingInvariance ==
  ASSUME Fits
  PROVE  Spec => []ChunkingInv
<1>1. Init => ChunkingInv
  BY ChunkingInvInit
<1>2. ChunkingInv /\ [Next]_vars => ChunkingInv'
  BY ChunkingInvNext
<1> QED BY <1>1, <1>2, PTL DEF Spec

LEMMA ChunkingInvImpliesStep == ChunkingInv => IterCounterInStep
<1> SUFFICES ASSUME ChunkingInv, NEW t \in Launched, pc[t] \in {"header", "body"}
             PROVE  iv[t] = Start + Step * iterCounter[t] /\ chunk[t] = iterCounter[t] % chunkSize
  BY DEF IterCounterInStep
<1>1. TypeInv /\ TaskInv(t) /\ chunkSize \in Nat /\ chunkSize # 0
  BY LoopFacts DEF ChunkingInv
<1>2. PICK r \in Nat : iterCounter[t] = At(numCores, chunkSize, t, r, chunk[t])
  BY <1>1 DEF TaskInv
<1>3. iv[t] = Start + Step * iterCounter[t] /\ chunk[t] \in 0 .. chunkSize - 1
  BY <1>1 DEF TaskInv
<1> DEFINE q == r * numCores + t
<1>4. q \in Int
  BY <1>1, LoopFacts
<1>5. iterCounter[t] = q * chunkSize + chunk[t]
  BY <1>2 DEF At
<1> HIDE DEF q
<1>6. (q * chunkSize + chunk[t]) % chunkSize = chunk[t]
  BY <1>1, <1>3, <1>4, Remainder
<1> QED BY <1>3, <1>5, <1>6

LEMMA ChunkingInvImpliesOnly == ChunkingInv => OnlySequentialIterations
<1> SUFFICES ASSUME ChunkingInv, NEW x \in DOMAIN executed, x[1] = "body" \/ guarded
             PROVE  /\ x \in SequentialBodies \cup (IF guarded THEN SequentialHeaders ELSE {})
                    /\ executed[x] = 1
  BY DEF OnlySequentialIterations, BagToSet
<1>1. TypeInv /\ executed[x] = 1 /\ tripCount \in Nat
  BY LoopFacts DEF ChunkingInv, ExecutedInv
<1>2. PICK t \in Launched : Done(t, x)
  BY DEF ChunkingInv, ExecutedInv
<1>3. PICK k \in Nat : \/ x = <<"header", Start + Step * k>> /\ HeaderDone(t, k)
                       \/ x = <<"body", Start + Step * k>> /\ BodyDone(t, k)
  BY <1>2 DEF Done
<1>4. CASE x = <<"header", Start + Step * k>> /\ HeaderDone(t, k)
  <2>1. x[1] = "header"
    BY <1>4
  <2>2. guarded /\ k \in 0 .. tripCount
    BY <1>1, <1>4, <2>1 DEF HeaderDone
  <2> QED BY <1>1, <1>4, <2>2 DEF SequentialHeaders
<1>5. CASE x = <<"body", Start + Step * k>> /\ BodyDone(t, k)
  <2>1. k \in 0 .. tripCount - 1
    BY <1>1, <1>5 DEF BodyDone
  <2> QED BY <1>1, <1>5, <2>1 DEF SequentialBodies
<1> QED BY <1>3, <1>4, <1>5

LEMMA ChunkingInvImpliesLiveOut == ChunkingInv => LiveOutIsSequential
<1> SUFFICES ASSUME ChunkingInv, result # NoResult PROVE liveOut = <<exitValue>>
  BY DEF LiveOutIsSequential
<1>1. PICK t \in Launched : Owns(t, tripCount)
  BY LoopFacts, OwnerOf DEF ChunkingInv
<1> QED BY <1>1 DEF ChunkingInv, LiveOutInv

\* The counters that rewireLoopToIterateChunks adds stay in step with the
\* induction variable, for every number of tasks, chunk size and trip count
\* whose values fit the variable's type.
THEOREM CountersInStep ==
  ASSUME Fits
  PROVE  Spec => []IterCounterInStep
<1>1. Spec => []ChunkingInv
  BY ChunkingInvariance
<1> QED BY <1>1, ChunkingInvImpliesStep, PTL

\* No task executes an iteration that the loop does not have or that another
\* task executes: the chunks of the tasks do not overlap, the non-strict exit
\* condition catches every task, and the guard of the header holds.
THEOREM NoIterationTwice ==
  ASSUME Fits
  PROVE  Spec => []OnlySequentialIterations
<1>1. Spec => []ChunkingInv
  BY ChunkingInvariance
<1> QED BY <1>1, ChunkingInvImpliesOnly, PTL

\* The block that stores the induction variable is executed by one task, the
\* one whose chunk the last iteration is in.
THEOREM LiveOutStoredOnce ==
  ASSUME Fits
  PROVE  Spec => []LiveOutIsSequential
<1>1. Spec => []ChunkingInv
  BY ChunkingInvariance
<1> QED BY <1>1, ChunkingInvImpliesLiveOut, PTL

\* After the reduction the variable has the value of the sequential loop: the
\* values the tasks store make up the loop, each iteration once, whatever the
\* number of tasks that were launched; a header executed in vain is left out.
THEOREM ReductionOfTheLoop ==
  ASSUME Fits
  PROVE  Spec => []ReductionIsSequential
<1>1. Spec => []ChunkingInv
  BY ChunkingInvariance
<1>2. Init => ReductionInv
  BY ReductionInvInit
<1>3. ChunkingInv /\ ReductionInv /\ [Next]_vars => ReductionInv'
  BY ReductionInvNext
<1>4. ReductionInv => ReductionIsSequential
  BY DEF ReductionInv
<1> QED BY <1>1, <1>2, <1>3, <1>4, PTL DEF Spec
=============================================================================
