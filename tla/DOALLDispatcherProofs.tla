------------------------ MODULE DOALLDispatcherProofs ------------------------
(***************************************************************************)
(* Proofs about the DOALL dispatcher, for every set of calls, every nesting*)
(* of them, every number of cores and of values of uint32_t: the life of a *)
(* block of arguments and of its endLocks over any number of calls.        *)
(***************************************************************************)
EXTENDS DOALLDispatcher, FiniteSetTheorems, SequenceTheorems,
        NaturalsInduction, WellFoundedInduction, TLAPS

-----------------------------------------------------------------------------
(* The inductive invariant.                                                *)

\* A dispatcher is between the launch of its first task and the last join.
Active(c) == pc[c] \in {"fork", "runOwn", "join"}

\* Task i of call c has been submitted, or has been joined.
Launched(c, i) == pc[c] = "fork" => i < next[c]
Joined(c, i) == pc[c] = "join" /\ i < next[c]

\* Task i has been submitted and not been joined: its slot belongs to VIRGIL.
Pending(c, i) ==
  Active(c) /\ i \in 0 .. numCores[c] - 2 /\ Launched(c, i) /\ ~ Joined(c, i)

Blocks == [size : Nat, available : BOOLEAN,
           args : UNION {[0 .. n - 1 -> Args] : n \in Nat}]

PointerType == [block : Nat, slot : Nat]

TaskType == [pointer : PointerType, loop : Calls \cup {Main},
             coreID : CoreIDs \cup {-1}, numCores : Nat]

\* More about types than TypeOK says: memory and the queue are sequences, and
\* the number of tasks of a call is within what its identifiers can name.
Types ==
  /\ TypeOK
  /\ memory \in Seq(Blocks)
  /\ queue \in Seq(PointerType)
  /\ running \subseteq TaskType
  /\ \A c \in Calls : numCores[c] <= maxNumberOfCores[c]

\* The blocks of the calls exist, a new one has the size its call asked for,
\* and none is shared.
Ownership ==
  /\ \A c \in Calls : Owns(c) => index[c] \in DOMAIN memory
  /\ \A c \in Calls : pc[c] = "initArgs" => memory[index[c]].size = numCores[c] - 1
  /\ BlocksNotShared

\* The loop counter of the dispatcher.
Counters ==
  \A c \in Calls :
    /\ pc[c] \in {"outside", "parallel", "sequential", "getArgs", "initArgs"}
         => next[c] = 0
    /\ Active(c) => next[c] < numCores[c]

\* Outside of its initialization, a slot of a block knows its number, and its
\* endLock is locked unless a task has ended that nobody has joined.
Slots ==
  \A b \in DOMAIN memory :
    \/ \E c \in Calls : pc[c] = "initArgs" /\ index[c] = b
    \/ \A i \in 0 .. memory[b].size - 1 :
         /\ memory[b].args[i].coreID = i
         /\ \/ memory[b].args[i].locked
            \/ \E c \in Calls : index[c] = b /\ Pending(c, i)

\* The slot of a pending task holds the arguments its call wrote, and is
\* locked exactly as long as VIRGIL has a pointer to it.
PendingTasks ==
  \A c \in Calls, i \in Nat : Pending(c, i) =>
    /\ memory[index[c]].args[i].loop = c
    /\ memory[index[c]].args[i].numCores = numCores[c]
    /\ memory[index[c]].args[i].locked <=> Pointer(c, i) \in Pointers

\* VIRGIL has pointers to the slots of pending tasks only.
PointersArePending ==
  \A p \in Pointers : \E c \in Calls : index[c] = p.block /\ Pending(c, p.slot)

\* VIRGIL has each pointer once.
Queued(q) == {q[i] : i \in DOMAIN q}
Distinct(q) == \A i, j \in DOMAIN q : q[i] = q[j] => i = j

PointersOnce ==
  /\ Distinct(queue)
  /\ \A t \in running : t.pointer \notin Queued(queue)
  /\ \A t, u \in running : t.pointer = u.pointer => t = u

\* A running task is the one its slot describes.
RunningTasks ==
  \A t \in running :
    LET a == memory[t.pointer.block].args[t.pointer.slot]
    IN  t.loop = a.loop /\ t.coreID = a.coreID

\* How often task k of call c has been executed.
Executed(c, k) ==
  IF \/ pc[c] \in {"releaseCores", "releaseArgs"} /\ k < numCores[c]
     \/ pc[c] = "join" /\ k = numCores[c] - 1
     \/ Joined(c, k)
     \/ Pending(c, k) /\ ~ memory[index[c]].args[k].locked
  THEN 1 ELSE 0

Executions ==
  \A c \in Calls : pc[c] # "returned" =>
    \A k \in CoreIDs : ran[c][k] = Executed(c, k)

DispatcherInv ==
  /\ Types
  /\ Ownership
  /\ Counters
  /\ Slots
  /\ PendingTasks
  /\ PointersArePending
  /\ PointersOnce
  /\ RunningTasks
  /\ Executions

-----------------------------------------------------------------------------
(* The operators of the model: queues, blocks and their slots.             *)

\* VIRGIL's queue after a submission.
LEMMA Submitted ==
  ASSUME NEW q \in Seq(PointerType), NEW p \in PointerType
  PROVE  /\ Append(q, p) \in Seq(PointerType)
         /\ Queued(Append(q, p)) = Queued(q) \cup {p}
         /\ Distinct(q) /\ p \notin Queued(q) => Distinct(Append(q, p))
<1> DEFINE r == Append(q, p)
<1>1. /\ r \in Seq(PointerType) /\ Len(r) = Len(q) + 1
      /\ \A i \in 1 .. Len(q) : r[i] = q[i]
      /\ r[Len(q) + 1] = p
  BY AppendProperties
<1>2. /\ Len(q) \in Nat /\ DOMAIN q = 1 .. Len(q)
      /\ DOMAIN r = 1 .. Len(q) + 1
  BY <1>1, LenProperties
<1> HIDE DEF r
<1>3. Queued(r) = Queued(q) \cup {p}
  <2>1. ASSUME NEW x \in Queued(r) PROVE x \in Queued(q) \cup {p}
    BY <1>1, <1>2 DEF Queued
  <2>2. ASSUME NEW x \in Queued(q) \cup {p} PROVE x \in Queued(r)
    BY <1>1, <1>2 DEF Queued
  <2> QED BY <2>1, <2>2
<1>4. Distinct(q) /\ p \notin Queued(q) => Distinct(r)
  BY <1>1, <1>2 DEF Distinct, Queued
<1> QED
  BY <1>1, <1>3, <1>4 DEF r

\* VIRGIL's queue after a worker has taken the oldest task.
LEMMA Taken ==
  ASSUME NEW q \in Seq(PointerType), q # <<>>, Distinct(q)
  PROVE  /\ Tail(q) \in Seq(PointerType)
         /\ Head(q) \in PointerType /\ Head(q) \in Queued(q)
         /\ Queued(Tail(q)) = Queued(q) \ {Head(q)}
         /\ Distinct(Tail(q))
<1> DEFINE r == Tail(q)
           h == Head(q)
<1>1. /\ r \in Seq(PointerType) /\ Len(r) = Len(q) - 1
      /\ h \in PointerType
      /\ \A i \in 1 .. Len(r) : r[i] = q[i + 1]
  BY HeadTailProperties
<1>2. /\ Len(q) \in Nat /\ DOMAIN q = 1 .. Len(q)
      /\ DOMAIN r = 1 .. Len(q) - 1
  BY <1>1, LenProperties
<1>3. h = q[1] /\ Len(q) # 0
  BY EmptySeq DEF Head
<1> HIDE DEF r, h
<1>4. h \in Queued(q)
  BY <1>2, <1>3 DEF Queued
<1>5. ASSUME NEW x \in Queued(r) PROVE x \in Queued(q) \ {h}
  <2>1. PICK i \in 1 .. Len(q) - 1 : x = r[i]
    BY <1>2 DEF Queued
  <2>2. i + 1 \in 1 .. Len(q) /\ x = q[i + 1] /\ i + 1 # 1
    BY <2>1, <1>1, <1>2
  <2> QED
    BY <2>2, <1>2, <1>3 DEF Queued, Distinct
<1>6. ASSUME NEW x \in Queued(q) \ {h} PROVE x \in Queued(r)
  <2>1. PICK i \in 1 .. Len(q) : x = q[i] /\ i # 1
    BY <1>2, <1>3 DEF Queued
  <2>2. i - 1 \in 1 .. Len(r) /\ r[i - 1] = q[i - 1 + 1] /\ i - 1 + 1 = i
    BY <2>1, <1>1, <1>2
  <2> QED
    BY <2>1, <2>2, <1>1, <1>2 DEF Queued
<1>7. Distinct(r)
  <2> SUFFICES ASSUME NEW i \in 1 .. Len(q) - 1, NEW j \in 1 .. Len(q) - 1, r[i] = r[j]
               PROVE  i = j
    BY <1>2 DEF Distinct
  <2>1. q[i + 1] = q[j + 1] /\ i + 1 \in 1 .. Len(q) /\ j + 1 \in 1 .. Len(q)
    BY <1>1, <1>2
  <2> QED
    BY <2>1, <1>2 DEF Distinct
<1> QED
  BY <1>1, <1>4, <1>5, <1>6, <1>7 DEF r, h

\* The first of several numbers exists: getDOALLArgs finds a block that fits.
LEMMA FirstExists ==
  ASSUME NEW S, S \subseteq Nat, S # {}
  PROVE  (CHOOSE i \in S : \A j \in S : i <= j) \in S
<1>1. \A x, y \in Nat : <<x, y>> \in OpToRel(<, Nat) <=> x < y
  BY DEF OpToRel
<1>2. IsWellFoundedOn(OpToRel(<, Nat), Nat)
  BY NatLessThanWellFounded
<1>3. PICK x \in S : \A y \in S : ~(<<y, x>> \in OpToRel(<, Nat))
  BY <1>2, WFMin
<1>4. ASSUME NEW y \in S PROVE x <= y
  <2>1. x \in Nat /\ y \in Nat
    OBVIOUS
  <2>2. ~(y < x)
    BY <1>1, <1>3, <2>1, Zenon
  <2> QED BY <2>1, <2>2
<1> QED BY <1>4

\* A memory whose blocks have as many arguments as their sizes say.
MemoryTyped(m) ==
  /\ m \in Seq(Blocks)
  /\ \A b \in DOMAIN m : m[b].args \in [0 .. m[b].size - 1 -> Args]

\* The writes the runtime makes to its blocks, as operators.
SetBlock(m, b, e) == [m EXCEPT ![b] = e]
SetAvailable(m, b, v) == [m EXCEPT ![b].available = v]
SetArgs(m, b, a) == [m EXCEPT ![b].args = a]
SetSlot(m, b, s, x) == [m EXCEPT ![b].args[s] = x]
SetLock(m, b, s, v) == [m EXCEPT ![b].args[s].locked = v]
SetTask(m, b, s, c, k) ==
  [m EXCEPT ![b].args[s].loop = c, ![b].args[s].numCores = k]

\* What each of them changes of memory m, and what it leaves as it is.
BlockWritten(m, n, b, e) ==
  /\ n \in Seq(Blocks) /\ Len(n) = Len(m) /\ DOMAIN n = DOMAIN m
  /\ n[b] = e /\ \A j \in DOMAIN m : j # b => n[j] = m[j]

AvailabilityWritten(m, n, b, v) ==
  /\ MemoryTyped(n) /\ Len(n) = Len(m) /\ DOMAIN n = DOMAIN m
  /\ \A j \in DOMAIN m :
       /\ n[j].size = m[j].size /\ n[j].args = m[j].args
       /\ j # b => n[j].available = m[j].available
  /\ n[b].available = v

ArgsWritten(m, n, b, a) ==
  /\ MemoryTyped(n) /\ Len(n) = Len(m) /\ DOMAIN n = DOMAIN m
  /\ \A j \in DOMAIN m :
       /\ n[j].size = m[j].size /\ n[j].available = m[j].available
       /\ j # b => n[j].args = m[j].args
  /\ n[b].args = a

SlotWritten(m, n, b, s, x) ==
  /\ MemoryTyped(n) /\ Len(n) = Len(m) /\ DOMAIN n = DOMAIN m
  /\ \A j \in DOMAIN m :
       /\ n[j].size = m[j].size /\ n[j].available = m[j].available
       /\ \A i \in 0 .. m[j].size - 1 : j # b \/ i # s => n[j].args[i] = m[j].args[i]
  /\ n[b].args[s] = x

LockWritten(m, n, b, s, v) ==
  /\ MemoryTyped(n) /\ Len(n) = Len(m) /\ DOMAIN n = DOMAIN m
  /\ \A j \in DOMAIN m :
       /\ n[j].size = m[j].size /\ n[j].available = m[j].available
       /\ \A i \in 0 .. m[j].size - 1 :
            /\ n[j].args[i].loop = m[j].args[i].loop
            /\ n[j].args[i].coreID = m[j].args[i].coreID
            /\ n[j].args[i].numCores = m[j].args[i].numCores
            /\ j # b \/ i # s => n[j].args[i].locked = m[j].args[i].locked
  /\ n[b].args[s].locked = v

TaskWritten(m, n, b, s, c, k) ==
  /\ MemoryTyped(n) /\ Len(n) = Len(m) /\ DOMAIN n = DOMAIN m
  /\ \A j \in DOMAIN m :
       /\ n[j].size = m[j].size /\ n[j].available = m[j].available
       /\ \A i \in 0 .. m[j].size - 1 :
            /\ n[j].args[i].coreID = m[j].args[i].coreID
            /\ n[j].args[i].locked = m[j].args[i].locked
            /\ j # b \/ i # s => n[j].args[i] = m[j].args[i]
  /\ n[b].args[s].loop = c /\ n[b].args[s].numCores = k

LEMMA MemoryIsTyped ==
  ASSUME Types
  PROVE  /\ MemoryTyped(memory) /\ Len(memory) \in Nat
         /\ DOMAIN memory = 1 .. Len(memory)
         /\ \A b \in DOMAIN memory :
              memory[b].size \in Nat /\ memory[b].available \in BOOLEAN
BY LenProperties DEF Types, TypeOK, MemoryTyped

LEMMA BlockIsTyped ==
  ASSUME NEW m, MemoryTyped(m), NEW b \in DOMAIN m
  PROVE  m[b] \in Blocks /\ m[b].size \in Nat /\ m[b].available \in BOOLEAN
<1>1. m \in [1 .. Len(m) -> Blocks] /\ DOMAIN m = 1 .. Len(m)
  BY LenProperties DEF MemoryTyped
<1> QED BY <1>1 DEF Blocks

LEMMA BlockWrite ==
  ASSUME NEW m \in Seq(Blocks), NEW b \in DOMAIN m, NEW e \in Blocks,
         NEW n, n = SetBlock(m, b, e)
  PROVE  BlockWritten(m, n, b, e)
<1>1. DOMAIN m = 1 .. Len(m)
  BY LenProperties
<1>2. /\ n \in Seq(Blocks) /\ Len(n) = Len(m)
      /\ \A j \in 1 .. Len(m) : n[j] = IF j = b THEN e ELSE m[j]
  BY <1>1, ExceptSeq DEF SetBlock
<1>3. DOMAIN n = 1 .. Len(m)
  BY <1>2, LenProperties
<1> QED
  BY <1>1, <1>2, <1>3 DEF BlockWritten

LEMMA AvailabilityWrite ==
  ASSUME NEW m, MemoryTyped(m), NEW b \in DOMAIN m, NEW v \in BOOLEAN,
         NEW n, n = SetAvailable(m, b, v)
  PROVE  AvailabilityWritten(m, n, b, v)
<1> DEFINE e == [m[b] EXCEPT !.available = v]
<1>1. m[b] \in Blocks
  BY BlockIsTyped
<1>2. /\ e \in Blocks /\ e.available = v
      /\ e.size = m[b].size /\ e.args = m[b].args
  BY <1>1 DEF Blocks
<1>3. n = SetBlock(m, b, e) /\ m \in Seq(Blocks)
  BY DEF SetBlock, SetAvailable, MemoryTyped
<1> HIDE DEF e
<1>4. BlockWritten(m, n, b, e)
  BY <1>2, <1>3, BlockWrite
<1>5. \A j \in DOMAIN m :
        /\ n[j].size = m[j].size /\ n[j].args = m[j].args
        /\ j # b => n[j].available = m[j].available
  BY <1>2, <1>4 DEF BlockWritten
<1>6. MemoryTyped(n)
  BY <1>4, <1>5 DEF MemoryTyped, BlockWritten
<1> QED
  BY <1>2, <1>4, <1>5, <1>6 DEF AvailabilityWritten, BlockWritten

LEMMA ArgsWrite ==
  ASSUME NEW m, MemoryTyped(m), NEW b \in DOMAIN m,
         NEW a \in [0 .. m[b].size - 1 -> Args],
         NEW n, n = SetArgs(m, b, a)
  PROVE  ArgsWritten(m, n, b, a)
<1> DEFINE e == [m[b] EXCEPT !.args = a]
<1>1. m[b] \in Blocks /\ m[b].size \in Nat
  BY BlockIsTyped
<1>2. a \in UNION {[0 .. k - 1 -> Args] : k \in Nat}
  BY <1>1
<1>3. /\ e \in Blocks /\ e.args = a
      /\ e.size = m[b].size /\ e.available = m[b].available
  BY <1>1, <1>2 DEF Blocks
<1>4. n = SetBlock(m, b, e) /\ m \in Seq(Blocks)
  BY DEF SetBlock, SetArgs, MemoryTyped
<1> HIDE DEF e
<1>5. BlockWritten(m, n, b, e)
  BY <1>3, <1>4, BlockWrite
<1>6. \A j \in DOMAIN m :
        /\ n[j].size = m[j].size /\ n[j].available = m[j].available
        /\ j # b => n[j].args = m[j].args
  BY <1>3, <1>5 DEF BlockWritten
<1>7. n[b].args = a /\ n[b].size = m[b].size
  BY <1>3, <1>5 DEF BlockWritten
<1>8. n \in Seq(Blocks) /\ Len(n) = Len(m) /\ DOMAIN n = DOMAIN m
  BY <1>5 DEF BlockWritten
<1>9. ASSUME NEW j \in DOMAIN m PROVE n[j].args \in [0 .. n[j].size - 1 -> Args]
  <2>1. CASE j = b
    BY <2>1, <1>7
  <2>2. CASE j # b
    BY <2>2, <1>6 DEF MemoryTyped
  <2> QED BY <2>1, <2>2
<1>10. MemoryTyped(n)
  BY <1>8, <1>9 DEF MemoryTyped
<1> QED
  BY <1>6, <1>7, <1>8, <1>10 DEF ArgsWritten

\* A write to one slot of a block.
LEMMA SlotWrite ==
  ASSUME NEW m, MemoryTyped(m), NEW b \in DOMAIN m,
         NEW s \in 0 .. m[b].size - 1, NEW x \in Args,
         NEW n, n = SetSlot(m, b, s, x)
  PROVE  SlotWritten(m, n, b, s, x)
<1> DEFINE a == [m[b].args EXCEPT ![s] = x]
<1>1. /\ a \in [0 .. m[b].size - 1 -> Args]
      /\ \A i \in 0 .. m[b].size - 1 : i # s => a[i] = m[b].args[i]
      /\ a[s] = x
  BY DEF MemoryTyped
<1>2. n = SetArgs(m, b, a)
  BY DEF SetArgs, SetSlot
<1> HIDE DEF a
<1>3. ArgsWritten(m, n, b, a)
  BY <1>1, <1>2, ArgsWrite
<1>4. ASSUME NEW j \in DOMAIN m, NEW i \in 0 .. m[j].size - 1, j # b \/ i # s
      PROVE  n[j].args[i] = m[j].args[i]
  <2>1. CASE j = b
    BY <2>1, <1>1, <1>3, <1>4 DEF ArgsWritten
  <2>2. CASE j # b
    BY <2>2, <1>3 DEF ArgsWritten
  <2> QED BY <2>1, <2>2
<1>5. n[b].args[s] = x
  BY <1>1, <1>3 DEF ArgsWritten
<1>6. /\ MemoryTyped(n) /\ Len(n) = Len(m) /\ DOMAIN n = DOMAIN m
      /\ \A j \in DOMAIN m : n[j].size = m[j].size /\ n[j].available = m[j].available
  BY <1>3 DEF ArgsWritten
<1> QED
  BY <1>4, <1>5, <1>6 DEF SlotWritten

\* A write to the endLock of a slot.
LEMMA LockWrite ==
  ASSUME NEW m, MemoryTyped(m), NEW b \in DOMAIN m,
         NEW s \in 0 .. m[b].size - 1, NEW v \in BOOLEAN,
         NEW n, n = SetLock(m, b, s, v)
  PROVE  LockWritten(m, n, b, s, v)
<1> DEFINE x == [m[b].args[s] EXCEPT !.locked = v]
<1>1. m[b].args[s] \in Args
  BY DEF MemoryTyped
<1>2. /\ x \in Args /\ x.locked = v /\ x.loop = m[b].args[s].loop
      /\ x.coreID = m[b].args[s].coreID /\ x.numCores = m[b].args[s].numCores
  BY <1>1 DEF Args
<1>3. n = SetSlot(m, b, s, x)
  BY DEF SetLock, SetSlot
<1> HIDE DEF x
<1>4. SlotWritten(m, n, b, s, x)
  BY <1>2, <1>3, SlotWrite
<1>5. ASSUME NEW j \in DOMAIN m, NEW i \in 0 .. m[j].size - 1
      PROVE  /\ n[j].args[i].loop = m[j].args[i].loop
             /\ n[j].args[i].coreID = m[j].args[i].coreID
             /\ n[j].args[i].numCores = m[j].args[i].numCores
             /\ j # b \/ i # s => n[j].args[i].locked = m[j].args[i].locked
  <2>1. CASE j = b /\ i = s
    BY <2>1, <1>2, <1>4 DEF SlotWritten
  <2>2. CASE j # b \/ i # s
    BY <2>2, <1>4 DEF SlotWritten
  <2> QED BY <2>1, <2>2
<1>6. n[b].args[s].locked = v
  BY <1>2, <1>4 DEF SlotWritten
<1>7. /\ MemoryTyped(n) /\ Len(n) = Len(m) /\ DOMAIN n = DOMAIN m
      /\ \A j \in DOMAIN m : n[j].size = m[j].size /\ n[j].available = m[j].available
  BY <1>4 DEF SlotWritten
<1> QED
  BY <1>5, <1>6, <1>7 DEF LockWritten

\* The arguments of a task are written into its slot.
LEMMA TaskWrite ==
  ASSUME NEW m, MemoryTyped(m), NEW b \in DOMAIN m,
         NEW s \in 0 .. m[b].size - 1, NEW c \in Calls, NEW k \in Nat,
         NEW n, n = SetTask(m, b, s, c, k)
  PROVE  TaskWritten(m, n, b, s, c, k)
<1> DEFINE x == [m[b].args[s] EXCEPT !.loop = c]
           y == [x EXCEPT !.numCores = k]
           l == SetSlot(m, b, s, x)
<1>1. m[b].args[s] \in Args
  BY DEF MemoryTyped
<1>2. x \in Args /\ y \in Args
  BY <1>1 DEF Args
<1>3. /\ y.locked = m[b].args[s].locked /\ y.coreID = m[b].args[s].coreID
      /\ y.loop = c /\ y.numCores = k
  BY <1>1 DEF Args
<1>4. n = [l EXCEPT ![b].args[s].numCores = k]
  BY DEF SetTask, SetSlot
<1>5. l = SetSlot(m, b, s, x)
  OBVIOUS
<1> HIDE DEF l, x, y
<1>6. SlotWritten(m, l, b, s, x)
  BY <1>2, <1>5, SlotWrite
<1>7. /\ n = SetSlot(l, b, s, y) /\ MemoryTyped(l) /\ b \in DOMAIN l
      /\ s \in 0 .. l[b].size - 1
  BY <1>4, <1>6 DEF SetSlot, SlotWritten, y
<1>8. SlotWritten(l, n, b, s, y)
  BY <1>2, <1>7, SlotWrite
<1>9. ASSUME NEW j \in DOMAIN m, NEW i \in 0 .. m[j].size - 1
      PROVE  /\ n[j].args[i].coreID = m[j].args[i].coreID
             /\ n[j].args[i].locked = m[j].args[i].locked
             /\ j # b \/ i # s => n[j].args[i] = m[j].args[i]
  <2>1. CASE j = b /\ i = s
    BY <2>1, <1>3, <1>8 DEF SlotWritten
  <2>2. CASE j # b \/ i # s
    BY <2>2, <1>6, <1>8 DEF SlotWritten
  <2> QED BY <2>1, <2>2
<1>10. n[b].args[s].loop = c /\ n[b].args[s].numCores = k
  BY <1>3, <1>8 DEF SlotWritten
<1>11. /\ MemoryTyped(n) /\ Len(n) = Len(m) /\ DOMAIN n = DOMAIN m
       /\ \A j \in DOMAIN m :
            n[j].size = m[j].size /\ n[j].available = m[j].available
  BY <1>6, <1>8 DEF SlotWritten
<1> QED
  BY <1>9, <1>10, <1>11 DEF TaskWritten

\* reserveCores grants one core at least and no more than what was asked for.
LEMMA GrantedRange ==
  ASSUME idleCores \in Int, NEW n \in Nat \ {0}
  PROVE  Cores!Granted(n) \in 1 .. n
<1>1. Cores!ToUInt(idleCores) \in Nat
  BY DispatcherAssumption DEF DispatcherAssumption, Cores!ToUInt
<1> QED
  BY <1>1 DEF Cores!Granted

\* The identifiers of the tasks of a call.
LEMMA TaskNumbers ==
  /\ CoreIDs \subseteq Nat
  /\ \A c \in Calls : \A k \in 0 .. maxNumberOfCores[c] - 1 : k \in CoreIDs
<1>1. maxNumberOfCores \in [Calls -> Nat \ {0}]
  BY DispatcherAssumption DEF DispatcherAssumption
<1> QED
  BY <1>1 DEF CoreIDs

-----------------------------------------------------------------------------
(* The invariant holds initially, and every step preserves it.             *)

LEMMA DispatcherInvInit == Init => DispatcherInv
<1> SUFFICES ASSUME Init PROVE DispatcherInv
  OBVIOUS
<1> USE DEF Init
<1>1. Types
  <2>1. TypeOK
    BY DispatcherAssumption DEF DispatcherAssumption, TypeOK, Labels
  <2>2. memory \in Seq(Blocks) /\ queue \in Seq(PointerType)
    BY EmptySeq
  <2>3. \A c \in Calls : numCores[c] <= maxNumberOfCores[c]
    BY DispatcherAssumption DEF DispatcherAssumption
  <2> QED BY <2>1, <2>2, <2>3 DEF Types
<1>2. \A c \in Calls : ~ Owns(c) /\ \A i : ~ Pending(c, i)
  BY DEF Owns, Pending, Active
<1>3. Ownership
  BY <1>2 DEF Ownership, BlocksNotShared
<1>4. Counters
  BY DEF Counters, Active
<1>5. Slots
  BY DEF Slots
<1>6. PendingTasks
  BY <1>2 DEF PendingTasks
<1>7. Pointers = {} /\ Queued(queue) = {}
  BY DEF Pointers, Queued
<1>8. PointersArePending
  BY <1>7 DEF PointersArePending
<1>9. PointersOnce
  BY DEF PointersOnce, Distinct
<1>10. RunningTasks
  BY DEF RunningTasks
<1>11. Executions
  BY <1>2 DEF Executions, Executed, Joined
<1> QED
  BY <1>1, <1>3, <1>4, <1>5, <1>6, <1>8, <1>9, <1>10, <1>11 DEF DispatcherInv

\* A pending task has a slot in the block of its call, and in no other's.
LEMMA PendingSlot ==
  ASSUME DispatcherInv, NEW c \in Calls, NEW i, Pending(c, i)
  PROVE  /\ Owns(c) /\ index[c] \in DOMAIN memory
         /\ i \in Nat /\ i \in 0 .. memory[index[c]].size - 1
         /\ i \in 0 .. numCores[c] - 2
         /\ \A d \in Calls : Owns(d) /\ index[d] = index[c] => d = c
         /\ memory[index[c]].args[i].coreID = i
<1> USE DEF DispatcherInv
<1>1. /\ numCores[c] \in Nat \ {0} /\ Owns(c) /\ index[c] \in DOMAIN memory
      /\ memory[index[c]].size \in Nat /\ memory[index[c]].size >= numCores[c] - 1
      /\ \A d \in Calls : Owns(d) /\ index[d] = index[c] => d = c
  BY MemoryIsTyped
     DEF Pending, Active, Owns, Ownership, BlocksNotShared, Types, TypeOK
<1>2. i \in Nat /\ i \in 0 .. memory[index[c]].size - 1 /\ i \in 0 .. numCores[c] - 2
  BY <1>1 DEF Pending
<1>3. ~ \E d \in Calls : pc[d] = "initArgs" /\ index[d] = index[c]
  BY <1>1 DEF Pending, Active, Owns
<1> QED
  BY <1>1, <1>2, <1>3 DEF Slots

\* A pointer VIRGIL has leads to the slot of a pending task, whose arguments
\* are those its call wrote.
LEMMA PointerOwner ==
  ASSUME DispatcherInv, NEW p \in Pointers
  PROVE  \E c \in Calls :
           /\ Pending(c, p.slot) /\ index[c] = p.block /\ p = Pointer(c, p.slot)
           /\ p \in PointerType
           /\ memory[p.block].args[p.slot].loop = c
           /\ memory[p.block].args[p.slot].numCores = numCores[c]
           /\ memory[p.block].args[p.slot].locked = TRUE
<1> USE DEF DispatcherInv
<1>1. p \in PointerType
  <2>1. queue \in [1 .. Len(queue) -> PointerType] /\ DOMAIN queue = 1 .. Len(queue)
    BY LenProperties DEF Types
  <2>2. \A t \in running : t.pointer \in PointerType
    BY DEF Types, TaskType
  <2> QED BY <2>1, <2>2 DEF Pointers
<1>2. PICK c \in Calls : index[c] = p.block /\ Pending(c, p.slot)
  BY DEF PointersArePending
<1>3. p = Pointer(c, p.slot)
  BY <1>1, <1>2 DEF PointerType, Pointer
<1>4. /\ p.slot \in 0 .. memory[p.block].size - 1 /\ p.block \in DOMAIN memory
      /\ p.slot \in Nat
  BY <1>2, PendingSlot
<1>5. memory[p.block].args[p.slot] \in Args
  BY <1>4, MemoryIsTyped DEF MemoryTyped
<1>6. memory[p.block].args[p.slot].locked \in BOOLEAN
  BY <1>5 DEF Args
<1> QED
  BY <1>1, <1>2, <1>3, <1>4, <1>6 DEF PendingTasks

\* Steps that leave VIRGIL alone and the pending tasks and their slots.
LEMMA SamePending ==
  ASSUME DispatcherInv, UNCHANGED <<queue, running>>,
         \A d \in Calls, i \in Nat : Pending(d, i)' <=> Pending(d, i),
         \A d \in Calls, i \in Nat : Pending(d, i) =>
           /\ index'[d] = index[d] /\ numCores'[d] = numCores[d]
           /\ memory'[index[d]].args = memory[index[d]].args
  PROVE  PendingTasks' /\ PointersArePending' /\ PointersOnce' /\ RunningTasks'
<1> USE DEF DispatcherInv
<1>1. Pointers' = Pointers
  BY DEF Pointers
<1>2. PendingTasks'
  <2> SUFFICES ASSUME NEW c \in Calls, NEW i \in Nat, Pending(c, i)'
               PROVE  /\ memory'[index'[c]].args[i].loop = c
                      /\ memory'[index'[c]].args[i].numCores = numCores'[c]
                      /\ memory'[index'[c]].args[i].locked <=> Pointer(c, i)' \in Pointers'
    BY DEF PendingTasks
  <2>1. Pending(c, i) /\ Pointer(c, i)' = Pointer(c, i)
    BY DEF Pointer
  <2> QED
    BY <1>1, <2>1 DEF PendingTasks
<1>3. PointersArePending'
  <2> SUFFICES ASSUME NEW p \in Pointers
               PROVE  \E c \in Calls : index'[c] = p.block /\ Pending(c, p.slot)'
    BY <1>1 DEF PointersArePending
  <2>1. PICK c \in Calls : Pending(c, p.slot) /\ index[c] = p.block /\ p.slot \in Nat
    BY PendingSlot DEF PointersArePending
  <2> QED BY <2>1
<1>4. PointersOnce'
  BY DEF PointersOnce
<1>5. RunningTasks'
  <2> SUFFICES ASSUME NEW t \in running
               PROVE  LET a == memory'[t.pointer.block].args[t.pointer.slot]
                      IN  t.loop = a.loop /\ t.coreID = a.coreID
    BY DEF RunningTasks
  <2>1. t.pointer \in Pointers
    BY DEF Pointers
  <2>2. PICK c \in Calls : /\ Pending(c, t.pointer.slot) /\ index[c] = t.pointer.block
                           /\ t.pointer.slot \in Nat
    BY <2>1, PendingSlot DEF PointersArePending
  <2>3. memory'[t.pointer.block].args = memory[t.pointer.block].args
    BY <2>2
  <2> QED
    BY <2>3 DEF RunningTasks
<1> QED
  BY <1>2, <1>3, <1>4, <1>5

\* Steps that touch neither VIRGIL nor the blocks, and neither launch nor join.
LEMMA SameTasks ==
  ASSUME DispatcherInv, UNCHANGED <<memory, index, queue, running>>,
         \A d \in Calls : /\ Active(d)' => numCores'[d] = numCores[d]
                          /\ pc[d] = "initArgs" => pc'[d] = "initArgs",
         \A d \in Calls, i \in Nat : Pending(d, i)' <=> Pending(d, i)
  PROVE  Slots' /\ PendingTasks' /\ PointersArePending' /\ PointersOnce' /\ RunningTasks'
<1>1. \A b \in DOMAIN memory : memory[b].size \in Nat
  BY MemoryIsTyped DEF DispatcherInv
<1>2. Slots'
  BY <1>1 DEF Slots, DispatcherInv
<1>3. \A d \in Calls, i \in Nat : Pending(d, i) => numCores'[d] = numCores[d]
  BY DEF Pending
<1> QED
  BY <1>2, <1>3, SamePending

\* A call that neither has tasks nor gets any.
LEMMA NoTasks ==
  ASSUME DispatcherInv, NEW c \in Calls,
         UNCHANGED <<memory, index, next, queue, running, ran>>,
         NEW label \in Labels, pc' = [pc EXCEPT ![c] = label],
         NEW n \in 1 .. maxNumberOfCores[c], numCores' = [numCores EXCEPT ![c] = n],
         ~ Active(c), pc[c] # "initArgs", idleCores' \in Int,
         \/ label = "returned"
         \/ {pc[c], label} \subseteq {"outside", "parallel", "sequential", "getArgs"}
         \/ pc[c] = "releaseCores" /\ label = "releaseArgs" /\ n = numCores[c]
  PROVE  DispatcherInv'
<1> USE DEF DispatcherInv
<1>1. /\ pc \in [Calls -> Labels] /\ pc' \in [Calls -> Labels] /\ pc'[c] = label
      /\ \A d \in Calls : d # c => pc'[d] = pc[d]
      /\ numCores \in [Calls -> Nat \ {0}]
      /\ numCores' \in [Calls -> Nat \ {0}] /\ numCores'[c] = n
      /\ \A d \in Calls : d # c => numCores'[d] = numCores[d]
  BY DispatcherAssumption DEF Types, TypeOK, DispatcherAssumption
<1>2. \A d \in Calls : Active(d)' => Active(d) /\ d # c
  BY <1>1 DEF Active
<1>3. \A d \in Calls, i \in Nat : Pending(d, i)' <=> Pending(d, i)
  BY <1>1 DEF Pending, Active, Launched, Joined
<1>4. Types'
  BY <1>1 DEF Types, TypeOK
<1>5. Ownership'
  BY <1>1 DEF Ownership, BlocksNotShared, Owns
<1>6. Counters'
  BY <1>1, <1>2 DEF Counters, Active
<1>7. Executions'
  <2> SUFFICES ASSUME NEW d \in Calls, pc'[d] # "returned", NEW k \in CoreIDs
               PROVE  ran'[d][k] = Executed(d, k)'
    BY DEF Executions
  <2>1. k \in Nat
    BY TaskNumbers
  <2>2. ran[d][k] = Executed(d, k)
    BY <1>1 DEF Executions, Labels
  <2>3. Pending(d, k)' <=> Pending(d, k)
    BY <1>3, <2>1
  <2>4. CASE d # c
    BY <1>1, <2>2, <2>3, <2>4 DEF Executed, Joined
  <2>5. CASE d = c
    BY <1>1, <2>2, <2>3, <2>5 DEF Executed, Joined, Pending, Active
  <2> QED BY <2>4, <2>5
<1> QED
  BY <1>1, <1>2, <1>3, <1>4, <1>5, <1>6, <1>7, SameTasks

LEMMA ChooseVersionInv ==
  ASSUME DispatcherInv, NEW c \in Calls, ChooseVersion(c) \/ RunSequential(c)
  PROVE  DispatcherInv'
<1>1. PICK label \in {"parallel", "sequential", "returned"} :
        pc' = [pc EXCEPT ![c] = label]
  BY DEF ChooseVersion, RunSequential, Goto
<1>2. /\ UNCHANGED <<idleCores, numCores, memory, index, next, queue, running, ran>>
      /\ pc[c] \in {"outside", "sequential"}
      /\ label = "returned" \/ pc[c] = "outside"
  BY <1>1 DEF ChooseVersion, RunSequential, DispatcherInv, Types, TypeOK, Goto
<1>3. /\ idleCores \in Int /\ numCores \in [Calls -> Nat \ {0}]
      /\ numCores[c] \in 1 .. maxNumberOfCores[c]
  BY DispatcherAssumption DEF DispatcherInv, Types, TypeOK, DispatcherAssumption
<1>4. numCores' = [numCores EXCEPT ![c] = numCores[c]]
  BY <1>2, <1>3
<1>5. ~ Active(c) /\ pc[c] # "initArgs" /\ label \in Labels
  BY <1>1, <1>2 DEF Active, Labels
<1> QED
  BY <1>1, <1>2, <1>3, <1>4, <1>5, NoTasks

LEMMA ReserveCoresInv ==
  ASSUME DispatcherInv, NEW c \in Calls, ReserveCores(c)
  PROVE  DispatcherInv'
<1> DEFINE n == Cores!Granted(maxNumberOfCores[c])
<1>1. n \in 1 .. maxNumberOfCores[c] /\ idleCores \in Int
  BY GrantedRange, DispatcherAssumption
     DEF DispatcherInv, Types, TypeOK, DispatcherAssumption
<1>2. /\ pc[c] = "parallel" /\ pc' = [pc EXCEPT ![c] = "getArgs"]
      /\ numCores' = [numCores EXCEPT ![c] = n]
      /\ idleCores' = idleCores - numCores'[c]
      /\ UNCHANGED <<memory, index, next, queue, running, ran>>
  BY DEF ReserveCores, Goto
<1> HIDE DEF n
<1>3. idleCores' \in Int
  <2>1. numCores'[c] = n
    BY <1>2 DEF DispatcherInv, Types, TypeOK
  <2>2. n \in Int
    BY <1>1, DispatcherAssumption DEF DispatcherAssumption
  <2> QED BY <1>1, <1>2, <2>1, <2>2
<1>4. ~ Active(c) /\ pc[c] # "initArgs" /\ "getArgs" \in Labels
  BY <1>2 DEF Active, Labels, Holding
<1> QED
  BY <1>1, <1>2, <1>3, <1>4, NoTasks

LEMMA ReleaseCoresInv ==
  ASSUME DispatcherInv, NEW c \in Calls, ReleaseCores(c)
  PROVE  DispatcherInv'
<1>1. /\ idleCores \in Int /\ numCores \in [Calls -> Nat \ {0}]
      /\ numCores[c] \in 1 .. maxNumberOfCores[c]
  BY DispatcherAssumption DEF DispatcherInv, Types, TypeOK, DispatcherAssumption
<1>2. /\ pc[c] = "releaseCores" /\ pc' = [pc EXCEPT ![c] = "releaseArgs"]
      /\ idleCores' = idleCores + numCores[c]
      /\ UNCHANGED <<numCores, memory, index, next, queue, running, ran>>
  BY DEF ReleaseCores, Goto
<1>3. idleCores' \in Int /\ numCores' = [numCores EXCEPT ![c] = numCores[c]]
  BY <1>1, <1>2
<1>4. ~ Active(c) /\ pc[c] # "initArgs" /\ "releaseArgs" \in Labels
  BY <1>2 DEF Active, Labels
<1> QED
  BY <1>1, <1>2, <1>3, <1>4, NoTasks

\* The end of the launches: every task but the dispatcher's own is pending, and
\* stays so.
LEMMA StartOwnTaskInv ==
  ASSUME DispatcherInv, NEW c \in Calls, StartOwnTask(c)
  PROVE  DispatcherInv'
<1> USE DEF DispatcherInv
<1>1. /\ pc[c] = "fork" /\ next[c] = numCores[c] - 1
      /\ pc' = [pc EXCEPT ![c] = "runOwn"]
      /\ UNCHANGED <<idleCores, numCores, memory, index, next, queue, running, ran>>
  BY DEF StartOwnTask, Goto
<1>2. /\ pc \in [Calls -> Labels] /\ pc' \in [Calls -> Labels] /\ pc'[c] = "runOwn"
      /\ \A d \in Calls : d # c => pc'[d] = pc[d]
      /\ numCores \in [Calls -> Nat \ {0}] /\ next \in [Calls -> Nat]
  BY <1>1 DEF Types, TypeOK, Labels, Holding
<1>3. \A d \in Calls, i \in Nat : Pending(d, i)' <=> Pending(d, i)
  BY <1>1, <1>2 DEF Pending, Active, Launched, Joined
<1>4. Types'
  BY <1>1, <1>2 DEF Types, TypeOK
<1>5. Ownership'
  BY <1>1, <1>2 DEF Ownership, BlocksNotShared, Owns
<1>6. Counters'
  BY <1>1, <1>2 DEF Counters, Active
<1>7. Executions'
  <2> SUFFICES ASSUME NEW d \in Calls, pc'[d] # "returned", NEW k \in CoreIDs
               PROVE  ran'[d][k] = Executed(d, k)'
    BY DEF Executions
  <2>1. Pending(d, k)' <=> Pending(d, k)
    BY <1>3, TaskNumbers
  <2>2. ran[d][k] = Executed(d, k)
    BY <1>1, <1>2 DEF Executions
  <2> QED
    BY <1>1, <1>2, <2>1, <2>2 DEF Executed, Joined
<1> QED
  BY <1>1, <1>2, <1>3, <1>4, <1>5, <1>6, <1>7, SameTasks

\* The dispatcher's own task returns, and no task is joined yet.
LEMMA EndOwnTaskInv ==
  ASSUME DispatcherInv, NEW c \in Calls, EndOwnTask(c)
  PROVE  DispatcherInv'
<1> USE DEF DispatcherInv
<1> DEFINE own == numCores[c] - 1
<1>1. /\ pc[c] = "runOwn" /\ pc' = [pc EXCEPT ![c] = "join"]
      /\ next' = [next EXCEPT ![c] = 0]
      /\ ran' = [ran EXCEPT ![c][own] = @ + 1]
      /\ UNCHANGED <<idleCores, numCores, memory, index, queue, running>>
  BY DEF EndOwnTask, Goto
<1>2. /\ pc \in [Calls -> Labels] /\ pc' \in [Calls -> Labels] /\ pc'[c] = "join"
      /\ \A d \in Calls : d # c => pc'[d] = pc[d]
      /\ numCores \in [Calls -> Nat \ {0}]
      /\ next \in [Calls -> Nat] /\ next' \in [Calls -> Nat] /\ next'[c] = 0
      /\ \A d \in Calls : d # c => next'[d] = next[d]
  BY <1>1 DEF Types, TypeOK, Labels, Holding
<1>3. own \in CoreIDs /\ ran \in [Calls -> [CoreIDs -> Nat]]
  <2>1. own \in 0 .. maxNumberOfCores[c] - 1
    BY <1>2, DispatcherAssumption DEF Types, DispatcherAssumption
  <2> QED BY <2>1, TaskNumbers DEF Types, TypeOK
<1>4. /\ ran' \in [Calls -> [CoreIDs -> Nat]] /\ ran'[c][own] = ran[c][own] + 1
      /\ \A d \in Calls, k \in CoreIDs : d # c \/ k # own => ran'[d][k] = ran[d][k]
  BY <1>1, <1>3
<1>5. \A d \in Calls, i \in Nat : Pending(d, i)' <=> Pending(d, i)
  BY <1>1, <1>2 DEF Pending, Active, Launched, Joined
<1>6. Types'
  BY <1>1, <1>2, <1>4 DEF Types, TypeOK
<1>7. Ownership'
  BY <1>1, <1>2 DEF Ownership, BlocksNotShared, Owns
<1>8. Counters'
  BY <1>1, <1>2 DEF Counters, Active
<1>9. Executions'
  <2> SUFFICES ASSUME NEW d \in Calls, pc'[d] # "returned", NEW k \in CoreIDs
               PROVE  ran'[d][k] = Executed(d, k)'
    BY DEF Executions
  <2>1. (Pending(d, k)' <=> Pending(d, k)) /\ k \in Nat
    BY <1>5, TaskNumbers
  <2>2. ran[d][k] = Executed(d, k)
    BY <1>1, <1>2 DEF Executions
  <2>3. CASE d # c
    BY <1>1, <1>2, <1>4, <2>1, <2>2, <2>3 DEF Executed, Joined
  <2>4. CASE d = c /\ k = own
    BY <1>1, <1>2, <1>4, <2>1, <2>2, <2>4 DEF Executed, Joined, Pending
  <2>5. CASE d = c /\ k # own
    BY <1>1, <1>2, <1>4, <2>1, <2>2, <2>5 DEF Executed, Joined
  <2> QED BY <2>3, <2>4, <2>5
<1> QED
  BY <1>1, <1>2, <1>5, <1>6, <1>7, <1>8, <1>9, SameTasks

\* All tasks are joined: none is pending any more, and each was executed.
LEMMA JoinedAllInv ==
  ASSUME DispatcherInv, NEW c \in Calls, JoinedAll(c)
  PROVE  DispatcherInv'
<1> USE DEF DispatcherInv
<1>1. /\ pc[c] = "join" /\ next[c] = numCores[c] - 1
      /\ pc' = [pc EXCEPT ![c] = "releaseCores"]
      /\ UNCHANGED <<idleCores, numCores, memory, index, next, queue, running, ran>>
  BY DEF JoinedAll, Goto
<1>2. /\ pc \in [Calls -> Labels] /\ pc' \in [Calls -> Labels]
      /\ pc'[c] = "releaseCores" /\ \A d \in Calls : d # c => pc'[d] = pc[d]
      /\ numCores \in [Calls -> Nat \ {0}] /\ next \in [Calls -> Nat]
  BY <1>1 DEF Types, TypeOK, Labels, Holding
<1>3. \A d \in Calls, i \in Nat : Pending(d, i)' <=> Pending(d, i)
  BY <1>1, <1>2 DEF Pending, Active, Launched, Joined
<1>4. Types'
  BY <1>1, <1>2 DEF Types, TypeOK
<1>5. Ownership'
  BY <1>1, <1>2 DEF Ownership, BlocksNotShared, Owns
<1>6. Counters'
  BY <1>1, <1>2 DEF Counters, Active
<1>7. Executions'
  <2> SUFFICES ASSUME NEW d \in Calls, pc'[d] # "returned", NEW k \in CoreIDs
               PROVE  ran'[d][k] = Executed(d, k)'
    BY DEF Executions
  <2>1. (Pending(d, k)' <=> Pending(d, k)) /\ k \in Nat
    BY <1>3, TaskNumbers
  <2>2. ran[d][k] = Executed(d, k)
    BY <1>1, <1>2 DEF Executions
  <2>3. CASE d # c
    BY <1>1, <1>2, <2>1, <2>2, <2>3 DEF Executed, Joined
  <2>4. CASE d = c
    <3>1. Joined(c, k) <=> k < numCores[c] - 1
      BY <1>1, <1>2 DEF Joined
    <3>2. ~ Pending(c, k) /\ ~ Pending(c, k)'
      BY <1>1, <1>2, <2>1, <2>4, <3>1 DEF Pending, Active
    <3> QED
      BY <1>1, <1>2, <2>1, <2>2, <2>4, <3>1, <3>2 DEF Executed, Joined
  <2> QED BY <2>3, <2>4
<1> QED
  BY <1>1, <1>2, <1>3, <1>4, <1>5, <1>6, <1>7, SameTasks

\* The dispatchers whose tasks a step of call c does not disturb.
LEMMA SameExecutions ==
  ASSUME DispatcherInv, NEW d \in Calls,
         UNCHANGED <<pc[d], numCores[d], next[d], index[d], ran[d]>>,
         \A i \in Nat : Pending(d, i) =>
           memory'[index[d]].args[i].locked = memory[index[d]].args[i].locked
  PROVE  pc'[d] # "returned" => \A k \in CoreIDs : ran'[d][k] = Executed(d, k)'
<1> SUFFICES ASSUME pc'[d] # "returned", NEW k \in CoreIDs
             PROVE  ran'[d][k] = Executed(d, k)'
  OBVIOUS
<1>1. k \in Nat /\ ran[d][k] = Executed(d, k)
  BY TaskNumbers DEF DispatcherInv, Executions
<1>2. Pending(d, k)' <=> Pending(d, k)
  BY DEF Pending, Active, Launched, Joined
<1> QED
  BY <1>1, <1>2 DEF Executed, Joined

\* A call that has launched no task.
LEMMA NothingLaunched ==
  ASSUME DispatcherInv, NEW c \in Calls,
         pc[c] \in {"getArgs", "initArgs"}, pc'[c] \in {"initArgs", "fork"},
         UNCHANGED <<numCores[c], next[c], ran[c]>>
  PROVE  /\ \A i \in Nat : ~ Pending(c, i) /\ ~ Pending(c, i)'
         /\ \A k \in CoreIDs : ran'[c][k] = Executed(c, k)'
         /\ next'[c] = 0
<1>1. next[c] = 0
  BY DEF DispatcherInv, Counters
<1>2. \A i \in Nat : ~ Pending(c, i) /\ ~ Pending(c, i)'
  BY <1>1 DEF Pending, Active, Launched
<1>3. ASSUME NEW k \in CoreIDs PROVE ran'[c][k] = Executed(c, k)'
  <2>1. ran[c][k] = Executed(c, k) /\ ~ Pending(c, k) /\ ~ Pending(c, k)'
    BY <1>2, TaskNumbers DEF DispatcherInv, Executions
  <2> QED BY <2>1 DEF Executed, Joined
<1> QED
  BY <1>1, <1>2, <1>3

\* getDOALLArgs recycles a block: nobody uses it, and its endLocks are locked.
LEMMA ReuseBlockInv ==
  ASSUME DispatcherInv, NEW c \in Calls, pc[c] = "getArgs",
         NEW b \in DOMAIN memory, memory[b].available,
         memory[b].size >= numCores[c] - 1,
         NEW taken \in BOOLEAN, ~ taken,
         memory' = SetAvailable(memory, b, taken),
         index' = [index EXCEPT ![c] = b], Goto(c, "fork"),
         UNCHANGED <<idleCores, numCores, next, queue, running, ran>>
  PROVE  DispatcherInv'
<1> USE DEF DispatcherInv
<1>1. /\ pc \in [Calls -> Labels] /\ pc' \in [Calls -> Labels] /\ pc'[c] = "fork"
      /\ \A d \in Calls : d # c => pc'[d] = pc[d]
      /\ numCores \in [Calls -> Nat \ {0}] /\ next \in [Calls -> Nat]
      /\ index \in [Calls -> 0 .. Len(memory)]
  BY DEF Types, TypeOK, Labels, Holding, Goto
<1>2. /\ MemoryTyped(memory') /\ Len(memory') = Len(memory)
      /\ DOMAIN memory' = DOMAIN memory
      /\ \A j \in DOMAIN memory :
           /\ memory'[j].size = memory[j].size /\ memory'[j].args = memory[j].args
           /\ j # b => memory'[j].available = memory[j].available
      /\ memory'[b].available = taken
  <2>1. AvailabilityWritten(memory, memory', b, taken)
    BY MemoryIsTyped, AvailabilityWrite
  <2> QED BY <2>1 DEF AvailabilityWritten
<1>3. /\ Len(memory) \in Nat /\ DOMAIN memory = 1 .. Len(memory)
      /\ \A j \in DOMAIN memory :
           memory[j].size \in Nat /\ memory'[j].available \in BOOLEAN
  BY <1>2, MemoryIsTyped, BlockIsTyped
<1>4. /\ index' \in [Calls -> 0 .. Len(memory)] /\ index'[c] = b
      /\ \A d \in Calls : d # c => index'[d] = index[d]
  BY <1>1, <1>3
<1>5. /\ \A d \in Calls : Owns(d)' <=> Owns(d) \/ d = c
      /\ \A d \in Calls : Owns(d) => index[d] # b /\ d # c
  BY <1>1 DEF Owns, Ownership, BlocksNotShared
<1>6. \A d \in Calls, i \in Nat : Pending(d, i)' <=> Pending(d, i)
  BY <1>1, NothingLaunched DEF Pending, Active, Launched, Joined
<1>7. \A d \in Calls, i \in Nat : Pending(d, i) => index[d] \in DOMAIN memory /\ d # c
  BY PendingSlot, <1>5
<1>8. Types'
  BY <1>1, <1>2, <1>3, <1>4 DEF Types, TypeOK, MemoryTyped
<1>9. Ownership'
  <2>1. \A d \in Calls : Owns(d)' => index'[d] \in DOMAIN memory'
    BY <1>2, <1>4, <1>5 DEF Ownership
  <2>2. \A d \in Calls : pc'[d] = "initArgs" =>
                           memory'[index'[d]].size = numCores'[d] - 1
    BY <1>1, <1>2, <1>4, <1>5 DEF Ownership, Owns
  <2>3. BlocksNotShared'
    <3> SUFFICES ASSUME NEW d \in Calls, Owns(d)'
                 PROVE  /\ ~ memory'[index'[d]].available
                        /\ memory'[index'[d]].size >= numCores'[d] - 1
                        /\ \A e \in Calls \ {d} : Owns(e)' => index'[e] # index'[d]
      BY DEF BlocksNotShared
    <3>1. CASE d = c
      BY <3>1, <1>2, <1>4, <1>5
    <3>2. CASE d # c
      BY <3>2, <1>2, <1>4, <1>5 DEF Ownership, BlocksNotShared
    <3> QED BY <3>1, <3>2
  <2> QED BY <2>1, <2>2, <2>3 DEF Ownership
<1>10. Counters'
  BY <1>1, NothingLaunched DEF Counters, Active
<1>11. Slots'
  <2> SUFFICES ASSUME NEW j \in DOMAIN memory,
                      ~ \E d \in Calls : pc'[d] = "initArgs" /\ index'[d] = j,
                      NEW i \in 0 .. memory[j].size - 1
               PROVE  /\ memory'[j].args[i].coreID = i
                      /\ \/ memory'[j].args[i].locked
                         \/ \E d \in Calls : index'[d] = j /\ Pending(d, i)'
    BY <1>2 DEF Slots
  <2>1. ~ \E d \in Calls : pc[d] = "initArgs" /\ index[d] = j
    BY <1>1, <1>4
  <2>2. memory'[j].args = memory[j].args /\ i \in Nat
    BY <1>2, <1>3
  <2> QED
    BY <2>1, <2>2, <1>4, <1>6, <1>7 DEF Slots
<1>12. Executions'
  <2>1. ASSUME NEW d \in Calls, d # c, pc'[d] # "returned"
        PROVE  \A k \in CoreIDs : ran'[d][k] = Executed(d, k)'
    BY <2>1, <1>1, <1>2, <1>4, <1>7, SameExecutions
  <2>2. \A k \in CoreIDs : ran'[c][k] = Executed(c, k)'
    BY <1>1, NothingLaunched
  <2> QED BY <2>1, <2>2 DEF Executions
<1> QED
  BY <1>2, <1>4, <1>6, <1>7, <1>8, <1>9, <1>10, <1>11, <1>12, SamePending

\* getDOALLArgs allocates a block, which no other call knows.
LEMMA NewBlockInv ==
  ASSUME DispatcherInv, NEW c \in Calls, pc[c] = "getArgs",
         NEW block, block.size = numCores[c] - 1, ~ block.available,
         block \in Blocks, block.args \in [0 .. block.size - 1 -> Args],
         memory' = Append(memory, block),
         index' = [index EXCEPT ![c] = Len(memory) + 1], Goto(c, "initArgs"),
         UNCHANGED <<idleCores, numCores, next, queue, running, ran>>
  PROVE  DispatcherInv'
<1> USE DEF DispatcherInv
<1>1. /\ pc \in [Calls -> Labels] /\ pc' \in [Calls -> Labels] /\ pc'[c] = "initArgs"
      /\ \A d \in Calls : d # c => pc'[d] = pc[d]
      /\ numCores \in [Calls -> Nat \ {0}] /\ next \in [Calls -> Nat]
      /\ index \in [Calls -> 0 .. Len(memory)]
  BY DEF Types, TypeOK, Labels, Holding, Goto
<1>2. /\ Len(memory) \in Nat /\ DOMAIN memory = 1 .. Len(memory)
      /\ \A j \in DOMAIN memory :
           memory[j].size \in Nat /\ memory[j].available \in BOOLEAN
      /\ MemoryTyped(memory)
  BY MemoryIsTyped
<1>3. /\ memory' \in Seq(Blocks) /\ Len(memory') = Len(memory) + 1
      /\ \A j \in 1 .. Len(memory) : memory'[j] = memory[j]
      /\ memory'[Len(memory) + 1] = block
  BY AppendProperties DEF Types
<1>4. DOMAIN memory' = 1 .. Len(memory) + 1
  BY <1>3, LenProperties
<1>5. /\ index' \in [Calls -> 0 .. Len(memory')] /\ index'[c] = Len(memory) + 1
      /\ \A d \in Calls : d # c => index'[d] = index[d]
  BY <1>1, <1>2, <1>3
<1>6. /\ \A d \in Calls : Owns(d)' <=> Owns(d) \/ d = c
      /\ \A d \in Calls : Owns(d) => index[d] \in DOMAIN memory /\ d # c
  BY <1>1 DEF Owns, Ownership
<1>7. \A d \in Calls, i \in Nat : Pending(d, i)' <=> Pending(d, i)
  BY <1>1, NothingLaunched DEF Pending, Active, Launched, Joined
<1>8. \A d \in Calls, i \in Nat : Pending(d, i) => index[d] \in DOMAIN memory /\ d # c
  BY PendingSlot, <1>6
<1>9. Types'
  <2>1. block.size \in Nat /\ block.available \in BOOLEAN
    BY DEF Blocks
  <2>2. \A j \in DOMAIN memory' :
          /\ memory'[j].size \in Nat /\ memory'[j].available \in BOOLEAN
          /\ memory'[j].args \in [0 .. memory'[j].size - 1 -> Args]
    <3> SUFFICES ASSUME NEW j \in 1 .. Len(memory) + 1
                 PROVE  /\ memory'[j].size \in Nat /\ memory'[j].available \in BOOLEAN
                        /\ memory'[j].args \in [0 .. memory'[j].size - 1 -> Args]
      BY <1>4
    <3>1. CASE j = Len(memory) + 1
      BY <3>1, <2>1, <1>3
    <3>2. CASE j \in 1 .. Len(memory)
      BY <3>2, <1>2, <1>3 DEF MemoryTyped
    <3> QED BY <3>1, <3>2, <1>2
  <2> QED
    BY <1>1, <1>3, <1>5, <2>2 DEF Types, TypeOK
<1>10. Ownership'
  <2>1. \A d \in Calls : Owns(d)' => index'[d] \in DOMAIN memory'
    BY <1>2, <1>4, <1>5, <1>6
  <2>2. ASSUME NEW d \in Calls, Owns(d), d # c
        PROVE  memory'[index'[d]] = memory[index[d]] /\ index'[d] # index'[c]
    BY <2>2, <1>2, <1>3, <1>5, <1>6
  <2>3. ASSUME NEW d \in Calls, pc'[d] = "initArgs"
        PROVE  memory'[index'[d]].size = numCores'[d] - 1
    BY <2>2, <2>3, <1>1, <1>3, <1>5, <1>6 DEF Ownership, Owns
  <2>4. BlocksNotShared'
    <3> SUFFICES ASSUME NEW d \in Calls, Owns(d)'
                 PROVE  /\ ~ memory'[index'[d]].available
                        /\ memory'[index'[d]].size >= numCores'[d] - 1
                        /\ \A e \in Calls \ {d} : Owns(e)' => index'[e] # index'[d]
      BY DEF BlocksNotShared
    <3>1. CASE d = c
      BY <3>1, <2>2, <1>1, <1>3, <1>5, <1>6
    <3>2. CASE d # c
      BY <3>2, <2>2, <1>5, <1>6 DEF Ownership, BlocksNotShared
    <3> QED BY <3>1, <3>2
  <2> QED BY <2>1, <2>3, <2>4 DEF Ownership
<1>11. Counters'
  BY <1>1, NothingLaunched DEF Counters, Active
<1>12. Slots'
  <2> SUFFICES ASSUME NEW j \in DOMAIN memory',
                      ~ \E d \in Calls : pc'[d] = "initArgs" /\ index'[d] = j,
                      NEW i \in 0 .. memory'[j].size - 1
               PROVE  /\ memory'[j].args[i].coreID = i
                      /\ \/ memory'[j].args[i].locked
                         \/ \E d \in Calls : index'[d] = j /\ Pending(d, i)'
    BY DEF Slots
  <2>1. j # Len(memory) + 1 /\ j \in DOMAIN memory
    BY <1>1, <1>2, <1>4, <1>5
  <2>2. ~ \E d \in Calls : pc[d] = "initArgs" /\ index[d] = j
    BY <1>1, <1>5
  <2>3. memory'[j] = memory[j] /\ i \in Nat
    BY <2>1, <1>2, <1>3
  <2> QED
    BY <2>1, <2>2, <2>3, <1>5, <1>7, <1>8 DEF Slots
<1>13. Executions'
  <2>1. ASSUME NEW d \in Calls, d # c, pc'[d] # "returned"
        PROVE  \A k \in CoreIDs : ran'[d][k] = Executed(d, k)'
    BY <2>1, <1>1, <1>2, <1>3, <1>5, <1>8, SameExecutions
  <2>2. \A k \in CoreIDs : ran'[c][k] = Executed(c, k)'
    BY <1>1, NothingLaunched
  <2> QED BY <2>1, <2>2 DEF Executions
<1> QED
  BY <1>2, <1>3, <1>5, <1>7, <1>8, <1>9, <1>10, <1>11, <1>12, <1>13, SamePending

\* The critical section of getDOALLArgs, with the search for a block that fits.
LEMMA GetDOALLArgsInv ==
  ASSUME DispatcherInv, NEW c \in Calls, GetDOALLArgs(c)
  PROVE  DispatcherInv'
<1> DEFINE cores == numCores[c] - 1
           reuse == Reusable(cores)
           first == CHOOSE i \in reuse : \A j \in reuse : i <= j
           block == [size |-> cores, available |-> FALSE,
                     args |-> [i \in 0 .. cores - 1 |-> RawArgs]]
<1>1. /\ pc[c] = "getArgs"
      /\ UNCHANGED <<idleCores, numCores, next, queue, running, ran>>
  BY DEF GetDOALLArgs
<1>2. \/ /\ reuse # {}
         /\ memory' = [memory EXCEPT ![first].available = FALSE]
         /\ index' = [index EXCEPT ![c] = first]
         /\ Goto(c, "fork")
      \/ /\ reuse = {}
         /\ memory' = Append(memory, block)
         /\ index' = [index EXCEPT ![c] = Len(memory) + 1]
         /\ Goto(c, "initArgs")
  BY DEF GetDOALLArgs
<1>3. cores \in Nat
  BY DEF DispatcherInv, Types, TypeOK
<1>4. CASE reuse # {}
  <2>1. reuse \subseteq Nat
    BY MemoryIsTyped DEF Reusable, DispatcherInv
  <2>2. first \in reuse
    BY <1>4, <2>1, FirstExists
  <2>3. /\ memory' = [memory EXCEPT ![first].available = FALSE]
        /\ index' = [index EXCEPT ![c] = first] /\ Goto(c, "fork")
    BY <1>2, <1>4
  <2>4. PICK taken \in BOOLEAN :
          ~ taken /\ memory' = [memory EXCEPT ![first].available = taken]
    BY <2>3
  <2>5. memory' = SetAvailable(memory, first, taken)
    BY <2>4 DEF SetAvailable
  <2>6. first \in DOMAIN memory /\ memory[first].available /\ memory[first].size >= cores
    BY <2>2 DEF Reusable
  <2> HIDE DEF first, reuse
  <2> QED
    BY <1>1, <2>3, <2>4, <2>5, <2>6, ReuseBlockInv
<1>5. CASE reuse = {}
  <2>1. RawArgs \in Args
    BY DEF RawArgs, Args
  <2>2. block.args \in [0 .. cores - 1 -> Args]
    BY <2>1
  <2>3. /\ block \in Blocks /\ block.size = cores /\ ~ block.available
        /\ block.args \in [0 .. block.size - 1 -> Args]
    BY <1>3, <2>2 DEF Blocks
  <2>4. /\ memory' = Append(memory, block)
        /\ index' = [index EXCEPT ![c] = Len(memory) + 1]
        /\ Goto(c, "initArgs")
    BY <1>2, <1>5
  <2> HIDE DEF block
  <2> QED
    BY <1>1, <2>3, <2>4, NewBlockInv
<1> QED
  BY <1>4, <1>5

\* A slot of a new block is initialized.
LEMMA SlotInitialized ==
  ASSUME NEW x \in Args, NEW i \in CoreIDs, NEW y,
         y = [x EXCEPT !.coreID = i, !.locked = TRUE]
  PROVE  y \in Args /\ y.coreID = i /\ y.locked
BY DEF Args

\* A new block is initialized, outside of the critical section.
LEMMA InitializeArgsInv ==
  ASSUME DispatcherInv, NEW c \in Calls, InitializeArgs(c)
  PROVE  DispatcherInv'
<1> USE DEF DispatcherInv
<1> DEFINE b == index[c]
           a == [i \in DOMAIN memory[b].args |->
                   [memory[b].args[i] EXCEPT !.coreID = i, !.locked = TRUE]]
<1>1. /\ pc[c] = "initArgs" /\ Goto(c, "fork")
      /\ UNCHANGED <<idleCores, numCores, index, next, queue, running, ran>>
      /\ memory' = SetArgs(memory, b, a)
  BY DEF InitializeArgs, SetArgs
<1>2. /\ pc \in [Calls -> Labels] /\ pc' \in [Calls -> Labels] /\ pc'[c] = "fork"
      /\ \A d \in Calls : d # c => pc'[d] = pc[d]
      /\ numCores \in [Calls -> Nat \ {0}] /\ next \in [Calls -> Nat]
  BY <1>1 DEF Types, TypeOK, Labels, Holding, Goto
<1>3. /\ Len(memory) \in Nat /\ DOMAIN memory = 1 .. Len(memory)
      /\ \A j \in DOMAIN memory :
           memory[j].size \in Nat /\ memory[j].available \in BOOLEAN
      /\ MemoryTyped(memory)
  BY MemoryIsTyped
<1>4. /\ b \in DOMAIN memory /\ memory[b].size = numCores[c] - 1
      /\ \A d \in Calls : Owns(d) /\ d # c => index[d] # b
      /\ Owns(c)
  BY <1>1 DEF Ownership, BlocksNotShared, Owns
<1>5. ASSUME NEW i \in 0 .. memory[b].size - 1 PROVE i \in CoreIDs
  <2>1. i \in 0 .. maxNumberOfCores[c] - 1
    BY <1>2, <1>4, DispatcherAssumption DEF Types, DispatcherAssumption
  <2> QED BY <2>1, TaskNumbers
<1>6. /\ a \in [0 .. memory[b].size - 1 -> Args]
      /\ \A i \in 0 .. memory[b].size - 1 : a[i].coreID = i /\ a[i].locked
  <2>1. memory[b].args \in [0 .. memory[b].size - 1 -> Args]
    BY <1>3, <1>4 DEF MemoryTyped
  <2>2. ASSUME NEW i \in 0 .. memory[b].size - 1
        PROVE  a[i] \in Args /\ a[i].coreID = i /\ a[i].locked
    <3>1. a[i] = [memory[b].args[i] EXCEPT !.coreID = i, !.locked = TRUE]
      BY <2>1
    <3>2. memory[b].args[i] \in Args /\ i \in CoreIDs
      BY <2>1, <1>5
    <3> QED BY <3>1, <3>2, SlotInitialized
  <2>3. a = [i \in 0 .. memory[b].size - 1 |-> a[i]]
    BY <2>1
  <2> HIDE DEF a
  <2> QED BY <2>2, <2>3
<1> HIDE DEF a
<1>7. /\ MemoryTyped(memory') /\ Len(memory') = Len(memory)
      /\ DOMAIN memory' = DOMAIN memory
      /\ \A j \in DOMAIN memory :
           /\ memory'[j].size = memory[j].size
           /\ memory'[j].available = memory[j].available
           /\ j # b => memory'[j].args = memory[j].args
      /\ memory'[b].args = a
  <2>1. ArgsWritten(memory, memory', b, a)
    BY <1>1, <1>3, <1>4, <1>6, ArgsWrite
  <2> QED BY <2>1 DEF ArgsWritten
<1>8. \A d \in Calls, i \in Nat : Pending(d, i)' <=> Pending(d, i)
  BY <1>1, <1>2, NothingLaunched DEF Pending, Active, Launched, Joined
<1>9. \A d \in Calls, i \in Nat : Pending(d, i) =>
        index[d] \in DOMAIN memory /\ d # c /\ index[d] # b
  BY <1>1, <1>4, PendingSlot DEF Pending, Active
<1>10. \A d \in Calls : Owns(d)' <=> Owns(d)
  BY <1>1, <1>2 DEF Owns
<1>11. Types'
  BY <1>1, <1>2, <1>3, <1>7 DEF Types, TypeOK, MemoryTyped
<1>12. Ownership'
  BY <1>1, <1>2, <1>7, <1>10 DEF Ownership, BlocksNotShared, Owns
<1>13. Counters'
  BY <1>1, <1>2, NothingLaunched DEF Counters, Active
<1>14. Slots'
  <2> SUFFICES ASSUME NEW j \in DOMAIN memory,
                      ~ \E d \in Calls : pc'[d] = "initArgs" /\ index[d] = j,
                      NEW i \in 0 .. memory[j].size - 1
               PROVE  /\ memory'[j].args[i].coreID = i
                      /\ \/ memory'[j].args[i].locked
                         \/ \E d \in Calls : index[d] = j /\ Pending(d, i)'
    BY <1>1, <1>7 DEF Slots
  <2>1. CASE j = b
    BY <2>1, <1>6, <1>7
  <2>2. CASE j # b
    <3>1. ~ \E d \in Calls : pc[d] = "initArgs" /\ index[d] = j
      BY <2>2, <1>2
    <3>2. memory'[j].args = memory[j].args /\ i \in Nat
      BY <2>2, <1>3, <1>7
    <3> QED BY <3>1, <3>2, <1>8 DEF Slots
  <2> QED BY <2>1, <2>2
<1>15. Executions'
  <2>1. ASSUME NEW d \in Calls, d # c, pc'[d] # "returned"
        PROVE  \A k \in CoreIDs : ran'[d][k] = Executed(d, k)'
    BY <2>1, <1>1, <1>2, <1>7, <1>9, SameExecutions
  <2>2. \A k \in CoreIDs : ran'[c][k] = Executed(c, k)'
    BY <1>1, <1>2, NothingLaunched
  <2> QED BY <2>1, <2>2 DEF Executions
<1> QED
  BY <1>1, <1>7, <1>8, <1>9, <1>11, <1>12, <1>13, <1>14, <1>15, SamePending

\* releaseDOALLArgs: the block, whose tasks are all joined, becomes available.
LEMMA ReleaseDOALLArgsInv ==
  ASSUME DispatcherInv, NEW c \in Calls, ReleaseDOALLArgs(c)
  PROVE  DispatcherInv'
<1> USE DEF DispatcherInv
<1> DEFINE b == index[c]
<1>1. /\ pc[c] = "releaseArgs" /\ Goto(c, "returned")
      /\ UNCHANGED <<idleCores, numCores, index, next, queue, running, ran>>
      /\ memory' = [memory EXCEPT ![b].available = TRUE]
  BY DEF ReleaseDOALLArgs
<1>2. PICK free \in BOOLEAN : memory' = [memory EXCEPT ![b].available = free]
  BY <1>1
<1>3. /\ pc \in [Calls -> Labels] /\ pc' \in [Calls -> Labels] /\ pc'[c] = "returned"
      /\ \A d \in Calls : d # c => pc'[d] = pc[d]
      /\ numCores \in [Calls -> Nat \ {0}] /\ next \in [Calls -> Nat]
  BY <1>1 DEF Types, TypeOK, Labels, Holding, Goto
<1>4. /\ Len(memory) \in Nat /\ DOMAIN memory = 1 .. Len(memory)
      /\ \A j \in DOMAIN memory :
           memory[j].size \in Nat /\ memory[j].available \in BOOLEAN
      /\ MemoryTyped(memory)
  BY MemoryIsTyped
<1>5. /\ b \in DOMAIN memory
      /\ \A d \in Calls : Owns(d) /\ d # c => index[d] # b
  BY <1>1 DEF Ownership, BlocksNotShared, Owns
<1>6. memory' = SetAvailable(memory, b, free)
  BY <1>2 DEF SetAvailable
<1>7. /\ MemoryTyped(memory') /\ Len(memory') = Len(memory)
      /\ DOMAIN memory' = DOMAIN memory
      /\ \A j \in DOMAIN memory :
           /\ memory'[j].size = memory[j].size /\ memory'[j].args = memory[j].args
           /\ j # b => memory'[j].available = memory[j].available
      /\ memory'[b].available = free
  <2>1. AvailabilityWritten(memory, memory', b, free)
    BY <1>4, <1>5, <1>6, AvailabilityWrite
  <2> QED BY <2>1 DEF AvailabilityWritten
<1>8. \A d \in Calls, i \in Nat : Pending(d, i)' <=> Pending(d, i)
  BY <1>1, <1>3 DEF Pending, Active, Launched, Joined
<1>9. \A d \in Calls, i \in Nat : Pending(d, i) => index[d] \in DOMAIN memory /\ d # c
  BY <1>1, PendingSlot DEF Pending, Active
<1>10. \A d \in Calls : Owns(d)' <=> Owns(d) /\ d # c
  BY <1>3 DEF Owns
<1>11. Types'
  BY <1>1, <1>3, <1>4, <1>7 DEF Types, TypeOK, MemoryTyped
<1>12. Ownership'
  <2>1. ASSUME NEW d \in Calls, Owns(d)'
        PROVE  /\ Owns(d) /\ index[d] \in DOMAIN memory
               /\ memory'[index[d]].available = memory[index[d]].available
               /\ memory'[index[d]].size = memory[index[d]].size
    BY <2>1, <1>5, <1>7, <1>10 DEF Ownership
  <2>2. \A d \in Calls : pc'[d] = "initArgs" => Owns(d)' /\ pc[d] = "initArgs"
    BY <1>3 DEF Owns
  <2>3. BlocksNotShared'
    BY <2>1, <1>1 DEF Ownership, BlocksNotShared
  <2> QED
    BY <2>1, <2>2, <2>3, <1>1, <1>7 DEF Ownership
<1>13. Counters'
  BY <1>1, <1>3 DEF Counters, Active
<1>14. Slots'
  <2> SUFFICES ASSUME NEW j \in DOMAIN memory,
                      ~ \E d \in Calls : pc'[d] = "initArgs" /\ index[d] = j,
                      NEW i \in 0 .. memory[j].size - 1
               PROVE  /\ memory[j].args[i].coreID = i
                      /\ \/ memory[j].args[i].locked
                         \/ \E d \in Calls : index[d] = j /\ Pending(d, i)'
    BY <1>1, <1>7 DEF Slots
  <2>1. ~ \E d \in Calls : pc[d] = "initArgs" /\ index[d] = j
    BY <1>1, <1>3
  <2>2. i \in Nat
    BY <1>4
  <2> QED BY <2>1, <2>2, <1>8 DEF Slots
<1>15. Executions'
  <2> SUFFICES ASSUME NEW d \in Calls, pc'[d] # "returned"
               PROVE  \A k \in CoreIDs : ran'[d][k] = Executed(d, k)'
    BY DEF Executions
  <2> QED BY <1>1, <1>3, <1>7, <1>9, SameExecutions
<1> QED
  BY <1>1, <1>7, <1>8, <1>9, <1>11, <1>12, <1>13, <1>14, <1>15, SamePending

\* A dispatcher owns its block from the first launch to the last join, and the
\* slots of its tasks are in it.
LEMMA ActiveBlock ==
  ASSUME DispatcherInv, NEW c \in Calls, Active(c), NEW s \in 0 .. numCores[c] - 2
  PROVE  /\ Owns(c) /\ index[c] \in DOMAIN memory /\ index[c] \in Nat
         /\ s \in 0 .. memory[index[c]].size - 1 /\ s \in Nat /\ s \in CoreIDs
         /\ \A d \in Calls : Owns(d) /\ index[d] = index[c] => d = c
         /\ \A d \in Calls : pc[d] = "initArgs" => index[d] # index[c]
<1> USE DEF DispatcherInv
<1>1. /\ numCores[c] \in Nat \ {0} /\ numCores[c] <= maxNumberOfCores[c]
      /\ maxNumberOfCores[c] \in Nat
  BY DispatcherAssumption DEF Types, TypeOK, DispatcherAssumption
<1>2. /\ Owns(c) /\ index[c] \in DOMAIN memory
      /\ memory[index[c]].size \in Nat /\ memory[index[c]].size >= numCores[c] - 1
      /\ \A d \in Calls : Owns(d) /\ index[d] = index[c] => d = c
      /\ DOMAIN memory = 1 .. Len(memory) /\ Len(memory) \in Nat
  BY MemoryIsTyped DEF Active, Owns, Ownership, BlocksNotShared
<1>3. \A d \in Calls : pc[d] = "initArgs" => index[d] # index[c]
  BY <1>2 DEF Active, Owns
<1>4. s \in 0 .. maxNumberOfCores[c] - 1
  BY <1>1
<1> QED
  BY <1>1, <1>2, <1>3, <1>4, TaskNumbers

\* A task is submitted: its slot was nobody's and its endLock is locked.
LEMMA SubmitTaskInv ==
  ASSUME DispatcherInv, NEW c \in Calls, SubmitTask(c)
  PROVE  DispatcherInv'
<1> USE DEF DispatcherInv
<1> DEFINE b == index[c]
           s == next[c]
           p == Pointer(c, s)
<1>1. /\ pc[c] = "fork" /\ s < numCores[c] - 1
      /\ memory' = SetTask(memory, b, s, c, numCores[c])
      /\ queue' = Append(queue, p)
      /\ next' = [next EXCEPT ![c] = @ + 1]
      /\ UNCHANGED <<idleCores, pc, numCores, index, running, ran>>
  BY DEF SubmitTask, SetTask
<1>2. /\ numCores \in [Calls -> Nat \ {0}]
      /\ next \in [Calls -> Nat] /\ next' \in [Calls -> Nat] /\ next'[c] = s + 1
      /\ \A d \in Calls : d # c => next'[d] = next[d]
      /\ s \in 0 .. numCores[c] - 2 /\ Active(c)
  BY <1>1 DEF Types, TypeOK, Active
<1>3. /\ Owns(c) /\ b \in DOMAIN memory /\ b \in Nat /\ s \in 0 .. memory[b].size - 1
      /\ \A d \in Calls : Owns(d) /\ index[d] = b => d = c
      /\ \A d \in Calls : pc[d] = "initArgs" => index[d] # b
  BY <1>2, ActiveBlock
<1>4. /\ Len(memory) \in Nat /\ DOMAIN memory = 1 .. Len(memory)
      /\ \A j \in DOMAIN memory :
           memory[j].size \in Nat /\ memory[j].available \in BOOLEAN
      /\ MemoryTyped(memory)
  BY MemoryIsTyped
<1>5. /\ MemoryTyped(memory') /\ Len(memory') = Len(memory)
      /\ DOMAIN memory' = DOMAIN memory
      /\ \A j \in DOMAIN memory :
           /\ memory'[j].size = memory[j].size
           /\ memory'[j].available = memory[j].available
           /\ \A i \in 0 .. memory[j].size - 1 :
                /\ memory'[j].args[i].coreID = memory[j].args[i].coreID
                /\ memory'[j].args[i].locked = memory[j].args[i].locked
                /\ j # b \/ i # s => memory'[j].args[i] = memory[j].args[i]
      /\ memory'[b].args[s].loop = c /\ memory'[b].args[s].numCores = numCores[c]
  <2>1. /\ numCores[c] \in Nat /\ MemoryTyped(memory) /\ b \in DOMAIN memory
        /\ s \in 0 .. memory[b].size - 1
        /\ memory' = SetTask(memory, b, s, c, numCores[c])
    BY <1>1, <1>2, <1>3, <1>4
  <2> HIDE DEF b, s, p
  <2>2. TaskWritten(memory, memory', b, s, c, numCores[c])
    BY <2>1, TaskWrite
  <2> QED BY <2>2 DEF TaskWritten
<1>6. \A d \in Calls, i \in Nat : Pending(d, i)' <=> Pending(d, i) \/ (d = c /\ i = s)
  BY <1>1, <1>2 DEF Pending, Active, Launched, Joined
<1>7. ~ Pending(c, s)
  BY <1>1 DEF Pending, Launched
<1>8. memory[b].args[s].locked
  <2>1. ~ \E d \in Calls : index[d] = b /\ Pending(d, s)
    BY <1>3, <1>7, PendingSlot
  <2> QED BY <1>3, <2>1 DEF Slots
<1>9. p \notin Pointers /\ p \in PointerType
  <2>1. p.block = b /\ p.slot = s /\ p \in PointerType
    BY <1>2, <1>3 DEF Pointer, PointerType
  <2> HIDE DEF p
  <2>2. ~ \E d \in Calls : index[d] = b /\ Pending(d, s)
    BY <1>3, <1>7, PendingSlot
  <2> QED BY <2>1, <2>2 DEF PointersArePending
<1>10. /\ queue' \in Seq(PointerType) /\ Queued(queue') = Queued(queue) \cup {p}
       /\ Distinct(queue')
  <2>1. /\ queue \in Seq(PointerType) /\ Distinct(queue) /\ p \in PointerType
        /\ p \notin Queued(queue) /\ queue' = Append(queue, p)
    BY <1>1, <1>9 DEF Types, PointersOnce, Pointers, Queued
  <2> HIDE DEF p, DispatcherInv
  <2> QED BY <2>1, Submitted
<1>11. Pointers' = Pointers \cup {p}
  <2>1. running' = running /\ Queued(queue)' = Queued(queue')
    BY <1>1 DEF Queued
  <2> HIDE DEF p, DispatcherInv
  <2>2. Queued(queue') = Queued(queue) \cup {p}
    BY <1>10
  <2>3. Pointers' = Queued(queue)' \cup {u.pointer : u \in running'}
    BY DEF Pointers, Queued
  <2>4. Pointers = Queued(queue) \cup {u.pointer : u \in running}
    BY DEF Pointers, Queued
  <2> QED BY <2>1, <2>2, <2>3, <2>4, Zenon
<1>12. Types'
  BY <1>1, <1>2, <1>4, <1>5, <1>10 DEF Types, TypeOK, MemoryTyped
<1>13. Ownership'
  <2>1. pc' = pc /\ index' = index /\ numCores' = numCores
    BY <1>1
  <2> QED BY <2>1, <1>5 DEF Ownership, BlocksNotShared, Owns
<1>14. Counters'
  BY <1>1, <1>2 DEF Counters, Active
<1>15. Slots'
  <2>1. /\ DOMAIN memory' = DOMAIN memory /\ pc' = pc /\ index' = index
        /\ \A j \in DOMAIN memory : memory'[j].size = memory[j].size
    BY <1>1, <1>5
  <2> SUFFICES ASSUME NEW j \in DOMAIN memory,
                      ~ \E d \in Calls : pc[d] = "initArgs" /\ index[d] = j,
                      NEW i \in 0 .. memory[j].size - 1
               PROVE  /\ memory'[j].args[i].coreID = i
                      /\ \/ memory'[j].args[i].locked
                         \/ \E d \in Calls : index[d] = j /\ Pending(d, i)'
    BY <2>1 DEF Slots
  <2>2. i \in Nat
    BY <1>4
  <2> QED BY <2>2, <1>5, <1>6 DEF Slots
<1>16. PendingTasks'
  <2> SUFFICES ASSUME NEW d \in Calls, NEW i \in Nat, Pending(d, i)'
               PROVE  /\ memory'[index[d]].args[i].loop = d
                      /\ memory'[index[d]].args[i].numCores = numCores[d]
                      /\ memory'[index[d]].args[i].locked <=> Pointer(d, i)' \in Pointers'
    BY <1>1 DEF PendingTasks
  <2>1. Pointer(d, i)' = Pointer(d, i)
    BY <1>1 DEF Pointer
  <2>2. CASE d = c /\ i = s
    BY <2>1, <2>2, <1>3, <1>5, <1>8, <1>11
  <2>3. CASE ~ (d = c /\ i = s)
    <3>1. /\ Pending(d, i) /\ index[d] \in DOMAIN memory
          /\ i \in 0 .. memory[index[d]].size - 1 /\ (index[d] # b \/ i # s)
      BY <2>3, <1>3, <1>6, PendingSlot
    <3>2. Pointer(d, i) # p
      BY <3>1 DEF Pointer
    <3> HIDE DEF p
    <3>3. memory'[index[d]].args[i] = memory[index[d]].args[i]
      BY <3>1, <1>5
    <3> QED BY <2>1, <3>1, <3>2, <3>3, <1>11 DEF PendingTasks
  <2> QED BY <2>2, <2>3
<1>17. PointersArePending'
  <2> SUFFICES ASSUME NEW q \in Pointers'
               PROVE  \E d \in Calls : index[d] = q.block /\ Pending(d, q.slot)'
    BY <1>1 DEF PointersArePending
  <2>1. CASE q = p
    BY <2>1, <1>2, <1>6 DEF Pointer
  <2>2. CASE q \in Pointers
    <3>1. PICK d \in Calls : index[d] = q.block /\ Pending(d, q.slot) /\ q.slot \in Nat
      BY <2>2, PendingSlot DEF PointersArePending
    <3> QED BY <3>1, <1>6
  <2> QED BY <2>1, <2>2, <1>11
<1>18. PointersOnce'
  <2>1. \A t \in running : t.pointer # p
    BY <1>9 DEF Pointers
  <2> HIDE DEF p
  <2> QED BY <2>1, <1>1, <1>10 DEF PointersOnce
<1>19. RunningTasks'
  <2> SUFFICES ASSUME NEW t \in running
               PROVE  LET x == memory'[t.pointer.block].args[t.pointer.slot]
                      IN  t.loop = x.loop /\ t.coreID = x.coreID
    BY <1>1 DEF RunningTasks
  <2>1. t.pointer \in Pointers
    BY DEF Pointers
  <2>2. PICK d \in Calls : Pending(d, t.pointer.slot) /\ index[d] = t.pointer.block
    BY <2>1 DEF PointersArePending
  <2>3. /\ t.pointer.block \in DOMAIN memory
        /\ t.pointer.slot \in 0 .. memory[t.pointer.block].size - 1
        /\ t.pointer.block # b \/ t.pointer.slot # s
    BY <2>2, <1>3, <1>7, PendingSlot
  <2>4. memory'[t.pointer.block].args[t.pointer.slot]
          = memory[t.pointer.block].args[t.pointer.slot]
    BY <2>3, <1>5
  <2> QED BY <2>4 DEF RunningTasks
<1>20. Executions'
  <2> SUFFICES ASSUME NEW d \in Calls, pc[d] # "returned", NEW k \in CoreIDs
               PROVE  ran[d][k] = Executed(d, k)'
    BY <1>1 DEF Executions
  <2>1. k \in Nat /\ ran[d][k] = Executed(d, k)
    BY TaskNumbers DEF Executions
  <2>2. CASE d = c /\ k = s
    <3>1. ~ Joined(d, k) /\ ~ Joined(d, k)' /\ memory'[index'[d]].args[k].locked
      BY <2>2, <1>1, <1>3, <1>5, <1>8 DEF Joined
    <3> QED BY <2>1, <2>2, <3>1, <1>1, <1>7 DEF Executed
  <2>3. CASE ~ (d = c /\ k = s)
    <3>1. Pending(d, k)' <=> Pending(d, k)
      BY <2>1, <2>3, <1>6
    <3>2. Joined(d, k)' <=> Joined(d, k)
      BY <1>1, <1>2 DEF Joined
    <3>3. Pending(d, k) =>
            memory'[index[d]].args[k].locked = memory[index[d]].args[k].locked
      BY <1>5, PendingSlot
    <3> QED BY <2>1, <3>1, <3>2, <3>3, <1>1 DEF Executed
  <2> QED BY <2>2, <2>3
<1> QED
  BY <1>12, <1>13, <1>14, <1>15, <1>16, <1>17, <1>18, <1>19, <1>20

\* A task that has ended is joined: its endLock is locked again, and VIRGIL has
\* no pointer to its slot any more.
LEMMA JoinTaskInv ==
  ASSUME DispatcherInv, NEW c \in Calls, JoinTask(c)
  PROVE  DispatcherInv'
<1> USE DEF DispatcherInv
<1> DEFINE b == index[c]
           s == next[c]
<1>1. /\ pc[c] = "join" /\ s < numCores[c] - 1
      /\ ~ memory[b].args[s].locked
      /\ memory' = [memory EXCEPT ![b].args[s].locked = TRUE]
      /\ next' = [next EXCEPT ![c] = @ + 1]
      /\ UNCHANGED <<idleCores, pc, numCores, index, queue, running, ran>>
  BY DEF JoinTask
<1>2. /\ numCores \in [Calls -> Nat \ {0}]
      /\ next \in [Calls -> Nat] /\ next' \in [Calls -> Nat] /\ next'[c] = s + 1
      /\ \A d \in Calls : d # c => next'[d] = next[d]
      /\ s \in 0 .. numCores[c] - 2 /\ Active(c)
  BY <1>1 DEF Types, TypeOK, Active
<1>3. /\ Owns(c) /\ b \in DOMAIN memory /\ b \in Nat /\ s \in 0 .. memory[b].size - 1
      /\ \A d \in Calls : Owns(d) /\ index[d] = b => d = c
  BY <1>2, ActiveBlock
<1>4. /\ Len(memory) \in Nat /\ DOMAIN memory = 1 .. Len(memory)
      /\ \A j \in DOMAIN memory :
           memory[j].size \in Nat /\ memory[j].available \in BOOLEAN
      /\ MemoryTyped(memory)
  BY MemoryIsTyped
<1>5. PICK locked \in BOOLEAN : locked /\ memory' = SetLock(memory, b, s, locked)
  BY <1>1 DEF SetLock
<1>6. /\ MemoryTyped(memory') /\ Len(memory') = Len(memory)
      /\ DOMAIN memory' = DOMAIN memory
      /\ \A j \in DOMAIN memory :
           /\ memory'[j].size = memory[j].size
           /\ memory'[j].available = memory[j].available
           /\ \A i \in 0 .. memory[j].size - 1 :
                /\ memory'[j].args[i].loop = memory[j].args[i].loop
                /\ memory'[j].args[i].coreID = memory[j].args[i].coreID
                /\ memory'[j].args[i].numCores = memory[j].args[i].numCores
                /\ j # b \/ i # s =>
                     memory'[j].args[i].locked = memory[j].args[i].locked
      /\ memory'[b].args[s].locked = locked
  <2>1. /\ MemoryTyped(memory) /\ b \in DOMAIN memory
        /\ s \in 0 .. memory[b].size - 1
        /\ memory' = SetLock(memory, b, s, locked)
    BY <1>3, <1>4, <1>5
  <2> HIDE DEF b, s
  <2>2. LockWritten(memory, memory', b, s, locked)
    BY <2>1, LockWrite
  <2> QED BY <2>2 DEF LockWritten
<1>7. \A d \in Calls, i \in Nat : Pending(d, i)' <=> Pending(d, i) /\ ~ (d = c /\ i = s)
  BY <1>1, <1>2 DEF Pending, Active, Launched, Joined
<1>8. Pending(c, s)
  BY <1>1, <1>2 DEF Pending, Active, Launched, Joined
<1>9. Pointers' = Pointers /\ Pointer(c, s) \notin Pointers
  <2>1. queue' = queue /\ running' = running /\ ~ memory[b].args[s].locked
    BY <1>1
  <2>2. s \in Nat
    BY <1>2
  <2> QED BY <2>1, <2>2, <1>8 DEF Pointers, PendingTasks
<1>10. Types'
  BY <1>1, <1>2, <1>4, <1>6 DEF Types, TypeOK, MemoryTyped
<1>11. Ownership'
  <2>1. pc' = pc /\ index' = index /\ numCores' = numCores
    BY <1>1
  <2> QED BY <2>1, <1>6 DEF Ownership, BlocksNotShared, Owns
<1>12. Counters'
  BY <1>1, <1>2 DEF Counters, Active
<1>13. Slots'
  <2>1. /\ DOMAIN memory' = DOMAIN memory /\ pc' = pc /\ index' = index
        /\ \A j \in DOMAIN memory : memory'[j].size = memory[j].size
    BY <1>1, <1>6, Zenon
  <2> SUFFICES ASSUME NEW j \in DOMAIN memory',
                      ~ \E d \in Calls : pc'[d] = "initArgs" /\ index'[d] = j,
                      NEW i \in 0 .. memory'[j].size - 1
               PROVE  /\ memory'[j].args[i].coreID = i
                      /\ \/ memory'[j].args[i].locked
                         \/ \E d \in Calls : index'[d] = j /\ Pending(d, i)'
    BY Zenon DEF Slots
  <2>0. /\ j \in DOMAIN memory /\ i \in 0 .. memory[j].size - 1
        /\ ~ \E d \in Calls : pc[d] = "initArgs" /\ index[d] = j
    BY <2>1, Zenon
  <2>2. i \in Nat /\ memory'[j].args[i].coreID = i
    <3>1. memory[j].args[i].coreID = i
      BY <2>0 DEF Slots
    <3>2. memory'[j].args[i].coreID = memory[j].args[i].coreID
      BY <2>0, <1>6
    <3>3. memory[j].size \in Nat
      BY <2>0, <1>4
    <3> QED BY <3>1, <3>2, <3>3, <2>0
  <2>3. CASE j = b /\ i = s
    BY <2>2, <2>3, <1>5, <1>6
  <2>4. CASE ~ (j = b /\ i = s)
    <3>1. \/ memory[j].args[i].locked
          \/ \E d \in Calls : index[d] = j /\ Pending(d, i)
      BY <2>0 DEF Slots
    <3>2. CASE memory[j].args[i].locked
      <4>1. memory'[j].args[i].locked = memory[j].args[i].locked
        BY <2>0, <2>4, <1>6, Zenon
      <4> QED BY <3>2, <4>1, <2>2
    <3>3. ASSUME NEW d \in Calls, index[d] = j, Pending(d, i)
          PROVE  Pending(d, i)'
      BY <3>3, <2>2, <2>4, <1>7
    <3> QED BY <3>1, <3>2, <3>3, <2>1, <2>2, Zenon
  <2> QED BY <2>3, <2>4
<1>14. PendingTasks'
  <2> SUFFICES ASSUME NEW d \in Calls, NEW i \in Nat, Pending(d, i)'
               PROVE  /\ memory'[index[d]].args[i].loop = d
                      /\ memory'[index[d]].args[i].numCores = numCores[d]
                      /\ memory'[index[d]].args[i].locked <=> Pointer(d, i) \in Pointers
    BY <1>1, <1>9 DEF PendingTasks, Pointer
  <2>1. /\ Pending(d, i) /\ index[d] \in DOMAIN memory
        /\ i \in 0 .. memory[index[d]].size - 1 /\ (index[d] # b \/ i # s)
    BY <1>3, <1>7, PendingSlot
  <2> QED BY <2>1, <1>6 DEF PendingTasks
<1>15. PointersArePending'
  <2> SUFFICES ASSUME NEW q \in Pointers
               PROVE  \E d \in Calls : index[d] = q.block /\ Pending(d, q.slot)'
    BY <1>1, <1>9 DEF PointersArePending
  <2>1. PICK d \in Calls : /\ index[d] = q.block /\ Pending(d, q.slot)
                           /\ q = Pointer(d, q.slot)
    BY PointerOwner
  <2>2. q.slot \in Nat /\ ~ (d = c /\ q.slot = s)
    BY <2>1, <1>9, PendingSlot
  <2> QED BY <2>1, <2>2, <1>7
<1>16. PointersOnce'
  BY <1>1 DEF PointersOnce
<1>17. RunningTasks'
  <2> SUFFICES ASSUME NEW t \in running
               PROVE  LET x == memory'[t.pointer.block].args[t.pointer.slot]
                      IN  t.loop = x.loop /\ t.coreID = x.coreID
    BY <1>1 DEF RunningTasks
  <2>1. t.pointer \in Pointers
    BY DEF Pointers
  <2>2. /\ t.pointer.block \in DOMAIN memory
        /\ t.pointer.slot \in 0 .. memory[t.pointer.block].size - 1
    BY <2>1, PendingSlot DEF PointersArePending
  <2> QED BY <2>2, <1>6 DEF RunningTasks
<1>18. Executions'
  <2> SUFFICES ASSUME NEW d \in Calls, pc[d] # "returned", NEW k \in CoreIDs
               PROVE  ran[d][k] = Executed(d, k)'
    BY <1>1 DEF Executions
  <2>1. k \in Nat /\ ran[d][k] = Executed(d, k)
    BY TaskNumbers DEF Executions
  <2>2. CASE d = c /\ k = s
    <3>1. Executed(d, k) = 1
      BY <2>2, <1>1, <1>8 DEF Executed
    <3>2. Joined(d, k)'
      BY <2>2, <1>1, <1>2 DEF Joined
    <3>3. Executed(d, k)' = 1
      BY <3>2 DEF Executed
    <3> QED BY <2>1, <3>1, <3>3
  <2>3. CASE ~ (d = c /\ k = s)
    <3>1. Pending(d, k)' <=> Pending(d, k)
      BY <2>1, <2>3, <1>7
    <3>2. Joined(d, k)' <=> Joined(d, k)
      BY <2>1, <2>3, <1>1, <1>2 DEF Joined
    <3>3. Pending(d, k) =>
            memory'[index[d]].args[k].locked = memory[index[d]].args[k].locked
      BY <2>3, <1>3, <1>6, PendingSlot
    <3> QED BY <2>1, <3>1, <3>2, <3>3, <1>1 DEF Executed
  <2> QED BY <2>2, <2>3
<1> QED
  BY <1>10, <1>11, <1>12, <1>13, <1>14, <1>15, <1>16, <1>17, <1>18

\* A worker takes a task: its pointer moves from the queue to the worker, which
\* reads the arguments its call wrote.
LEMMA StartTaskInv ==
  ASSUME DispatcherInv, StartTask
  PROVE  DispatcherInv'
<1> USE DEF DispatcherInv
<1> DEFINE p == Head(queue)
           a == memory[p.block].args[p.slot]
           t == [pointer |-> p, loop |-> a.loop, coreID |-> a.coreID,
                 numCores |-> a.numCores]
<1>1. /\ queue # <<>> /\ queue' = Tail(queue) /\ running' = running \cup {t}
      /\ UNCHANGED <<idleCores, pc, numCores, memory, index, next, ran>>
  BY DEF StartTask
<1>2. /\ queue' \in Seq(PointerType) /\ p \in PointerType /\ p \in Queued(queue)
      /\ Queued(queue') = Queued(queue) \ {p} /\ Distinct(queue')
  BY <1>1, Taken DEF Types, PointersOnce
<1>3. p \in Pointers
  BY <1>2 DEF Pointers, Queued
<1> HIDE DEF p
<1>4. a \in Args
  <2>1. p.block \in DOMAIN memory /\ p.slot \in 0 .. memory[p.block].size - 1
    BY <1>3, PendingSlot DEF PointersArePending
  <2> QED BY <2>1, MemoryIsTyped DEF MemoryTyped
<1> HIDE DEF a
<1>5. /\ t \in TaskType /\ t.pointer = p
      /\ t.loop = a.loop /\ t.coreID = a.coreID
  BY <1>2, <1>4 DEF TaskType, Args
<1> HIDE DEF t
<1>6. Pointers' = Pointers
  <2>1. Pointers = Queued(queue) \cup {u.pointer : u \in running}
    BY DEF Pointers, Queued
  <2>2. Pointers' = Queued(queue') \cup {u.pointer : u \in running'}
    BY DEF Pointers, Queued
  <2>3. {u.pointer : u \in running'} = {u.pointer : u \in running} \cup {p}
    BY <1>1, <1>5
  <2> QED BY <2>1, <2>2, <2>3, <1>2
<1>7. \A d, i : (Pending(d, i)' <=> Pending(d, i)) /\ (Pointer(d, i)' = Pointer(d, i))
  BY <1>1 DEF Pending, Active, Launched, Joined, Pointer
<1>8. Types'
  BY <1>1, <1>2, <1>5 DEF Types, TypeOK
<1>9. Ownership' /\ Counters'
  BY <1>1 DEF Ownership, BlocksNotShared, Owns, Counters, Active
<1>10. Slots'
  BY <1>1, <1>7 DEF Slots
<1>11. PendingTasks' /\ PointersArePending'
  BY <1>1, <1>6, <1>7 DEF PendingTasks, PointersArePending
<1>12. PointersOnce'
  <2>1. \A u \in running : u.pointer # p
    BY <1>2 DEF PointersOnce
  <2> QED BY <2>1, <1>1, <1>2, <1>5 DEF PointersOnce
<1>13. RunningTasks'
  BY <1>1, <1>5 DEF RunningTasks, a
<1>14. Executions'
  BY <1>1, <1>7 DEF Executions, Executed, Joined
<1> QED
  BY <1>8, <1>9, <1>10, <1>11, <1>12, <1>13, <1>14

\* A task ends: its endLock is unlocked, its execution is counted for the call
\* that launched it, and its pointer is gone.
LEMMA EndTaskInv ==
  ASSUME DispatcherInv, NEW t \in running, EndTask(t)
  PROVE  DispatcherInv'
<1> USE DEF DispatcherInv
<1> DEFINE p == t.pointer
           b == p.block
           s == p.slot
<1>1. p \in Pointers
  BY DEF Pointers
<1>2. PICK c \in Calls :
        /\ Pending(c, s) /\ index[c] = b /\ p = Pointer(c, s) /\ p \in PointerType
        /\ memory[b].args[s].loop = c /\ memory[b].args[s].locked = TRUE
  BY <1>1, PointerOwner
<1>3. /\ Owns(c) /\ b \in DOMAIN memory /\ s \in Nat /\ s \in 0 .. memory[b].size - 1
      /\ s \in 0 .. numCores[c] - 2
      /\ \A d \in Calls : Owns(d) /\ index[d] = b => d = c
      /\ memory[b].args[s].coreID = s
  BY <1>2, PendingSlot
<1>4. t.loop = c /\ t.coreID = s /\ s \in CoreIDs
  <2>1. t.loop = c /\ t.coreID = s
    BY <1>2, <1>3 DEF RunningTasks
  <2>2. s \in CoreIDs
    BY <1>2, <1>3, ActiveBlock DEF Pending
  <2> QED BY <2>1, <2>2
<1>5. /\ running' = running \ {t}
      /\ ran' = [ran EXCEPT ![c][s] = @ + 1]
      /\ UNCHANGED <<idleCores, pc, numCores, index, next, queue>>
      /\ memory' = [memory EXCEPT ![b].args[s].locked = FALSE]
  BY <1>4, Zenon DEF EndTask
<1>6. PICK locked \in BOOLEAN : ~ locked /\ memory' = SetLock(memory, b, s, locked)
  BY <1>5, Zenon DEF SetLock
<1>7. /\ Len(memory) \in Nat /\ DOMAIN memory = 1 .. Len(memory)
      /\ \A j \in DOMAIN memory :
           memory[j].size \in Nat /\ memory[j].available \in BOOLEAN
      /\ MemoryTyped(memory)
  BY MemoryIsTyped
<1>8. /\ MemoryTyped(memory') /\ Len(memory') = Len(memory)
      /\ DOMAIN memory' = DOMAIN memory
      /\ \A j \in DOMAIN memory :
           /\ memory'[j].size = memory[j].size
           /\ memory'[j].available = memory[j].available
           /\ \A i \in 0 .. memory[j].size - 1 :
                /\ memory'[j].args[i].loop = memory[j].args[i].loop
                /\ memory'[j].args[i].coreID = memory[j].args[i].coreID
                /\ memory'[j].args[i].numCores = memory[j].args[i].numCores
                /\ j # b \/ i # s =>
                     memory'[j].args[i].locked = memory[j].args[i].locked
      /\ memory'[b].args[s].locked = locked
  <2>1. /\ MemoryTyped(memory) /\ b \in DOMAIN memory
        /\ s \in 0 .. memory[b].size - 1
        /\ memory' = SetLock(memory, b, s, locked)
    BY <1>3, <1>6, <1>7
  <2> HIDE DEF b, s, p
  <2>2. LockWritten(memory, memory', b, s, locked)
    BY <2>1, LockWrite
  <2> QED BY <2>2 DEF LockWritten
<1>9. /\ ran \in [Calls -> [CoreIDs -> Nat]] /\ ran' \in [Calls -> [CoreIDs -> Nat]]
      /\ ran'[c][s] = ran[c][s] + 1
      /\ \A d \in Calls, k \in CoreIDs : d # c \/ k # s => ran'[d][k] = ran[d][k]
  <2>1. ran \in [Calls -> [CoreIDs -> Nat]] /\ s \in CoreIDs
    BY <1>4 DEF Types, TypeOK
  <2> HIDE DEF s
  <2> QED BY <2>1, <1>5
<1>10. Pointers' = Pointers \ {p}
  <2>1. Pointers = Queued(queue) \cup {u.pointer : u \in running}
    BY DEF Pointers, Queued
  <2>2. Pointers' = Queued(queue) \cup {u.pointer : u \in running'}
    BY <1>5 DEF Pointers, Queued
  <2>3. {u.pointer : u \in running'} = {u.pointer : u \in running} \ {p}
    BY <1>5 DEF PointersOnce
  <2>4. p \notin Queued(queue)
    BY DEF PointersOnce
  <2> QED BY <2>1, <2>2, <2>3, <2>4
<1>11. /\ pc' = pc /\ numCores' = numCores /\ index' = index /\ next' = next
       /\ queue' = queue /\ idleCores' = idleCores /\ running' = running \ {t}
  BY <1>5
<1>12. \A d, i : (Pending(d, i)' <=> Pending(d, i)) /\ (Pointer(d, i)' = Pointer(d, i))
  BY <1>11 DEF Pending, Active, Launched, Joined, Pointer
<1>13. Types'
  BY <1>7, <1>8, <1>9, <1>11 DEF Types, TypeOK, MemoryTyped
<1>14. Ownership'
  BY <1>8, <1>11 DEF Ownership, BlocksNotShared, Owns
<1>15. Counters'
  BY <1>11 DEF Counters, Active
<1>16. Slots'
  <2>1. /\ DOMAIN memory' = DOMAIN memory /\ pc' = pc /\ index' = index
        /\ \A j \in DOMAIN memory : memory'[j].size = memory[j].size
    BY <1>8, <1>11
  <2> SUFFICES ASSUME NEW j \in DOMAIN memory,
                      ~ \E d \in Calls : pc[d] = "initArgs" /\ index[d] = j,
                      NEW i \in 0 .. memory[j].size - 1
               PROVE  /\ memory'[j].args[i].coreID = i
                      /\ \/ memory'[j].args[i].locked
                         \/ \E d \in Calls : index[d] = j /\ Pending(d, i)
    BY <2>1, <1>12 DEF Slots
  <2>2. /\ memory[j].args[i].coreID = i
        /\ \/ memory[j].args[i].locked
           \/ \E d \in Calls : index[d] = j /\ Pending(d, i)
    BY DEF Slots
  <2>3. CASE j = b /\ i = s
    BY <2>2, <2>3, <1>2, <1>8
  <2>4. CASE ~ (j = b /\ i = s)
    BY <2>2, <2>4, <1>8
  <2> QED BY <2>3, <2>4
<1>17. PendingTasks'
  <2> SUFFICES ASSUME NEW d \in Calls, NEW i \in Nat, Pending(d, i)
               PROVE  /\ memory'[index[d]].args[i].loop = d
                      /\ memory'[index[d]].args[i].numCores = numCores[d]
                      /\ memory'[index[d]].args[i].locked <=> Pointer(d, i) \in Pointers'
    BY <1>11, <1>12 DEF PendingTasks
  <2>1. /\ index[d] \in DOMAIN memory /\ Owns(d)
        /\ i \in 0 .. memory[index[d]].size - 1
    BY PendingSlot
  <2>2. /\ memory[index[d]].args[i].loop = d
        /\ memory[index[d]].args[i].numCores = numCores[d]
        /\ memory[index[d]].args[i].locked <=> Pointer(d, i) \in Pointers
    BY Zenon DEF PendingTasks
  <2>3. CASE index[d] = b /\ i = s
    <3>1. Pointer(d, i) = p /\ Pointer(d, i) \notin Pointers'
      BY <2>3, <1>2, <1>10 DEF Pointer
    <3>2. ~ memory'[index[d]].args[i].locked
      BY <2>3, <1>6, <1>8
    <3>3. /\ memory'[index[d]].args[i].loop = memory[index[d]].args[i].loop
          /\ memory'[index[d]].args[i].numCores = memory[index[d]].args[i].numCores
      BY <2>1, <1>8
    <3> QED BY <2>2, <3>1, <3>2, <3>3
  <2>4. CASE ~ (index[d] = b /\ i = s)
    <3>1. Pointer(d, i) # p
      BY <2>4 DEF Pointer
    <3>2. memory'[index[d]].args[i].locked = memory[index[d]].args[i].locked
      BY <2>1, <2>4, <1>8
    <3> QED BY <2>1, <2>2, <3>1, <3>2, <1>8, <1>10
  <2> QED BY <2>3, <2>4
<1>18. PointersArePending'
  BY <1>10, <1>11, <1>12 DEF PointersArePending
<1>19. PointersOnce'
  BY <1>11 DEF PointersOnce
<1>20. RunningTasks'
  <2> SUFFICES ASSUME NEW u \in running
               PROVE  LET x == memory'[u.pointer.block].args[u.pointer.slot]
                      IN  u.loop = x.loop /\ u.coreID = x.coreID
    BY <1>11 DEF RunningTasks
  <2>1. u.pointer \in Pointers
    BY DEF Pointers
  <2>2. /\ u.pointer.block \in DOMAIN memory
        /\ u.pointer.slot \in 0 .. memory[u.pointer.block].size - 1
    BY <2>1, PendingSlot DEF PointersArePending
  <2> QED BY <2>2, <1>8 DEF RunningTasks
<1>21. Executions'
  <2> SUFFICES ASSUME NEW d \in Calls, pc[d] # "returned", NEW k \in CoreIDs
               PROVE  ran'[d][k] = Executed(d, k)'
    BY <1>11 DEF Executions
  <2>1. k \in Nat /\ ran[d][k] = Executed(d, k)
    BY TaskNumbers DEF Executions
  <2>2. CASE d = c /\ k = s
    <3>1. /\ numCores[c] \in Nat /\ pc[c] \in {"fork", "runOwn", "join"} /\ ~ Joined(c, s)
      BY <1>2 DEF Pending, Active, Types, TypeOK
    <3>2. Executed(c, s) = 0
      BY <3>1, <1>2, <1>3 DEF Executed
    <3>3. Executed(c, s)' = 1
      <4>1. Pending(c, s)' /\ ~ memory'[index'[c]].args[s].locked
        <5>1. Pending(c, s)' /\ index'[c] = b
          BY <1>2, <1>11, <1>12
        <5>2. ~ memory'[b].args[s].locked
          BY <1>6, <1>8
        <5> QED BY <5>1, <5>2
      <4> QED BY <4>1, Zenon DEF Executed
    <3> QED BY <2>1, <2>2, <3>2, <3>3, <1>9
  <2>3. CASE ~ (d = c /\ k = s)
    <3>1. Pending(d, k) =>
            memory'[index[d]].args[k].locked = memory[index[d]].args[k].locked
      BY <2>3, <1>3, <1>8, PendingSlot
    <3>2. Executed(d, k)' = Executed(d, k)
      BY <3>1, <1>11, <1>12 DEF Executed, Joined
    <3> QED BY <2>1, <2>3, <3>2, <1>9
  <2> QED BY <2>2, <2>3
<1> QED
  BY <1>13, <1>14, <1>15, <1>16, <1>17, <1>18, <1>19, <1>20, <1>21

LEMMA DispatcherInvNext == DispatcherInv /\ [Next]_vars => DispatcherInv'
<1> SUFFICES ASSUME DispatcherInv, [Next]_vars PROVE DispatcherInv'
  OBVIOUS
<1>1. CASE UNCHANGED vars
  <2>1. UNCHANGED <<idleCores, pc, numCores, memory, index, next, queue, running, ran>>
    BY <1>1 DEF vars
  <2>2. \A d \in Calls, i \in Nat : Pending(d, i)' <=> Pending(d, i)
    BY <2>1 DEF Pending, Active, Launched, Joined
  <2>3. Slots' /\ PendingTasks' /\ PointersArePending' /\ PointersOnce' /\ RunningTasks'
    BY <2>1, <2>2, SameTasks
  <2>4. Types' /\ Ownership' /\ Counters'
    BY <2>1 DEF DispatcherInv, Types, TypeOK, Ownership, BlocksNotShared, Owns,
                Counters, Active
  <2>5. Executions'
    BY <2>1, SameExecutions DEF Executions
  <2> QED BY <2>3, <2>4, <2>5 DEF DispatcherInv
<1>2. ASSUME NEW c \in Calls, Dispatcher(c) PROVE DispatcherInv'
  BY <1>2, ChooseVersionInv, ReserveCoresInv, GetDOALLArgsInv, InitializeArgsInv,
     SubmitTaskInv, StartOwnTaskInv, EndOwnTaskInv, JoinTaskInv, JoinedAllInv,
     ReleaseCoresInv, ReleaseDOALLArgsInv DEF Dispatcher
<1>3. CASE StartTask
  BY <1>3, StartTaskInv
<1>4. ASSUME NEW t \in running, EndTask(t) PROVE DispatcherInv'
  BY <1>4, EndTaskInv
<1> QED
  BY <1>1, <1>2, <1>3, <1>4 DEF Next, Terminated

LEMMA DispatcherInvHolds == Spec => []DispatcherInv
BY DispatcherInvInit, DispatcherInvNext, PTL DEF Spec

-----------------------------------------------------------------------------

\* The variables of the dispatchers, the blocks and VIRGIL keep their types: in
\* particular the identifier of every task and the index of every block are in
\* range.
THEOREM DispatcherTypes == Spec => []TypeOK
<1>1. DispatcherInv => TypeOK
  BY DEF DispatcherInv, Types
<1> QED
  BY <1>1, DispatcherInvHolds, PTL

\* A block of arguments is used by one call at a time and is large enough for
\* it, whatever the order in which getDOALLArgs and releaseDOALLArgs run.
THEOREM BlocksAreNotShared == Spec => []BlocksNotShared
<1>1. DispatcherInv => BlocksNotShared
  BY DEF DispatcherInv, Ownership
<1> QED
  BY <1>1, DispatcherInvHolds, PTL

\* However late VIRGIL starts a task, the trampoline reads the arguments of the
\* call that submitted it, although the block is recycled between calls.
THEOREM ArgumentsAreNotStale == Spec => []NoStaleArgs
<1>1. DispatcherInv => NoStaleArgs
  <2> SUFFICES ASSUME DispatcherInv, NEW p \in Pointers
               PROVE  \E c \in Calls :
                 /\ pc[c] \in {"fork", "runOwn", "join"} /\ index[c] = p.block
                 /\ p.slot < numCores[c] - 1
                 /\ memory[p.block].args[p.slot] =
                      [loop |-> c, coreID |-> p.slot, numCores |-> numCores[c],
                       locked |-> TRUE]
                 /\ \A t \in running : t.pointer = p => t.loop = c /\ t.coreID = p.slot
    BY DEF NoStaleArgs
  <2> DEFINE a == memory[p.block].args[p.slot]
  <2>1. PICK c \in Calls :
          /\ Pending(c, p.slot) /\ index[c] = p.block
          /\ a.loop = c /\ a.numCores = numCores[c] /\ a.locked = TRUE
    BY PointerOwner
  <2>2. /\ p.block \in DOMAIN memory /\ p.slot \in 0 .. memory[p.block].size - 1
        /\ p.slot \in 0 .. numCores[c] - 2 /\ a.coreID = p.slot
    BY <2>1, PendingSlot
  <2>3. a \in Args
    BY <2>2, MemoryIsTyped DEF MemoryTyped, DispatcherInv
  <2>4. \A t \in running : t.pointer = p => t.loop = c /\ t.coreID = p.slot
    BY <2>1, <2>2 DEF DispatcherInv, RunningTasks
  <2> HIDE DEF a
  <2>5. a = [loop |-> c, coreID |-> p.slot, numCores |-> numCores[c], locked |-> TRUE]
    BY <2>1, <2>2, <2>3 DEF Args
  <2>6. numCores[c] \in Nat
    BY DEF DispatcherInv, Types, TypeOK
  <2>7. pc[c] \in {"fork", "runOwn", "join"} /\ p.slot < numCores[c] - 1
    BY <2>1, <2>2, <2>6 DEF Pending, Active
  <2>8. index[c] = p.block
    BY <2>1
  <2> QED
    BY <2>4, <2>5, <2>7, <2>8, Zenon DEF a
<1> QED
  BY <1>1, DispatcherInvHolds, PTL

\* When the dispatcher gives back its cores, every one of its numCores tasks has
\* been executed once, and no other: the endLocks of a recycled block never let
\* a join pass that belongs to an earlier call.
THEOREM JoinIsExact == Spec => []JoinedMeansExecutedOnce
<1>1. DispatcherInv => JoinedMeansExecutedOnce
  BY DEF DispatcherInv, JoinedMeansExecutedOnce, Executions, Executed, Joined,
         Pending, Active
<1> QED
  BY <1>1, DispatcherInvHolds, PTL

-----------------------------------------------------------------------------
(* The dispatchers implement the core accounting of NoelleRuntime.         *)

\* What the refinement mapping makes of a call.
HeldCores(c) == IF pc[c] \in Holding THEN numCores[c] ELSE 0
Phase(c) == CASE pc[c] \in Holding -> "reserved"
              [] pc[c] = "releaseArgs" -> "returned"
              [] OTHER -> pc[c]

LEMMA CoresInit == Init => Cores!InitCores
BY DEF Init, Cores!InitCores, Holding

\* Every step is a step of the accounting, or leaves it as it is.
LEMMA CoresNext == TypeOK /\ [Next]_vars => [Cores!Next]_(Cores!coreVars)
<1> SUFFICES ASSUME TypeOK, [Next]_vars PROVE [Cores!Next]_(Cores!coreVars)
  OBVIOUS
<1> DEFINE reserved == [c \in Calls |-> HeldCores(c)]
           phase == [c \in Calls |-> Phase(c)]
<1>1. ASSUME idleCores' = idleCores,
             \A d \in Calls : HeldCores(d)' = HeldCores(d) /\ Phase(d)' = Phase(d)
      PROVE  UNCHANGED Cores!coreVars
  BY <1>1 DEF Cores!coreVars, HeldCores, Phase
<1>2. ASSUME NEW c \in Calls, NEW label \in Labels, pc' = [pc EXCEPT ![c] = label],
             \A d \in Calls : d # c => numCores'[d] = numCores[d]
      PROVE  /\ pc'[c] = label
             /\ phase' = [phase EXCEPT ![c] = Phase(c)']
             /\ reserved' = [reserved EXCEPT ![c] = HeldCores(c)']
  <2>1. /\ pc'[c] = label /\ \A d \in Calls : d # c => pc'[d] = pc[d]
    BY <1>2 DEF TypeOK
  <2>2. \A d \in Calls : d # c => Phase(d)' = Phase(d) /\ HeldCores(d)' = HeldCores(d)
    BY <1>2, <2>1 DEF Phase, HeldCores
  <2> QED BY <2>1, <2>2
<1>3. ASSUME NEW c \in Calls, ChooseVersion(c) PROVE Cores!ChooseVersion(c)
  <2> DEFINE label == IF Cores!AvailableCores >= MinIdleCores THEN "parallel" ELSE "sequential"
  <2>1. /\ pc[c] = "outside" /\ pc' = [pc EXCEPT ![c] = label]
        /\ UNCHANGED <<idleCores, numCores>>
    BY <1>3 DEF ChooseVersion, Goto
  <2>2. label \in {"parallel", "sequential"} /\ label \in Labels
    BY DEF Labels
  <2> HIDE DEF label
  <2>3. /\ pc'[c] = label /\ phase' = [phase EXCEPT ![c] = Phase(c)']
        /\ reserved' = [reserved EXCEPT ![c] = HeldCores(c)']
    BY <1>2, <2>1, <2>2
  <2>4. /\ Phase(c) = "outside" /\ Phase(c)' = label
        /\ HeldCores(c) = 0 /\ HeldCores(c)' = 0
    BY <2>1, <2>2, <2>3 DEF Phase, HeldCores, Holding
  <2>5. /\ phase[c] = "outside" /\ phase' = [phase EXCEPT ![c] = label]
        /\ UNCHANGED <<idleCores, reserved>>
    BY <2>1, <2>3, <2>4
  <2> QED
    BY <2>5 DEF Cores!ChooseVersion, Phase, HeldCores, label
<1>4. ASSUME NEW c \in Calls, RunSequential(c) PROVE Cores!RunSequential(c)
  <2>1. /\ pc[c] = "sequential" /\ pc' = [pc EXCEPT ![c] = "returned"]
        /\ UNCHANGED <<idleCores, numCores>>
    BY <1>4 DEF RunSequential, Goto
  <2>2. /\ pc'[c] = "returned" /\ phase' = [phase EXCEPT ![c] = Phase(c)']
        /\ reserved' = [reserved EXCEPT ![c] = HeldCores(c)']
    BY <1>2, <2>1 DEF Labels
  <2>3. /\ Phase(c) = "sequential" /\ Phase(c)' = "returned"
        /\ HeldCores(c) = 0 /\ HeldCores(c)' = 0
    BY <2>1, <2>2 DEF Phase, HeldCores, Holding
  <2>4. /\ phase[c] = "sequential" /\ phase' = [phase EXCEPT ![c] = "returned"]
        /\ UNCHANGED <<idleCores, reserved>>
    BY <2>1, <2>2, <2>3
  <2> QED
    BY <2>4 DEF Cores!RunSequential, Phase, HeldCores
<1>5. ASSUME NEW c \in Calls, ReserveCores(c) PROVE Cores!ReserveCores(c)
  <2> DEFINE request == maxNumberOfCores[c]
             n == Cores!Granted(request)
  <2>1. /\ pc[c] = "parallel" /\ pc' = [pc EXCEPT ![c] = "getArgs"]
        /\ numCores' = [numCores EXCEPT ![c] = n]
        /\ idleCores' = idleCores - numCores'[c]
    BY <1>5 DEF ReserveCores, Goto
  <2> HIDE DEF n
  <2>2. /\ numCores'[c] = n /\ \A d \in Calls : d # c => numCores'[d] = numCores[d]
    BY <2>1 DEF TypeOK
  <2>3. /\ pc'[c] = "getArgs" /\ phase' = [phase EXCEPT ![c] = Phase(c)']
        /\ reserved' = [reserved EXCEPT ![c] = HeldCores(c)']
    BY <1>2, <2>1, <2>2 DEF Labels, Holding
  <2>4. Phase(c) = "parallel" /\ Phase(c)' = "reserved" /\ HeldCores(c)' = n
    BY <2>1, <2>2, <2>3 DEF Phase, HeldCores, Holding
  <2>5. /\ phase[c] = "parallel" /\ phase' = [phase EXCEPT ![c] = "reserved"]
        /\ idleCores' = idleCores - n /\ reserved' = [reserved EXCEPT ![c] = n]
    BY <2>1, <2>2, <2>3, <2>4
  <2> QED
    BY <2>5 DEF Cores!ReserveCores, Phase, HeldCores, n
<1>6. ASSUME NEW c \in Calls, ReleaseCores(c)
      PROVE  phase[c] = "reserved" /\ Cores!ReleaseCores(c, "returned")
  <2>1. /\ pc[c] = "releaseCores" /\ pc' = [pc EXCEPT ![c] = "releaseArgs"]
        /\ UNCHANGED numCores /\ idleCores' = idleCores + numCores[c]
    BY <1>6 DEF ReleaseCores, Goto
  <2>2. /\ pc'[c] = "releaseArgs" /\ phase' = [phase EXCEPT ![c] = Phase(c)']
        /\ reserved' = [reserved EXCEPT ![c] = HeldCores(c)']
    BY <1>2, <2>1 DEF Labels
  <2>3. /\ Phase(c) = "reserved" /\ Phase(c)' = "returned"
        /\ HeldCores(c) = numCores[c] /\ HeldCores(c)' = 0
    BY <2>1, <2>2 DEF Phase, HeldCores, Holding
  <2>4. /\ phase[c] = "reserved" /\ phase' = [phase EXCEPT ![c] = "returned"]
        /\ idleCores' = idleCores + reserved[c]
        /\ reserved' = [reserved EXCEPT ![c] = 0]
    BY <2>1, <2>2, <2>3
  <2> QED
    BY <2>4 DEF Cores!ReleaseCores, Phase, HeldCores
<1>7. ASSUME NEW c \in Calls, UNCHANGED <<idleCores, numCores>>,
             NEW label \in Labels, pc' = [pc EXCEPT ![c] = label],
             \/ {pc[c], label} \subseteq Holding
             \/ pc[c] = "releaseArgs" /\ label = "returned"
      PROVE  UNCHANGED Cores!coreVars
  <2>1. /\ pc'[c] = label /\ \A d \in Calls : d # c => pc'[d] = pc[d]
    BY <1>7 DEF TypeOK
  <2>2. \A d \in Calls : d # c => HeldCores(d)' = HeldCores(d) /\ Phase(d)' = Phase(d)
    BY <1>7, <2>1 DEF HeldCores, Phase
  <2>3. HeldCores(c)' = HeldCores(c) /\ Phase(c)' = Phase(c)
    BY <1>7, <2>1 DEF HeldCores, Phase, Holding
  <2> QED BY <1>1, <1>7, <2>2, <2>3
<1>8. ASSUME NEW c \in Calls,
             \/ GetDOALLArgs(c) \/ InitializeArgs(c) \/ StartOwnTask(c)
             \/ EndOwnTask(c) \/ JoinedAll(c) \/ ReleaseDOALLArgs(c)
      PROVE  UNCHANGED Cores!coreVars
  <2>1. UNCHANGED <<idleCores, numCores>>
    BY <1>8 DEF GetDOALLArgs, InitializeArgs, StartOwnTask, EndOwnTask, JoinedAll,
                ReleaseDOALLArgs
  <2>2. PICK label \in {"initArgs", "fork", "runOwn", "join", "releaseCores", "returned"} :
          /\ pc' = [pc EXCEPT ![c] = label]
          /\ \/ pc[c] \in Holding /\ label \in Holding
             \/ pc[c] = "releaseArgs" /\ label = "returned"
    BY <1>8 DEF GetDOALLArgs, InitializeArgs, StartOwnTask, EndOwnTask, JoinedAll,
                ReleaseDOALLArgs, Goto, Holding
  <2>3. label \in Labels
    BY DEF Labels, Holding
  <2> QED BY <1>7, <2>1, <2>2, <2>3
<1>9. ASSUME UNCHANGED <<idleCores, numCores, pc>> PROVE UNCHANGED Cores!coreVars
  BY <1>1, <1>9 DEF HeldCores, Phase
<1> DEFINE CoreStep == [Cores!Next]_(Cores!coreVars)
<1>10. (Cores!Next => CoreStep) /\ (UNCHANGED Cores!coreVars => CoreStep)
  OBVIOUS
<1> HIDE DEF CoreStep
<1>11. ASSUME NEW c \in Calls, Dispatcher(c) PROVE CoreStep
  <2>1. CASE SubmitTask(c) \/ JoinTask(c)
    <3>1. UNCHANGED <<idleCores, numCores, pc>>
      BY <2>1 DEF SubmitTask, JoinTask
    <3> QED BY <3>1, <1>9, <1>10
  <2>2. CASE ReleaseCores(c)
    <3>1. Phase(c) = "reserved" /\ Cores!ReleaseCores(c, "returned")
      BY <1>6, <2>2 DEF Phase
    <3>2. Cores!Next
      BY <3>1, Zenon DEF Cores!Next, Phase
    <3> QED BY <3>2, <1>10
  <2>3. CASE \/ GetDOALLArgs(c) \/ InitializeArgs(c) \/ StartOwnTask(c)
             \/ EndOwnTask(c) \/ JoinedAll(c) \/ ReleaseDOALLArgs(c)
    BY <1>8, <1>10, <2>3
  <2>4. CASE ChooseVersion(c) \/ RunSequential(c) \/ ReserveCores(c)
    <3>1. Cores!ChooseVersion(c) \/ Cores!RunSequential(c) \/ Cores!ReserveCores(c)
      BY <1>3, <1>4, <1>5, <2>4
    <3>2. Cores!Next
      BY <3>1, Zenon DEF Cores!Next
    <3> QED BY <3>2, <1>10
  <2> QED
    BY <1>11, <2>1, <2>2, <2>3, <2>4, Zenon DEF Dispatcher
<1>12. ASSUME UNCHANGED vars \/ StartTask \/ (\E t \in running : EndTask(t)) \/ Terminated
       PROVE  CoreStep
  <2>1. UNCHANGED <<idleCores, numCores, pc>>
    BY <1>12, Zenon DEF vars, StartTask, EndTask, Terminated
  <2>2. UNCHANGED Cores!coreVars
    BY <2>1, <1>9
  <2> QED BY <2>2, <1>10
<1>13. CoreStep
  BY <1>11, <1>12, Zenon DEF Next
<1> QED
  BY <1>13 DEF CoreStep

\* Seen through their reservations, the dispatchers behave as NoelleRuntime says:
\* each reserves its cores before it touches the blocks, releases them once,
\* after its last join, and nothing else moves a core.
THEOREM DispatchersAccountForCores == Spec => ImplementsCoreAccounting
<1>1. Spec => []TypeOK
  BY DispatcherTypes
<1>2. Spec => Cores!Spec
  BY <1>1, CoresInit, CoresNext, PTL DEF Spec, Cores!Spec
<1> QED
  BY <1>2 DEF ImplementsCoreAccounting
=============================================================================
