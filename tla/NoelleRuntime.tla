---------------------------- MODULE NoelleRuntime ----------------------------
(***************************************************************************)
(* The core accounting of Gino's runtime (class NoelleRuntime in           *)
(* src/src/core/runtime/Parallelizer_utils.cpp).                           *)
(*                                                                         *)
(* A call is one dynamic execution of a parallelized loop.  The code the   *)
(* linker puts in front of it reads the number of available cores without  *)
(* a lock and takes the sequential version of the loop when they are too   *)
(* few; the parallel version reserves cores, runs, and releases them.      *)
(* Both critical sections on spinLock are one action each: spinLock guards *)
(* every write of NOELLE_idleCores and nothing else.                       *)
(***************************************************************************)
EXTENDS Integers, FiniteSets

CONSTANTS
  Calls,        \* dynamic executions of parallelized loops
  maxCores,     \* cores of the machine the runtime may use (NOELLE_CORES)
  Requests,     \* values of the maxNumberOfCores argument
  MinIdleCores, \* what getMinimumNumberOfIdleCores of the technique returns
  UIntModulus   \* number of values of uint32_t (2^32 in the code)

ASSUME RuntimeAssumption ==
  /\ IsFiniteSet(Calls)
  /\ maxCores \in Nat \ {0}
  /\ Requests \subseteq Nat \ {0}
  /\ MinIdleCores \in Nat
  /\ UIntModulus \in Nat \ {0}

VARIABLES
  idleCores, \* NOELLE_idleCores, an int32_t: it may become negative
  phase,     \* where each call is
  reserved   \* cores the call holds (numCores in the dispatcher's frame)

coreVars == <<idleCores, phase, reserved>>

-----------------------------------------------------------------------------

\* The usual arithmetic conversion of an int32_t operand to uint32_t.
ToUInt(n) == n % UIntModulus

\* getAvailableCores: the value the linker's guard compares with MinIdleCores.
AvailableCores == IF idleCores < 1 THEN 1 ELSE idleCores

\* Mutant: one core is kept back for the caller, and no core is the minimum.
Granted_KeepsOneBack(coresRequested) ==
  IF idleCores >= coresRequested THEN coresRequested ELSE idleCores - 1

\* The result of reserveCores.  NOELLE_idleCores is signed and coresRequested
\* is unsigned, so the comparison is made between unsigned values.
Granted(coresRequested) ==
  LET numCores == IF ToUInt(idleCores) >= coresRequested
                  THEN coresRequested
                  ELSE ToUInt(idleCores)
  IN  IF numCores < 1 THEN 1 ELSE numCores

InitCores ==
  /\ idleCores = maxCores
  /\ phase = [c \in Calls |-> "outside"]
  /\ reserved = [c \in Calls |-> 0]

\* The guard of the linked loop takes the parallel or the sequential version.
ChooseVersion(c) ==
  /\ phase[c] = "outside"
  /\ phase' = [phase EXCEPT ![c] = IF AvailableCores >= MinIdleCores
                                   THEN "parallel"
                                   ELSE "sequential"]
  /\ UNCHANGED <<idleCores, reserved>>

\* The sequential version of the loop runs and returns.
RunSequential(c) ==
  /\ phase[c] = "sequential"
  /\ phase' = [phase EXCEPT ![c] = "returned"]
  /\ UNCHANGED <<idleCores, reserved>>

ReserveCores(c) ==
  /\ phase[c] = "parallel"
  /\ \E coresRequested \in Requests :
       LET numCores == Granted(coresRequested) IN
       /\ idleCores' = idleCores - numCores
       /\ reserved' = [reserved EXCEPT ![c] = numCores]
  /\ phase' = [phase EXCEPT ![c] = "reserved"]

\* Mutant: the cores of a returned loop are not given back.
ReleaseCores_KeepsTheCores(c, next) ==
  /\ idleCores' = idleCores
  /\ reserved' = [reserved EXCEPT ![c] = 0]
  /\ phase' = [phase EXCEPT ![c] = next]

\* releaseCores, once the call has joined its tasks; the call goes on to next.
ReleaseCores(c, next) ==
  /\ idleCores' = idleCores + reserved[c]
  /\ reserved' = [reserved EXCEPT ![c] = 0]
  /\ phase' = [phase EXCEPT ![c] = next]

\* A call that has returned can be made again: a program executes its loops
\* any number of times.
CallAgain(c) ==
  /\ phase[c] = "returned"
  /\ phase' = [phase EXCEPT ![c] = "outside"]
  /\ UNCHANGED <<idleCores, reserved>>

Next ==
  \E c \in Calls :
    \/ ChooseVersion(c)
    \/ RunSequential(c)
    \/ ReserveCores(c)
    \/ phase[c] = "reserved" /\ ReleaseCores(c, "returned")
    \/ CallAgain(c)

Spec == InitCores /\ [][Next]_coreVars

-----------------------------------------------------------------------------

\* Every variable has the type of its C++ counterpart; the int32_t holds a
\* mathematical integer because it cannot leave its range before 2^31 cores
\* are reserved.
TypeOK ==
  /\ idleCores \in Int
  /\ phase \in [Calls -> {"outside", "parallel", "sequential", "reserved",
                          "returned"}]
  /\ reserved \in [Calls -> Nat]

\* The cores that are reserved, as pairs of a call and a number.
ReservedCores == UNION {{c} \X (1 .. reserved[c]) : c \in Calls}

\* No core is lost or invented by concurrent reserveCores and releaseCores:
\* idle and reserved cores always add up to maxCores, so that the runtime is
\* back to maxCores idle cores whenever no loop runs, whatever the races
\* between the guard's unlocked read and the reservations did.
CoresConserved == idleCores + Cardinality(ReservedCores) = maxCores

\* "Reserve the number of cores available": a reservation is never granted
\* more than the cores available when it is made (one core at least).
GrantWithinAvailable ==
  [][\A c \in Calls :
       phase[c] = "parallel" /\ phase'[c] = "reserved"
         => reserved'[c] <= AvailableCores]_coreVars

=====
