----------------------------- MODULE HELIXProofs -----------------------------
(***************************************************************************)
(* Proofs about HELIX for every number of cores, of sequential segments and*)
(* of iterations: its types, the inductive invariant of the loops that an  *)
(* induction variable governs, the one of the loops with a preamble, the   *)
(* theorems about both when the segments keep the iteration order, and the *)
(* refinement of SequentialSegments.                                       *)
(***************************************************************************)
EXTENDS HELIX, FiniteSetTheorems, TLAPS

\* The state of a task's segments at each place of its code.  It says that the
\* waits and signals of an iteration come in pairs, and that the header tells
\* the last iteration and those past it from the others.
TaskInv(c) ==
  /\ pc[c] \notin {"checkExit", "failedCheck", "exiting"}
  /\ pc[c] \in {"notStarted", "header"} => \A s \in Segments : ss[c][s] = "todo"
  /\ pc[c] = "waiting" => at[c] \in Segments /\ ss[c][at[c]] = "todo"
  /\ pc[c] = "leaving" => \A s \in Segments : ss[c][s] # "done"
  /\ pc[c] = "lastSignals" =>
       \A s \in Segments : ss[c][s] = IF s < at[c] THEN "done" ELSE "in"
  /\ pc[c] = "finished" => \A s \in Segments : ss[c][s] = "done"
  /\ pc[c] \in {"body", "waiting"} => ~ IsLastIteration(c) /\ ~ IsPastLastIteration(c)
  /\ pc[c] \in {"leaving", "lastSignals", "finished"} =>
       IsLastIteration(c) \/ IsPastLastIteration(c)

\* The number of times core c has signalled segment s.
Signalled(c, s) == round[c] + (IF ss[c][s] = "done" THEN 1 ELSE 0)

\* There is one baton per segment.  Core g has it: the cores before g have
\* signalled r + 1 times and the others r times.  The baton is the unlocked
\* lock of g until g is inside the segment.
Baton(s, g, r) ==
  \A c \in Cores :
    /\ Signalled(c, s) = IF c < g THEN r + 1 ELSE r
    /\ ss[c][s] = "in" => c = g
    /\ unlocked[c][s] <=> c = g /\ ss[c][s] # "in"

OneBaton == \A s \in Segments : \E g \in Cores, r \in Nat : Baton(s, g, r)

\* Nobody but the dispatcher starts the task of the last core.
OwnTaskInv == dpc = "fork" => pc[numCores - 1] = "notStarted"

\* The inductive invariant.
ChainInv ==
  /\ TypeOK /\ ~ HasPreamble /\ OwnTaskInv
  /\ \A c \in Cores : TaskInv(c)
  /\ OneBaton

LEMMA CoresType == Cores \subseteq Nat /\ 0 \in Cores /\ numCores - 1 \in Cores
BY HELIXAssumption DEF HELIXAssumption, Cores

\* Task c waits on array c and signals the next one, around the ring.
LEMMA Ring ==
  ASSUME LIO, NEW c \in Cores
  PROVE  /\ 0 .. numOfSSArrays - 1 = Cores
         /\ ssArrayPast(c) = c
         /\ ssArrayFuture(c) = IF c = numCores - 1 THEN 0 ELSE c + 1
         /\ ssArrayFuture(c) \in Cores
<1>1. numOfSSArrays = numCores /\ numCores \in Nat \ {0} /\ c \in Nat /\ c < numCores
  BY HELIXAssumption DEF HELIXAssumption, numOfSSArrays, Cores
<1>2. c % numCores = c
  BY <1>1
<1>3. c # numCores - 1 => (c + 1) % numCores = c + 1
  BY <1>1
<1>4. numCores % numCores = 0
  BY <1>1
<1> QED
  BY <1>1, <1>2, <1>3, <1>4 DEF ssArrayPast, ssArrayFuture, Cores

-----------------------------------------------------------------------------
(* What each kind of step does to the batons.                              *)

\* A step that touches no segment.
LEMMA BatonKept ==
  ASSUME OneBaton, UNCHANGED <<round, ss, unlocked>>
  PROVE  OneBaton'
BY DEF OneBaton, Baton, Signalled

\* HELIX_wait: core c takes its lock, so it is the one that has the baton.
LEMMA BatonTaken ==
  ASSUME LIO, TypeOK, OneBaton, NEW c \in Cores, NEW s \in Segments,
         ss[c][s] = "todo", Wait(c, s), ss' = [ss EXCEPT ![c][s] = "in"],
         round' = round
  PROVE  OneBaton'
<1>1. /\ unlocked[c][s]
      /\ unlocked' = [unlocked EXCEPT ![c][s] = FALSE]
  BY Ring DEF Wait
<1>2. unlocked \in [Cores -> [Segments -> BOOLEAN]]
  BY Ring, CoresType DEF TypeOK
<1>3. ASSUME NEW t \in Segments, NEW g \in Cores, NEW r \in Nat, Baton(t, g, r)
      PROVE  Baton(t, g, r)'
  BY <1>1, <1>2, <1>3 DEF TypeOK, Baton, Signalled
<1> QED
  BY <1>3 DEF OneBaton

\* HELIX_signal at the end of a segment: core c passes the baton on.
LEMMA BatonPassed ==
  ASSUME LIO, TypeOK, OneBaton, NEW c \in Cores, NEW s \in Segments,
         ss[c][s] = "in", Signal(c, s), ss' = [ss EXCEPT ![c][s] = "done"],
         round' = round
  PROVE  OneBaton'
<1> DEFINE f == ssArrayFuture(c)
<1>1. /\ f \in Cores
      /\ f = IF c = numCores - 1 THEN 0 ELSE c + 1
      /\ unlocked' = [unlocked EXCEPT ![f][s] = TRUE]
  BY Ring DEF Signal
<1>2. unlocked \in [Cores -> [Segments -> BOOLEAN]]
  BY Ring, CoresType DEF TypeOK
<1>3. ASSUME NEW t \in Segments, t # s, NEW g \in Cores, NEW r \in Nat, Baton(t, g, r)
      PROVE  Baton(t, g, r)'
  BY <1>1, <1>2, <1>3 DEF TypeOK, Baton, Signalled
<1>4. ASSUME NEW g \in Cores, NEW r \in Nat, Baton(s, g, r)
      PROVE  \E h \in Cores, q \in Nat : Baton(s, h, q)'
  <2>1. c = g /\ round[c] = r
    BY <1>4, CoresType DEF TypeOK, Baton, Signalled
  <2> DEFINE q == IF c = numCores - 1 THEN r + 1 ELSE r
  <2>2. Baton(s, f, q)'
    <3> SUFFICES ASSUME NEW d \in Cores
                 PROVE  /\ Signalled(d, s)' = IF d < f THEN q + 1 ELSE q
                        /\ ss'[d][s] = "in" => d = f
                        /\ unlocked'[d][s] <=> d = f /\ ss'[d][s] # "in"
      BY DEF Baton
    <3>1. /\ Signalled(d, s) = IF d < c THEN r + 1 ELSE r
          /\ ss[d][s] = "in" => d = c
          /\ unlocked[d][s] <=> d = c /\ ss[d][s] # "in"
      BY <1>4, <2>1 DEF Baton
    <3>2. ss'[d][s] = IF d = c THEN "done" ELSE ss[d][s]
      BY DEF TypeOK
    <3>3. unlocked'[d][s] = IF d = f THEN TRUE ELSE unlocked[d][s]
      BY <1>1, <1>2
    <3>4. Signalled(d, s)' = IF d = c THEN r + 1 ELSE Signalled(d, s)
      BY <2>1, <3>2 DEF TypeOK, Signalled
    <3>5. d \in Nat /\ d <= numCores - 1 /\ c \in Nat /\ c <= numCores - 1 /\ numCores \in Nat
      BY HELIXAssumption DEF HELIXAssumption, Cores
    <3>6. Signalled(d, s)' = IF d < f THEN q + 1 ELSE q
      BY <1>1, <3>1, <3>4, <3>5
    <3>7. ss'[d][s] # "in"
      BY <3>1, <3>2
    <3>8. unlocked'[d][s] <=> d = f
      BY <2>1, <3>1, <3>3
    <3> QED
      BY <3>6, <3>7, <3>8
  <2>3. q \in Nat
    OBVIOUS
  <2> QED
    BY <1>1, <2>2, <2>3
<1> QED
  BY <1>3, <1>4 DEF OneBaton

\* The next iteration of core c: what was signalled is now counted in round.
LEMMA BatonNextIteration ==
  ASSUME TypeOK, OneBaton, NEW c \in Cores, \A s \in Segments : ss[c][s] = "done",
         round' = [round EXCEPT ![c] = @ + 1], ss' = [ss EXCEPT ![c] = NotWaited],
         unlocked' = unlocked
  PROVE  OneBaton'
<1>1. ASSUME NEW t \in Segments, NEW g \in Cores, NEW r \in Nat, Baton(t, g, r)
      PROVE  Baton(t, g, r)'
  BY <1>1 DEF TypeOK, Baton, Signalled, NotWaited
<1> QED
  BY <1>1 DEF OneBaton

-----------------------------------------------------------------------------

LEMMA InitTypeOK == Init => TypeOK
<1> SUFFICES ASSUME Init PROVE TypeOK
  OBVIOUS
<1>1. unlocked \in [0 .. numOfSSArrays - 1 -> [Segments -> BOOLEAN]]
  BY DEF Init, InitiallyUnlocked
<1>2. ss \in [Cores -> [Segments -> {"todo", "in", "done"}]]
  BY DEF Init, NotWaited
<1>3. 0 \in 0 .. numSS /\ 0 \in 0 .. numCores - 1 /\ tripCount \in Nat
  BY HELIXAssumption DEF HELIXAssumption, Init
<1> QED
  BY <1>1, <1>2, <1>3 DEF Init, TypeOK

LEMMA InitChainInv == LIO /\ Init /\ ~ HasPreamble => ChainInv
<1> SUFFICES ASSUME LIO, Init, ~ HasPreamble PROVE ChainInv
  OBVIOUS
<1>1. TypeOK
  BY InitTypeOK
<1>2. \A c \in Cores : TaskInv(c)
  BY DEF Init, TaskInv, NotWaited
<1>3. ASSUME NEW s \in Segments PROVE Baton(s, 0, 0)
  <2>1. \A c \in Cores : unlocked[c][s] <=> c = 0
    BY <1>3, Ring DEF Init, InitiallyUnlocked
  <2>2. \A c \in Cores : ss[c][s] = "todo" /\ round[c] = 0
    BY <1>3 DEF Init, NotWaited
  <2> QED
    BY <2>1, <2>2, CoresType DEF Baton, Signalled
<1>4. OneBaton
  BY <1>3, CoresType DEF OneBaton
<1>5. OwnTaskInv
  BY CoresType DEF Init, OwnTaskInv
<1> QED
  BY <1>1, <1>2, <1>4, <1>5 DEF ChainInv

\* The type of the locks is kept by wait and signal.
LEMMA LockTypes ==
  ASSUME TypeOK, NEW i, NEW s, NEW b \in BOOLEAN,
         unlocked' = [unlocked EXCEPT ![i][s] = b]
  PROVE  unlocked' \in [0 .. numOfSSArrays - 1 -> [Segments -> BOOLEAN]]
BY DEF TypeOK

LEMMA NextTypeOK == TypeOK /\ [Next]_vars => TypeOK'
<1> SUFFICES ASSUME TypeOK, [Next]_vars PROVE TypeOK'
  OBVIOUS
<1> USE HELIXAssumption DEF HELIXAssumption, loopVars
<1>1. CASE UNCHANGED vars
  BY <1>1 DEF vars, loopVars, TypeOK
<1>2. CASE Dispatcher
  <2>1. CASE SubmitTask
    BY <2>1 DEF SubmitTask, loopVars, taskVars, TypeOK
  <2>2. CASE RunOwnTask
    BY <2>2 DEF RunOwnTask, loopVars, TypeOK
  <2>3. CASE Join
    BY <2>3 DEF Join, loopVars, taskVars, TypeOK
  <2>4. CASE Free
    BY <2>4 DEF Free, loopVars, taskVars, TypeOK
  <2> QED
    BY <1>2, <2>1, <2>2, <2>3, <2>4 DEF Dispatcher
<1>3. CASE Terminated
  BY <1>3 DEF Terminated, vars, loopVars, TypeOK
<1>4. ASSUME NEW c \in Cores, Task(c) PROVE TypeOK'
  <2>1. CASE StartTask(c)
    BY <2>1 DEF StartTask, TypeOK
  <2>2. CASE Header(c)
    BY <2>2 DEF Header, TypeOK
  <2>3. CASE PreambleWait(c)
    BY <2>3, LockTypes DEF PreambleWait, Wait, HasPreamble, TypeOK
  <2>4. CASE ExitFlagCheck(c)
    BY <2>4 DEF ExitFlagCheck, TypeOK
  <2>5. ASSUME NEW s \in Segments, ReachEntry(c, s) PROVE TypeOK'
    BY <2>5 DEF ReachEntry, TypeOK, Segments
  <2>6. ASSUME NEW s \in Segments, LeaveSS(c, s) PROVE TypeOK'
    BY <2>6, LockTypes DEF LeaveSS, Signal, TypeOK
  <2>7. ASSUME NEW s \in Segments, LastWait(c, s) PROVE TypeOK'
    BY <2>7, LockTypes DEF LastWait, Wait, TypeOK
  <2>8. CASE EnterSS(c)
    BY <2>8, LockTypes DEF EnterSS, Wait, TypeOK
  <2>9. CASE NextIteration(c)
    BY <2>9 DEF NextIteration, NotWaited, TypeOK
  <2>10. CASE ExitLoop(c)
    BY <2>10 DEF ExitLoop, TypeOK
  <2>11. CASE ExitSignal(c)
    BY <2>11, LockTypes DEF ExitSignal, Signal, TypeOK
  <2>12. CASE StoreLiveOuts(c)
    BY <2>12 DEF StoreLiveOuts, TypeOK
  <2>13. CASE LastSignal(c)
    <3>1. at' \in [Cores -> 0 .. numSS]
      BY <2>13 DEF LastSignal, TypeOK
    <3>2. ss' \in [Cores -> [Segments -> {"todo", "in", "done"}]]
      BY <2>13 DEF LastSignal, TypeOK
    <3>3. unlocked' \in [0 .. numOfSSArrays - 1 -> [Segments -> BOOLEAN]]
      BY <2>13, LockTypes DEF LastSignal, Signal
    <3> QED
      BY <2>13, <3>1, <3>2, <3>3 DEF LastSignal, TypeOK
  <2>14. CASE EndTask(c)
    BY <2>14 DEF EndTask, TypeOK
  <2> QED
    BY <1>4, <2>1, <2>2, <2>3, <2>4, <2>5, <2>6, <2>7, <2>8, <2>9, <2>10, <2>11,
       <2>12, <2>13, <2>14 DEF Task
<1> QED
  BY <1>1, <1>2, <1>3, <1>4 DEF Next

\* The iterations of the loop and its preamble are what they are.
LEMMA LoopKept ==
  ASSUME [Next]_vars
  PROVE  /\ UNCHANGED loopVars /\ LastRound' = LastRound /\ LastCore' = LastCore
         /\ HasPreamble' <=> HasPreamble
<1>1. UNCHANGED loopVars
  BY DEF Next, vars, Dispatcher, SubmitTask, RunOwnTask, Join, Free, Terminated, Task,
     StartTask, Header, PreambleWait, ExitFlagCheck, ReachEntry, LeaveSS, LastWait,
     EnterSS, NextIteration, ExitLoop, ExitSignal, StoreLiveOuts, LastSignal, EndTask
<1> QED
  BY <1>1 DEF loopVars, LastRound, LastCore, HasPreamble

\* The last iteration is one of some core.
LEMMA LastTypes ==
  ASSUME TypeOK
  PROVE  LastRound \in Nat /\ LastCore \in Cores
<1>1. tripCount \in Nat /\ numCores \in Nat \ {0}
  BY HELIXAssumption DEF HELIXAssumption, TypeOK
<1>2. tripCount \div numCores \in Nat
  BY <1>1
<1>3. tripCount % numCores \in 0 .. numCores - 1
  BY <1>1
<1> QED
  BY <1>2, <1>3 DEF LastRound, LastCore, Cores

\* A step of one task does not touch the others.
LEMMA TaskAlone ==
  ASSUME TypeOK, NEW c \in Cores, Task(c)
  PROVE  /\ UNCHANGED <<dpc, submitted>>
         /\ \A d \in Cores \ {c} :
              /\ pc'[d] = pc[d] /\ ss'[d] = ss[d] /\ at'[d] = at[d]
              /\ round'[d] = round[d]
BY DEF Task, StartTask, Header, PreambleWait, ExitFlagCheck, ReachEntry,
   LeaveSS, LastWait, EnterSS, NextIteration, ExitLoop, ExitSignal, StoreLiveOuts,
   LastSignal, EndTask, TypeOK

LEMMA OtherTasks ==
  ASSUME NEW c \in Cores, TypeOK, \A d \in Cores : TaskInv(d), Task(c),
         TaskInv(c)', LastRound' = LastRound, LastCore' = LastCore
  PROVE  \A d \in Cores : TaskInv(d)'
<1>1. \A d \in Cores \ {c} :
        /\ pc'[d] = pc[d] /\ ss'[d] = ss[d] /\ at'[d] = at[d]
        /\ round'[d] = round[d]
  BY TaskAlone
<1> QED
  BY <1>1 DEF TaskInv, IsLastIteration, IsPastLastIteration

LEMMA NextOwnTaskInv ==
  ASSUME TypeOK, OwnTaskInv, [Next]_vars
  PROVE  OwnTaskInv'
<1>1. CASE UNCHANGED vars
  BY <1>1 DEF vars, loopVars, OwnTaskInv
<1>2. CASE Terminated
  BY <1>2 DEF Terminated, vars, loopVars, OwnTaskInv
<1>3. CASE Dispatcher
  BY <1>3 DEF Dispatcher, SubmitTask, RunOwnTask, Join, Free, taskVars, OwnTaskInv
<1>4. ASSUME NEW c \in Cores, Task(c) PROVE OwnTaskInv'
  <2>1. CASE StartTask(c)
    <3>1. c # numCores - 1
      BY <2>1, HELIXAssumption DEF StartTask, TypeOK, HELIXAssumption, Cores
    <3> QED
      BY <2>1, <3>1 DEF StartTask, OwnTaskInv, TypeOK
  <2>2. CASE pc[c] # "notStarted"
    <3>1. dpc' = dpc /\ \A d \in Cores \ {c} : pc'[d] = pc[d]
      BY <1>4 DEF Task, StartTask, Header, PreambleWait, ExitFlagCheck, ReachEntry,
         LeaveSS, LastWait, EnterSS, NextIteration, ExitLoop, ExitSignal, StoreLiveOuts,
         LastSignal, EndTask, TypeOK
    <3> QED
      BY <2>2, <3>1, CoresType DEF OwnTaskInv
  <2>3. StartTask(c) \/ pc[c] # "notStarted"
    BY <1>4 DEF Task, Header, PreambleWait, ExitFlagCheck, ReachEntry,
       LeaveSS, LastWait, EnterSS, NextIteration, ExitLoop, ExitSignal, StoreLiveOuts,
       LastSignal, EndTask
  <2> QED
    BY <2>1, <2>2, <2>3
<1> QED
  BY <1>1, <1>2, <1>3, <1>4 DEF Next

LEMMA NextChainInv == LIO /\ ChainInv /\ [Next]_vars => ChainInv'
<1> SUFFICES ASSUME LIO, ChainInv, [Next]_vars PROVE ChainInv'
  OBVIOUS
<1> DEFINE Tasks == \A d \in Cores : TaskInv(d)
<1>1. TypeOK /\ TypeOK' /\ OwnTaskInv /\ OwnTaskInv' /\ Tasks /\ OneBaton
  BY NextTypeOK, NextOwnTaskInv DEF ChainInv
<1>0. /\ ~ HasPreamble /\ ~ HasPreamble'
      /\ LastRound' = LastRound /\ LastCore' = LastCore
  BY LoopKept DEF ChainInv
<1>9. ASSUME round' = round
      PROVE  \A c \in Cores : /\ IsLastIteration(c)' <=> IsLastIteration(c)
                              /\ IsPastLastIteration(c)' <=> IsPastLastIteration(c)
  BY <1>0, <1>9 DEF IsLastIteration, IsPastLastIteration
<1> SUFFICES Tasks' /\ OneBaton'
  BY <1>1, <1>0 DEF ChainInv
<1>2. CASE UNCHANGED vars
  <2>1. Tasks'
    BY <1>1, <1>2, <1>9 DEF vars, loopVars, TaskInv
  <2> QED
    BY <1>1, <1>2, <2>1, BatonKept DEF vars, loopVars
<1>3. CASE Terminated
  <2>1. Tasks'
    BY <1>1, <1>3, <1>9 DEF Terminated, vars, loopVars, TaskInv
  <2> QED
    BY <1>1, <1>3, <2>1, BatonKept DEF Terminated, vars, loopVars
<1>4. CASE Dispatcher
  <2>1. OneBaton'
    BY <1>1, <1>4, BatonKept DEF Dispatcher, SubmitTask, RunOwnTask, Join, Free, taskVars
  <2>2. CASE SubmitTask \/ Join \/ Free
    BY <1>1, <1>9, <2>1, <2>2 DEF SubmitTask, Join, Free, taskVars, TaskInv
  <2>3. CASE RunOwnTask
    <3>1. pc[numCores - 1] = "notStarted"
      BY <1>1, <2>3 DEF RunOwnTask, OwnTaskInv
    <3> QED
      BY <1>1, <1>9, <2>1, <2>3, <3>1, CoresType DEF RunOwnTask, TypeOK, TaskInv
  <2> QED
    BY <1>4, <2>2, <2>3 DEF Dispatcher
<1>5. ASSUME NEW c \in Cores, Task(c) PROVE Tasks' /\ OneBaton'
  <2> SUFFICES TaskInv(c)' /\ OneBaton'
    BY <1>1, <1>5, <1>0, OtherTasks
  <2> USE DEF TaskInv
  <2>1. CASE StartTask(c)
    BY <1>1, <1>9, <2>1, BatonKept DEF StartTask, TypeOK
  <2>2. CASE Header(c)
    BY <1>1, <1>9, <2>2, BatonKept DEF Header, TypeOK
  <2>3. CASE PreambleWait(c) \/ ExitFlagCheck(c) \/ ExitLoop(c) \/ ExitSignal(c)
    BY <1>1, <1>0, <2>3 DEF PreambleWait, ExitFlagCheck, ExitLoop, ExitSignal
  <2>4. ASSUME NEW s \in Segments, ReachEntry(c, s) PROVE TaskInv(c)' /\ OneBaton'
    BY <1>1, <1>9, <2>4, BatonKept DEF ReachEntry, TypeOK
  <2>5. ASSUME NEW s \in Segments, LeaveSS(c, s) PROVE TaskInv(c)' /\ OneBaton'
    <3>1. OneBaton'
      BY <1>1, <2>5, BatonPassed DEF LeaveSS
    <3> QED
      BY <1>1, <1>9, <2>5, <3>1 DEF LeaveSS, TypeOK
  <2>6. ASSUME NEW s \in Segments, LastWait(c, s) PROVE TaskInv(c)' /\ OneBaton'
    <3>1. OneBaton'
      BY <1>1, <2>6, BatonTaken DEF LastWait
    <3> QED
      BY <1>1, <1>9, <2>6, <3>1 DEF LastWait, TypeOK
  <2>7. CASE EnterSS(c)
    <3>1. OneBaton'
      BY <1>1, <2>7, BatonTaken DEF EnterSS
    <3> QED
      BY <1>1, <1>9, <2>7, <3>1 DEF EnterSS, TypeOK
  <2>8. CASE NextIteration(c)
    <3>1. OneBaton'
      BY <1>1, <2>8, BatonNextIteration DEF NextIteration
    <3> QED
      BY <1>1, <2>8, <3>1 DEF NextIteration, NotWaited, TypeOK
  <2>9. CASE StoreLiveOuts(c)
    <3>1. OneBaton'
      BY <1>1, <2>9, BatonKept DEF StoreLiveOuts
    <3>2. \A s \in Segments : ss[c][s] = "in"
      BY <1>1, <2>9 DEF StoreLiveOuts, TypeOK
    <3> QED
      BY <1>1, <1>9, <2>9, <3>1, <3>2 DEF StoreLiveOuts, TypeOK, Segments
  <2>10. CASE LastSignal(c)
    <3>1. pc[c] = "lastSignals" /\ at[c] \in Segments /\ ss[c][at[c]] = "in"
      BY <1>1, <2>10, HELIXAssumption
      DEF LastSignal, TypeOK, HELIXAssumption, Segments
    <3>2. OneBaton'
      BY <1>1, <2>10, <3>1, BatonPassed DEF LastSignal
    <3> QED
      BY <1>1, <1>9, <2>10, <3>1, <3>2, HELIXAssumption
      DEF LastSignal, TypeOK, HELIXAssumption, Segments
  <2>11. CASE EndTask(c)
    BY <1>1, <1>9, <2>11, BatonKept, HELIXAssumption
    DEF EndTask, TypeOK, HELIXAssumption, Segments
  <2> QED
    BY <1>5, <2>1, <2>2, <2>3, <2>4, <2>5, <2>6, <2>7, <2>8, <2>9, <2>10, <2>11 DEF Task
<1> QED
  BY <1>2, <1>3, <1>4, <1>5 DEF Next

\* From the baton to the order of the iterations.
LEMMA ChainInvImpliesOrder == ChainInv => SegmentOrder
<1> SUFFICES ASSUME ChainInv, NEW s \in Segments, NEW c \in Cores, NEW d \in Cores,
                    Inside(c, s), c # d
             PROVE  /\ Earlier(d, c) => ss[d][s] = "done"
                    /\ Earlier(c, d) => ss[d][s] = "todo"
  BY DEF SegmentOrder
<1>1. PICK g \in Cores, r \in Nat : Baton(s, g, r)
  BY DEF ChainInv, OneBaton
<1>2. /\ round[c] \in Nat /\ round[d] \in Nat /\ c \in Nat /\ d \in Nat
      /\ ss[d][s] \in {"todo", "in", "done"}
  BY CoresType DEF ChainInv, TypeOK
<1>3. ss[c][s] = "in" /\ c = g /\ round[c] = r /\ ss[d][s] # "in"
  BY <1>1, <1>2 DEF Inside, Baton, Signalled
<1>4. Signalled(d, s) = IF d < c THEN r + 1 ELSE r
  BY <1>1, <1>3 DEF Baton
<1> QED
  BY <1>2, <1>3, <1>4 DEF Signalled, Earlier

\* Two cores' iterations are ordered, and the ones after the last are past it.
LEMMA IterationsOrdered ==
  ASSUME TypeOK, NEW c \in Cores, NEW d \in Cores
  PROVE  /\ c # d => Earlier(c, d) \/ Earlier(d, c)
         /\ IsLastIteration(c) /\ Earlier(c, d) => IsPastLastIteration(d)
         /\ IsLastIteration(c) /\ Earlier(d, c) =>
              ~ IsLastIteration(d) /\ ~ IsPastLastIteration(d)
         /\ ~ IsPastLastIteration(c) /\ Earlier(d, c) => ~ IsPastLastIteration(d)
<1>1. /\ round[c] \in Nat /\ round[d] \in Nat /\ c \in Nat /\ d \in Nat
      /\ LastRound \in Nat /\ LastCore \in Nat
  BY CoresType, LastTypes DEF TypeOK
<1> QED
  BY <1>1 DEF Earlier, IsLastIteration, IsPastLastIteration

LEMMA ChainInvImpliesNotPast == ChainInv => NoIterationPastTheLast
BY DEF ChainInv, TaskInv, NoIterationPastTheLast

\* From the baton to the live-out values: when the last iteration has been
\* through every segment, so has every iteration before it.
LEMMA ChainInvImpliesFinal == numSS # 0 /\ ChainInv => LiveOutsAreFinal
<1> SUFFICES ASSUME numSS # 0, ChainInv, NEW c \in Cores, pc[c] = "lastSignals",
                    IsLastIteration(c), NEW d \in Cores, d # c
             PROVE  \/ /\ Earlier(d, c) /\ pc[d] = "body"
                       /\ \A s \in Segments : ss[d][s] = "done"
                    \/ Earlier(c, d) /\ pc[d] \notin {"body", "waiting"}
  BY DEF LiveOutsAreFinal
<1>1. TypeOK /\ TaskInv(c) /\ TaskInv(d) /\ 0 \in Segments
  BY HELIXAssumption DEF HELIXAssumption, ChainInv, Segments
<1>2. CASE Earlier(c, d)
  BY <1>1, <1>2, IterationsOrdered DEF TaskInv
<1>3. CASE Earlier(d, c)
  <2>1. ASSUME NEW s \in Segments PROVE ss[d][s] = "done"
    <3>1. PICK g \in Cores, r \in Nat : Baton(s, g, r)
      BY DEF ChainInv, OneBaton
    <3>2. /\ round[c] \in Nat /\ round[d] \in Nat /\ c \in Nat /\ d \in Nat /\ g \in Nat
          /\ ss[d][s] \in {"todo", "in", "done"}
      BY <1>1, CoresType DEF TypeOK
    <3>3. ss[c][s] \in {"in", "done"}
      BY <1>1 DEF TaskInv
    <3>4. /\ Signalled(c, s) = IF c < g THEN r + 1 ELSE r
          /\ Signalled(d, s) = IF d < g THEN r + 1 ELSE r
          /\ ss[c][s] = "in" => c = g
      BY <3>1 DEF Baton
    <3> QED
      BY <1>3, <3>2, <3>3, <3>4 DEF Signalled, Earlier
  <2>2. pc[d] \in {"body", "waiting"}
    <3>1. ~ IsLastIteration(d) /\ ~ IsPastLastIteration(d)
      BY <1>1, <1>3, IterationsOrdered
    <3> QED BY <1>1, <2>1, <3>1 DEF TaskInv, TypeOK
  <2> QED
    BY <1>1, <1>3, <2>1, <2>2 DEF TaskInv
<1> QED
  BY <1>1, <1>2, <1>3, IterationsOrdered

-----------------------------------------------------------------------------

\* The state of the tasks and of the runtime stays within its types.
THEOREM TypeCorrect == Spec => []TypeOK
BY InitTypeOK, NextTypeOK, PTL DEF Spec
-----------------------------------------------------------------------------
(* The loops whose exit is decided in a sequential segment, the preamble.  *)
(* In these loops a lock may be unlocked twice.  A core that finds the loop*)
(* over signals every segment without having waited for it, and the core of*)
(* the last iteration signals every segment again.  The invariant says why *)
(* no iteration of the loop ever waits on a lock that such a signal        *)
(* unlocked out of turn.                                                   *)

\* The number of iterations of core c up to the last one.
Total(c) == IF c <= LastCore THEN LastRound + 1 ELSE LastRound

\* The number of times core c has signalled segment s, the signals of a core
\* that is past the last iteration not counted.
Passed(c, s) == IF IsPastLastIteration(c) THEN Total(c) ELSE Signalled(c, s)

\* A lock of core c is unlocked because it is c's turn, or because its
\* predecessor is done with the loop: c then does not wait for s any more.  The
\* preamble, which every core waits for, is unlocked in this way only once the
\* flag is set.
LockInv(c, s, g) ==
  unlocked[c][s] =>
    \/ ~ IsPastLastIteration(c) /\ c = g /\ ss[c][s] # "in"
    \/ /\ \/ IsPastLastIteration(c)
          \/ round[c] = Total(c) - 1 /\ ss[c][s] # "todo"
       /\ s = preambleSS => loopIsOverFlag

\* There is one baton per segment among the iterations up to the last one.
LoopBaton(s, g, r) ==
  \A c \in Cores :
    /\ Passed(c, s) = IF c < g THEN r + 1 ELSE r
    /\ ~ IsPastLastIteration(c) /\ ss[c][s] = "in" => c = g
    /\ LockInv(c, s, g)

LoopBatons == \A s \in Segments : \E g \in Cores, r \in Nat : LoopBaton(s, g, r)

\* The state of a task's segments at each place of its code.
SegmentStates(c) ==
  /\ pc[c] \in {"notStarted", "header"} => \A s \in Segments : ss[c][s] = "todo"
  /\ pc[c] = "checkExit" =>
       \A s \in Segments : ss[c][s] = IF s = preambleSS THEN "in" ELSE "todo"
  /\ pc[c] \in {"body", "waiting"} =>
       /\ ss[c][preambleSS] # "todo"
       /\ IsLastIteration(c) => ss[c][preambleSS] = "in"
  /\ pc[c] = "waiting" => at[c] \in Segments /\ ss[c][at[c]] = "todo"
  /\ pc[c] = "exiting" => ss[c][preambleSS] = "in"
  /\ pc[c] = "leaving" => ss[c][preambleSS] = "done"
  /\ pc[c] = "lastSignals" =>
       \A s \in Segments : /\ ss[c][s] # "todo"
                           /\ s < at[c] \/ s = preambleSS => ss[c][s] = "done"
  /\ pc[c] = "finished" /\ IsLastIteration(c) => \A s \in Segments : ss[c][s] = "done"

\* Which iteration a task can be at, and what it knows of the flag.
ExitStates(c) ==
  /\ pc[c] \in {"exiting", "leaving", "lastSignals"} =>
       IsLastIteration(c) /\ loopIsOverFlag
  /\ pc[c] = "failedCheck" => IsPastLastIteration(c) /\ loopIsOverFlag
  /\ pc[c] = "finished" =>
       (IsLastIteration(c) \/ IsPastLastIteration(c)) /\ loopIsOverFlag
  /\ IsPastLastIteration(c) =>
       /\ c # LastCore
       /\ pc[c] \in {"notStarted", "header", "checkExit", "failedCheck", "finished"}
       /\ pc[c] = "checkExit" => loopIsOverFlag

\* The flag is set by the core of the last iteration, which leaves the loop.
FlagInv ==
  loopIsOverFlag =>
    /\ IsLastIteration(LastCore)
    /\ pc[LastCore] \in {"exiting", "leaving", "lastSignals", "finished"}

\* The inductive invariant.
PreambleInv ==
  /\ TypeOK /\ HasPreamble /\ OwnTaskInv
  /\ \A c \in Cores : SegmentStates(c) /\ ExitStates(c)
  /\ FlagInv
  /\ LoopBatons

\* A step leaves the loop as it is.
SameLoop == LastRound' = LastRound /\ LastCore' = LastCore /\ preambleSS' = preambleSS

\* A step writes one segment's state, and one lock.
StateSet(c, s, v) == ss' = [ss EXCEPT ![c][s] = v]
LockSet(i, s, b) == unlocked' = [unlocked EXCEPT ![i][s] = b]

-----------------------------------------------------------------------------
(* The iterations of a core.                                               *)

LEMMA CoreFacts ==
  ASSUME TypeOK, NEW c \in Cores
  PROVE  /\ c \in Nat /\ c <= numCores - 1 /\ numCores \in Nat \ {0}
         /\ LastRound \in Nat /\ LastCore \in Nat /\ LastCore <= numCores - 1
         /\ Total(c) \in Nat /\ round[c] \in Nat
         /\ Total(c) = IF c <= LastCore THEN LastRound + 1 ELSE LastRound
         /\ IsPastLastIteration(c) <=> round[c] >= Total(c)
         /\ IsLastIteration(c) <=> c = LastCore /\ round[c] = Total(c) - 1
<1>1. c \in Nat /\ c <= numCores - 1 /\ numCores \in Nat \ {0}
  BY HELIXAssumption DEF HELIXAssumption, Cores
<1>2. LastRound \in Nat /\ LastCore \in Nat /\ LastCore <= numCores - 1
  BY <1>1, LastTypes DEF Cores
<1>3. round[c] \in Nat
  BY DEF TypeOK
<1> QED
  BY <1>1, <1>2, <1>3 DEF Total, IsPastLastIteration, IsLastIteration

LEMMA CoreKept ==
  ASSUME SameLoop, NEW c \in Cores, round'[c] = round[c]
  PROVE  /\ Total(c)' = Total(c)
         /\ IsPastLastIteration(c)' <=> IsPastLastIteration(c)
         /\ IsLastIteration(c)' <=> IsLastIteration(c)
BY DEF SameLoop, Total, IsPastLastIteration, IsLastIteration

\* What a segment's baton says of two cores.
LEMMA BatonFacts ==
  ASSUME TypeOK, NEW s \in Segments, NEW g \in Cores, NEW r \in Nat,
         LoopBaton(s, g, r), NEW c \in Cores
  PROVE  /\ Passed(c, s) \in Nat /\ g \in Nat
         /\ Passed(c, s) = IF c < g THEN r + 1 ELSE r
         /\ IsPastLastIteration(c) => Passed(c, s) = Total(c)
         /\ ~ IsPastLastIteration(c) =>
              /\ ss[c][s] = "done" => Passed(c, s) = round[c] + 1
              /\ ss[c][s] # "done" => Passed(c, s) = round[c]
              /\ ss[c][s] = "in" => c = g
         /\ LockInv(c, s, g)
         /\ ss[c][s] \in {"todo", "in", "done"}
<1>1. c \in Nat /\ g \in Nat /\ round[c] \in Nat /\ ss[c][s] \in {"todo", "in", "done"}
  BY CoresType DEF TypeOK
<1>2. /\ Passed(c, s) = IF c < g THEN r + 1 ELSE r
      /\ ~ IsPastLastIteration(c) /\ ss[c][s] = "in" => c = g
      /\ LockInv(c, s, g)
  BY DEF LoopBaton
<1> QED
  BY <1>1, <1>2 DEF Passed, Signalled

-----------------------------------------------------------------------------
(* What each kind of step does to the batons.                              *)

\* A step that touches no segment; the flag may be set.
LEMMA LoopBatonsKept ==
  ASSUME LoopBatons, SameLoop, UNCHANGED <<round, ss, unlocked>>,
         loopIsOverFlag => loopIsOverFlag'
  PROVE  LoopBatons'
<1>1. ASSUME NEW s \in Segments, NEW g \in Cores, NEW r \in Nat, LoopBaton(s, g, r)
      PROVE  LoopBaton(s, g, r)'
  <2> SUFFICES ASSUME NEW c \in Cores
               PROVE  /\ Passed(c, s)' = IF c < g THEN r + 1 ELSE r
                      /\ ~ IsPastLastIteration(c)' /\ ss'[c][s] = "in" => c = g
                      /\ LockInv(c, s, g)'
    BY DEF LoopBaton
  <2>1. /\ Passed(c, s) = IF c < g THEN r + 1 ELSE r
        /\ ~ IsPastLastIteration(c) /\ ss[c][s] = "in" => c = g
        /\ LockInv(c, s, g)
    BY <1>1 DEF LoopBaton
  <2>2. /\ Total(c)' = Total(c)
        /\ IsPastLastIteration(c)' <=> IsPastLastIteration(c)
    BY CoreKept
  <2>3. Passed(c, s)' = Passed(c, s)
    BY <2>2 DEF Passed, Signalled
  <2>4. LockInv(c, s, g)'
    BY <2>1, <2>2 DEF LockInv, SameLoop
  <2> QED BY <2>1, <2>2, <2>3, <2>4
<1> QED
  BY <1>1 DEF LoopBatons

\* A wait or signal on segment s leaves the other segments alone.
LEMMA OtherSegments ==
  ASSUME LIO, TypeOK, SameLoop, UNCHANGED <<round, loopIsOverFlag>>,
         NEW c \in Cores, NEW s \in Segments, NEW v, NEW i \in Cores, NEW b \in BOOLEAN,
         StateSet(c, s, v), LockSet(i, s, b),
         NEW t \in Segments, t # s, NEW g \in Cores, NEW r \in Nat, LoopBaton(t, g, r)
  PROVE  LoopBaton(t, g, r)'
<1> SUFFICES ASSUME NEW d \in Cores
             PROVE  /\ Passed(d, t)' = IF d < g THEN r + 1 ELSE r
                    /\ ~ IsPastLastIteration(d)' /\ ss'[d][t] = "in" => d = g
                    /\ LockInv(d, t, g)'
  BY DEF LoopBaton
<1>1. /\ Passed(d, t) = IF d < g THEN r + 1 ELSE r
      /\ ~ IsPastLastIteration(d) /\ ss[d][t] = "in" => d = g
      /\ LockInv(d, t, g)
  BY DEF LoopBaton
<1>2. /\ Total(d)' = Total(d) /\ round'[d] = round[d]
      /\ IsPastLastIteration(d)' <=> IsPastLastIteration(d)
  BY CoreKept
<1>3. ss'[d][t] = ss[d][t] /\ unlocked'[d][t] = unlocked[d][t]
  BY Ring DEF TypeOK, StateSet, LockSet
<1>4. Passed(d, t)' = Passed(d, t)
  BY <1>2, <1>3 DEF Passed, Signalled
<1>5. LockInv(d, t, g)'
  BY <1>1, <1>2, <1>3 DEF LockInv, SameLoop
<1> QED BY <1>1, <1>2, <1>3, <1>4, <1>5

\* What core d sees of such a wait or signal of core c.
SegmentStep(c, s, v, i, b, d) ==
  /\ Total(d)' = Total(d) /\ round'[d] = round[d]
  /\ IsPastLastIteration(d)' <=> IsPastLastIteration(d)
  /\ IsLastIteration(d)' <=> IsLastIteration(d)
  /\ ss'[d][s] = IF d = c THEN v ELSE ss[d][s]
  /\ unlocked'[d][s] = IF d = i THEN b ELSE unlocked[d][s]
  /\ Passed(d, s)' = IF IsPastLastIteration(d) THEN Total(d)
                     ELSE round[d] + (IF ss'[d][s] = "done" THEN 1 ELSE 0)

\* The baton of segment s, core by core, after a wait or a signal on s.
LEMMA SegmentBaton ==
  ASSUME LIO, TypeOK, SameLoop, UNCHANGED <<round, loopIsOverFlag>>,
         NEW c \in Cores, NEW s \in Segments, NEW v, NEW i \in Cores, NEW b \in BOOLEAN,
         StateSet(c, s, v), LockSet(i, s, b),
         NEW d \in Cores
  PROVE  SegmentStep(c, s, v, i, b, d)
<1>1. /\ Total(d)' = Total(d) /\ round'[d] = round[d]
      /\ IsPastLastIteration(d)' <=> IsPastLastIteration(d)
      /\ IsLastIteration(d)' <=> IsLastIteration(d)
  BY CoreKept
<1>2. /\ ss'[d][s] = IF d = c THEN v ELSE ss[d][s]
      /\ unlocked'[d][s] = IF d = i THEN b ELSE unlocked[d][s]
  BY Ring DEF TypeOK, StateSet, LockSet
<1>3. Passed(d, s)' = IF IsPastLastIteration(d) THEN Total(d)
                      ELSE round[d] + (IF ss'[d][s] = "done" THEN 1 ELSE 0)
  BY <1>1 DEF Passed, Signalled
<1> QED BY <1>1, <1>2, <1>3 DEF SegmentStep

\* HELIX_wait: a core of the loop takes its lock when it is its turn.
LEMMA LoopBatonTaken ==
  ASSUME LIO, TypeOK, LoopBatons, SameLoop, UNCHANGED <<round, loopIsOverFlag>>,
         NEW c \in Cores, NEW s \in Segments,
         ss[c][s] = "todo", Wait(c, s), ss' = [ss EXCEPT ![c][s] = "in"]
  PROVE  LoopBatons'
<1>1. StateSet(c, s, "in") /\ \E b \in BOOLEAN : ~ b /\ LockSet(c, s, b)
  BY Ring DEF Wait, StateSet, LockSet
<1> PICK b \in BOOLEAN : ~ b /\ LockSet(c, s, b)
  BY <1>1
<1>2. unlocked[c][s]
  BY Ring DEF Wait
<1>3. ASSUME NEW g \in Cores, NEW r \in Nat, LoopBaton(s, g, r) PROVE LoopBaton(s, g, r)'
  <2>1. ~ IsPastLastIteration(c) => c = g
    BY <1>2, <1>3, BatonFacts DEF LockInv
  <2> SUFFICES ASSUME NEW d \in Cores
               PROVE  /\ Passed(d, s)' = IF d < g THEN r + 1 ELSE r
                      /\ ~ IsPastLastIteration(d)' /\ ss'[d][s] = "in" => d = g
                      /\ LockInv(d, s, g)'
    BY DEF LoopBaton
  <2>2. /\ Total(d)' = Total(d) /\ round'[d] = round[d]
        /\ IsPastLastIteration(d)' <=> IsPastLastIteration(d)
        /\ ss'[d][s] = IF d = c THEN "in" ELSE ss[d][s]
        /\ unlocked'[d][s] = IF d = c THEN b ELSE unlocked[d][s]
        /\ Passed(d, s)' = IF IsPastLastIteration(d) THEN Total(d)
                           ELSE round[d] + (IF ss'[d][s] = "done" THEN 1 ELSE 0)
    <3>1. SegmentStep(c, s, "in", c, b, d)
      BY <1>1, SegmentBaton
    <3> QED BY <3>1 DEF SegmentStep
  <2>3. /\ Passed(d, s) = IF d < g THEN r + 1 ELSE r
        /\ ~ IsPastLastIteration(d) /\ ss[d][s] = "in" => d = g
        /\ LockInv(d, s, g)
    BY <1>3 DEF LoopBaton
  <2>4. Passed(d, s)' = Passed(d, s)
    BY <2>2 DEF Passed, Signalled
  <2>5. LockInv(d, s, g)'
    BY <1>1, <2>2, <2>3 DEF LockInv, SameLoop
  <2> QED BY <2>1, <2>2, <2>3, <2>4, <2>5
<1>4. ASSUME NEW t \in Segments, t # s, NEW g \in Cores, NEW r \in Nat, LoopBaton(t, g, r)
      PROVE  LoopBaton(t, g, r)'
  BY <1>1, <1>4, OtherSegments
<1> QED
  BY <1>3, <1>4 DEF LoopBatons

\* HELIX_signal at the end of a segment: core c passes the baton on.  The core
\* that leaves the loop sets the flag before it signals the preamble.
LEMMA LoopBatonPassed ==
  ASSUME LIO, TypeOK, LoopBatons, SameLoop, UNCHANGED <<round, loopIsOverFlag>>,
         NEW c \in Cores, NEW s \in Segments, ~ IsPastLastIteration(c),
         s = preambleSS /\ IsLastIteration(c) => loopIsOverFlag,
         ss[c][s] = "in", Signal(c, s), ss' = [ss EXCEPT ![c][s] = "done"]
  PROVE  LoopBatons'
<1> DEFINE f == ssArrayFuture(c)
<1>1. f \in Cores /\ f = IF c = numCores - 1 THEN 0 ELSE c + 1
  BY Ring
<1> HIDE DEF f
<1>2. StateSet(c, s, "done") /\ \E b \in BOOLEAN : b /\ LockSet(f, s, b)
  BY DEF Signal, StateSet, LockSet, f
<1> PICK b \in BOOLEAN : b /\ LockSet(f, s, b)
  BY <1>2
<1>3. ASSUME NEW g \in Cores, NEW r \in Nat, LoopBaton(s, g, r)
      PROVE  \E h \in Cores, q \in Nat : LoopBaton(s, h, q)'
  <2>1. c = g /\ round[c] = r /\ Passed(c, s) = r
    BY <1>3, BatonFacts
  <2> DEFINE q == IF c = numCores - 1 THEN r + 1 ELSE r
  <2>2. LoopBaton(s, f, q)'
    <3> SUFFICES ASSUME NEW d \in Cores
                 PROVE  /\ Passed(d, s)' = IF d < f THEN q + 1 ELSE q
                        /\ ~ IsPastLastIteration(d)' /\ ss'[d][s] = "in" => d = f
                        /\ LockInv(d, s, f)'
      BY DEF LoopBaton
    <3>1. /\ Total(d)' = Total(d) /\ round'[d] = round[d]
          /\ IsPastLastIteration(d)' <=> IsPastLastIteration(d)
          /\ ss'[d][s] = IF d = c THEN "done" ELSE ss[d][s]
          /\ unlocked'[d][s] = IF d = f THEN b ELSE unlocked[d][s]
          /\ Passed(d, s)' = IF IsPastLastIteration(d) THEN Total(d)
                             ELSE round[d] + (IF ss'[d][s] = "done" THEN 1 ELSE 0)
      <4>1. SegmentStep(c, s, "done", f, b, d)
        BY <1>1, <1>2, SegmentBaton
      <4> QED BY <4>1 DEF SegmentStep
    <3>2. /\ Passed(d, s) = IF d < c THEN r + 1 ELSE r
          /\ ~ IsPastLastIteration(d) /\ ss[d][s] = "in" => d = c
          /\ LockInv(d, s, c)
      BY <1>3, <2>1 DEF LoopBaton
    <3>3. Passed(d, s)' = IF d = c THEN r + 1 ELSE Passed(d, s)
      BY <2>1, <3>1 DEF Passed, Signalled
    <3>4. /\ d \in Nat /\ d <= numCores - 1 /\ c \in Nat /\ c <= numCores - 1
          /\ numCores \in Nat
      BY CoreFacts
    <3>5. Passed(d, s)' = IF d < f THEN q + 1 ELSE q
      BY <1>1, <3>2, <3>3, <3>4
    <3>6. ~ IsPastLastIteration(d)' => ss'[d][s] # "in"
      BY <3>1, <3>2
    <3>7. LockInv(d, s, f)'
      <4>1. CASE d # f
        BY <4>1, <3>1, <3>2 DEF LockInv, SameLoop
      <4>2. CASE d = f /\ ~ IsPastLastIteration(d)
        BY <4>2, <3>1, <3>6 DEF LockInv
      <4>3. CASE d = f /\ IsPastLastIteration(d)
        <5>1. Passed(d, s) = Total(d)
          BY <4>3 DEF Passed
        <5>2. IsLastIteration(c)
          <6>1. /\ LastRound \in Nat /\ LastCore \in Nat /\ LastCore <= numCores - 1
                /\ Total(d) = IF d <= LastCore THEN LastRound + 1 ELSE LastRound
                /\ Total(c) = IF c <= LastCore THEN LastRound + 1 ELSE LastRound
                /\ round[c] < Total(c) /\ d # c
                /\ IsLastIteration(c) <=> c = LastCore /\ round[c] = Total(c) - 1
            BY <4>3, CoreFacts
          <6> QED BY <1>1, <2>1, <3>2, <3>4, <4>3, <5>1, <6>1
        <5>3. s = preambleSS => loopIsOverFlag
          BY <5>2
        <5> QED BY <4>3, <3>1, <5>3 DEF LockInv, SameLoop
      <4> QED BY <4>1, <4>2, <4>3
    <3> QED BY <3>5, <3>6, <3>7
  <2>3. q \in Nat
    OBVIOUS
  <2> QED BY <1>1, <2>2, <2>3
<1>4. ASSUME NEW t \in Segments, t # s, NEW g \in Cores, NEW r \in Nat, LoopBaton(t, g, r)
      PROVE  LoopBaton(t, g, r)'
  BY <1>1, <1>2, <1>4, OtherSegments
<1> QED
  BY <1>3, <1>4 DEF LoopBatons

\* A signal that passes no baton on: of a core that found the loop over, or the
\* second one of the core that left it.
LEMMA LoopBatonExtra ==
  ASSUME LIO, TypeOK, LoopBatons, SameLoop, UNCHANGED <<round, loopIsOverFlag>>,
         NEW c \in Cores, NEW s \in Segments, loopIsOverFlag,
         IsPastLastIteration(c) \/ (IsLastIteration(c) /\ ss[c][s] = "done"),
         Signal(c, s), ss' = [ss EXCEPT ![c][s] = "done"]
  PROVE  LoopBatons'
<1> DEFINE f == ssArrayFuture(c)
<1>1. f \in Cores /\ f = IF c = numCores - 1 THEN 0 ELSE c + 1
  BY Ring
<1> HIDE DEF f
<1>2. StateSet(c, s, "done") /\ \E b \in BOOLEAN : b /\ LockSet(f, s, b)
  BY DEF Signal, StateSet, LockSet, f
<1> PICK b \in BOOLEAN : b /\ LockSet(f, s, b)
  BY <1>2
<1>3. ASSUME NEW g \in Cores, NEW r \in Nat, LoopBaton(s, g, r) PROVE LoopBaton(s, g, r)'
  <2>1. Passed(c, s) = Total(c)
    BY <1>3, BatonFacts, CoreFacts
  <2> SUFFICES ASSUME NEW d \in Cores
               PROVE  /\ Passed(d, s)' = IF d < g THEN r + 1 ELSE r
                      /\ ~ IsPastLastIteration(d)' /\ ss'[d][s] = "in" => d = g
                      /\ LockInv(d, s, g)'
    BY DEF LoopBaton
  <2>2. /\ Total(d)' = Total(d) /\ round'[d] = round[d]
        /\ IsPastLastIteration(d)' <=> IsPastLastIteration(d)
        /\ ss'[d][s] = IF d = c THEN "done" ELSE ss[d][s]
        /\ unlocked'[d][s] = IF d = f THEN b ELSE unlocked[d][s]
        /\ Passed(d, s)' = IF IsPastLastIteration(d) THEN Total(d)
                           ELSE round[d] + (IF ss'[d][s] = "done" THEN 1 ELSE 0)
    <3>1. SegmentStep(c, s, "done", f, b, d)
      BY <1>1, <1>2, SegmentBaton
    <3> QED BY <3>1 DEF SegmentStep
  <2>3. /\ Passed(d, s) = IF d < g THEN r + 1 ELSE r
        /\ ~ IsPastLastIteration(d) /\ ss[d][s] = "in" => d = g
        /\ LockInv(d, s, g)
    BY <1>3 DEF LoopBaton
  <2>4. Passed(d, s)' = Passed(d, s)
    BY <2>2 DEF Passed, Signalled
  <2>5. LockInv(d, s, g)'
    <3>1. CASE d # f
      BY <3>1, <2>2, <2>3 DEF LockInv, SameLoop
    <3>2. CASE IsPastLastIteration(d)
      BY <3>2, <2>2 DEF LockInv
    <3>3. CASE d = f /\ ~ IsPastLastIteration(d)
      <4>1. /\ c \in Nat /\ c <= numCores - 1 /\ numCores \in Nat /\ d \in Nat
            /\ LastRound \in Nat /\ LastCore \in Nat /\ LastCore <= numCores - 1
            /\ Total(d) = IF d <= LastCore THEN LastRound + 1 ELSE LastRound
            /\ Total(c) = IF c <= LastCore THEN LastRound + 1 ELSE LastRound
            /\ round[d] < Total(d) /\ round[d] \in Nat
        BY <3>3, CoreFacts
      <4>2. /\ g \in Nat /\ Passed(c, s) = IF c < g THEN r + 1 ELSE r
            /\ ss[d][s] = "done" => Passed(d, s) = round[d] + 1
            /\ ss[d][s] # "done" => Passed(d, s) = round[d]
            /\ ss[d][s] \in {"todo", "in", "done"} /\ g <= numCores - 1
        BY <3>3, <1>3, BatonFacts, CoreFacts
      <4>3. d # g => round[d] = Total(d) - 1 /\ ss[d][s] # "todo"
        BY <1>1, <2>1, <2>3, <3>3, <4>1, <4>2
      <4>4. d = g /\ ss[d][s] = "in" => round[d] = Total(d) - 1
        BY <1>1, <2>1, <2>3, <3>3, <4>1, <4>2
      <4> QED BY <2>2, <3>3, <4>3, <4>4 DEF LockInv
    <3> QED BY <3>1, <3>2, <3>3
  <2> QED BY <2>2, <2>3, <2>4, <2>5
<1>4. ASSUME NEW t \in Segments, t # s, NEW g \in Cores, NEW r \in Nat, LoopBaton(t, g, r)
      PROVE  LoopBaton(t, g, r)'
  BY <1>1, <1>2, <1>4, OtherSegments
<1> QED
  BY <1>3, <1>4 DEF LoopBatons

\* The next iteration of core c.  When it is past the last one, a preamble that
\* is already unlocked for it was unlocked by the core that left the loop.
LEMMA LoopBatonNextIteration ==
  ASSUME TypeOK, LoopBatons, SameLoop, UNCHANGED <<unlocked, loopIsOverFlag>>,
         ~ IsPastLastIteration(LastCore),
         IsLastIteration(LastCore) /\ ss[LastCore][preambleSS] = "done" => loopIsOverFlag,
         NEW c \in Cores, ~ IsPastLastIteration(c), ~ IsLastIteration(c),
         \A s \in Segments : ss[c][s] = "done",
         round' = [round EXCEPT ![c] = @ + 1], ss' = [ss EXCEPT ![c] = NotWaited]
  PROVE  LoopBatons'
<1>1. ASSUME NEW s \in Segments, NEW g \in Cores, NEW r \in Nat, LoopBaton(s, g, r)
      PROVE  LoopBaton(s, g, r)'
  <2> SUFFICES ASSUME NEW d \in Cores
               PROVE  /\ Passed(d, s)' = IF d < g THEN r + 1 ELSE r
                      /\ ~ IsPastLastIteration(d)' /\ ss'[d][s] = "in" => d = g
                      /\ LockInv(d, s, g)'
    BY DEF LoopBaton
  <2>1. /\ Passed(d, s) = IF d < g THEN r + 1 ELSE r
        /\ ~ IsPastLastIteration(d) /\ ss[d][s] = "in" => d = g
        /\ LockInv(d, s, g)
    BY <1>1 DEF LoopBaton
  <2>2. CASE d # c
    <3>1. round'[d] = round[d] /\ ss'[d] = ss[d] /\ unlocked' = unlocked
      BY <2>2 DEF TypeOK
    <3>2. Total(d)' = Total(d) /\ (IsPastLastIteration(d)' <=> IsPastLastIteration(d))
      BY <3>1, CoreKept
    <3>3. Passed(d, s)' = Passed(d, s)
      BY <3>1, <3>2 DEF Passed, Signalled
    <3>4. LockInv(d, s, g)'
      BY <2>1, <3>1, <3>2 DEF LockInv, SameLoop
    <3> QED BY <2>1, <3>1, <3>2, <3>3, <3>4
  <2>3. CASE d = c
    <3>1. round'[c] = round[c] + 1 /\ ss'[c][s] = "todo" /\ unlocked' = unlocked
      BY DEF TypeOK, NotWaited
    <3>2. /\ round[c] \in Nat /\ Total(c) \in Nat /\ round[c] < Total(c)
          /\ LastRound \in Nat /\ LastCore \in Nat /\ c \in Nat
          /\ Total(c) = IF c <= LastCore THEN LastRound + 1 ELSE LastRound
      BY CoreFacts
    <3>3. Total(c)' = Total(c) /\ (IsPastLastIteration(c)' <=> round[c] + 1 = Total(c))
      <4>1. LastRound' = LastRound /\ LastCore' = LastCore
        BY DEF SameLoop
      <4>2. Total(c)' = Total(c)
        BY <4>1 DEF Total
      <4>3. IsPastLastIteration(c)' <=> \/ round[c] + 1 > LastRound
                                        \/ round[c] + 1 = LastRound /\ c > LastCore
        BY <3>1, <4>1 DEF IsPastLastIteration
      <4> QED BY <3>2, <4>2, <4>3
    <3>4. Passed(c, s) = round[c] + 1
      BY <1>1, BatonFacts
    <3>5. Passed(c, s)' = Passed(c, s)
      <4>1. Passed(c, s)' = IF IsPastLastIteration(c)' THEN Total(c)' ELSE Signalled(c, s)'
        BY DEF Passed
      <4>2. Signalled(c, s)' = round[c] + 1
        BY <3>1, <3>2 DEF Signalled
      <4> QED BY <3>3, <3>4, <4>1, <4>2
    <3>6. ASSUME c = g, round[c] + 1 = Total(c), s = preambleSS PROVE loopIsOverFlag
      <4>1. LastCore \in Cores
        BY LastTypes
      <4>2. /\ Total(LastCore) = LastRound + 1 /\ round[LastCore] \in Nat
            /\ round[LastCore] <= LastRound
            /\ IsLastIteration(LastCore) <=> round[LastCore] = LastRound
        BY <4>1, CoreFacts
      <4>3. /\ Passed(LastCore, s) = IF LastCore < g THEN r + 1 ELSE r
            /\ ss[LastCore][s] = "done" => Passed(LastCore, s) = round[LastCore] + 1
            /\ ss[LastCore][s] # "done" => Passed(LastCore, s) = round[LastCore]
        BY <1>1, <4>1, BatonFacts
      <4>4. r = Total(c)
        BY <2>1, <2>3, <3>2, <3>4, <3>6
      <4>5. Passed(LastCore, s) = LastRound + 1
        BY <3>2, <3>6, <4>3, <4>4
      <4>6. ss[LastCore][s] = "done" /\ round[LastCore] = LastRound
        BY <3>2, <4>2, <4>3, <4>5
      <4> QED BY <3>6, <4>2, <4>6
    <3>7. LockInv(c, s, g)'
      BY <2>1, <2>3, <3>1, <3>2, <3>3, <3>6 DEF LockInv, SameLoop
    <3> QED BY <2>1, <2>3, <3>1, <3>5, <3>7
  <2> QED BY <2>2, <2>3
<1> QED
  BY <1>1 DEF LoopBatons

-----------------------------------------------------------------------------

LEMMA PreambleInvInit == LIO /\ Init /\ HasPreamble => PreambleInv
<1> SUFFICES ASSUME LIO, Init, HasPreamble PROVE PreambleInv
  OBVIOUS
<1>1. TypeOK
  BY InitTypeOK
<1>2. /\ ~ loopIsOverFlag /\ pc = [c \in Cores |-> "notStarted"]
      /\ \A c \in Cores : round[c] = 0 /\ \A s \in Segments : ss[c][s] = "todo"
  BY DEF Init, NotWaited
<1>3. \A c \in Cores : c = 0 \/ c = LastCore => ~ IsPastLastIteration(c)
  BY <1>1, <1>2, CoreFacts
<1>4. \A c \in Cores : SegmentStates(c) /\ ExitStates(c)
  BY <1>2, <1>3 DEF SegmentStates, ExitStates
<1>5. FlagInv /\ OwnTaskInv
  BY <1>2, CoresType DEF FlagInv, OwnTaskInv
<1>6. ASSUME NEW s \in Segments PROVE LoopBaton(s, 0, 0)
  <2> SUFFICES ASSUME NEW c \in Cores
               PROVE  /\ Passed(c, s) = IF c < 0 THEN 1 ELSE 0
                      /\ ~ IsPastLastIteration(c) /\ ss[c][s] = "in" => c = 0
                      /\ LockInv(c, s, 0)
    BY DEF LoopBaton
  <2>1. unlocked[c][s] <=> c = 0
    BY Ring DEF Init, InitiallyUnlocked
  <2>2. ss[c][s] = "todo" /\ round[c] = 0 /\ c \in Nat
    BY <1>2, CoresType
  <2>3. Total(c) \in Nat /\ (IsPastLastIteration(c) <=> 0 >= Total(c))
    BY <1>1, <2>2, CoreFacts
  <2>4. Passed(c, s) = 0
    BY <2>2, <2>3 DEF Passed, Signalled
  <2>5. LockInv(c, s, 0)
    BY <1>3, <2>1, <2>2 DEF LockInv
  <2> QED BY <2>2, <2>4, <2>5
<1>7. LoopBatons
  BY <1>6, CoresType DEF LoopBatons
<1> QED
  BY <1>1, <1>4, <1>5, <1>7 DEF PreambleInv

\* The flag is never reset.
LEMMA FlagKept ==
  ASSUME [Next]_vars, loopIsOverFlag PROVE loopIsOverFlag'
BY DEF Next, vars, Dispatcher, SubmitTask, RunOwnTask, Join, Free, Terminated, Task,
   StartTask, Header, PreambleWait, ExitFlagCheck, ReachEntry, LeaveSS, LastWait,
   EnterSS, NextIteration, ExitLoop, ExitSignal, StoreLiveOuts, LastSignal, EndTask

\* A step that leaves a task where it is.
LEMMA StatesKept ==
  ASSUME SameLoop, loopIsOverFlag => loopIsOverFlag', NEW c \in Cores,
         pc'[c] = pc[c], ss'[c] = ss[c], at'[c] = at[c], round'[c] = round[c],
         SegmentStates(c), ExitStates(c)
  PROVE  SegmentStates(c)' /\ ExitStates(c)'
<1>1. /\ IsPastLastIteration(c)' <=> IsPastLastIteration(c)
      /\ IsLastIteration(c)' <=> IsLastIteration(c)
      /\ LastCore' = LastCore /\ preambleSS' = preambleSS
  BY CoreKept DEF SameLoop
<1>2. SegmentStates(c)'
  BY <1>1 DEF SegmentStates
<1>3. ExitStates(c)'
  BY <1>1 DEF ExitStates
<1> QED BY <1>2, <1>3

\* The core of the last iteration is not past it, and it signals the preamble
\* once the flag is set.
LEMMA LastCoreInv ==
  ASSUME PreambleInv
  PROVE  /\ LastCore \in Cores /\ preambleSS \in Segments
         /\ ~ IsPastLastIteration(LastCore)
         /\ IsLastIteration(LastCore) /\ ss[LastCore][preambleSS] = "done" => loopIsOverFlag
<1>1. LastCore \in Cores /\ TypeOK /\ SegmentStates(LastCore) /\ ExitStates(LastCore)
  BY LastTypes DEF PreambleInv
<1>2. preambleSS \in Segments
  BY HELIXAssumption DEF HELIXAssumption, PreambleInv, HasPreamble, TypeOK
<1>3. ~ IsPastLastIteration(LastCore)
  BY <1>1 DEF ExitStates
<1>4. pc[LastCore] \in {"notStarted", "header", "checkExit", "failedCheck", "body",
                        "waiting", "exiting", "leaving", "lastSignals", "finished"}
  BY <1>1 DEF TypeOK
<1>5. ASSUME IsLastIteration(LastCore), ss[LastCore][preambleSS] = "done"
      PROVE  loopIsOverFlag
  <2>1. pc[LastCore] \notin {"notStarted", "header", "checkExit", "body", "waiting"}
    BY <1>1, <1>2, <1>5 DEF SegmentStates
  <2> QED BY <1>1, <1>4, <2>1 DEF ExitStates
<1> QED BY <1>1, <1>2, <1>3, <1>5

\* A core of the loop that holds the preamble finds the flag reset.
LEMMA CheckIsRight ==
  ASSUME PreambleInv, NEW c \in Cores, pc[c] = "checkExit", loopIsOverFlag
  PROVE  IsPastLastIteration(c)
<1>1. /\ TypeOK /\ SegmentStates(c) /\ LastCore \in Cores /\ preambleSS \in Segments
      /\ SegmentStates(LastCore) /\ ~ IsPastLastIteration(LastCore)
      /\ IsLastIteration(LastCore)
      /\ pc[LastCore] \in {"exiting", "leaving", "lastSignals", "finished"}
  BY LastCoreInv DEF PreambleInv, FlagInv
<1>2. ss[c][preambleSS] = "in" /\ c # LastCore
  BY <1>1 DEF SegmentStates
<1>3. ss[LastCore][preambleSS] \in {"in", "done"}
  BY <1>1 DEF SegmentStates
<1>4. PICK g \in Cores, r \in Nat : LoopBaton(preambleSS, g, r)
  BY <1>1 DEF PreambleInv, LoopBatons
<1> SUFFICES ASSUME ~ IsPastLastIteration(c) PROVE FALSE
  OBVIOUS
<1>5. c = g /\ Passed(c, preambleSS) = round[c]
  BY <1>1, <1>2, <1>4, BatonFacts
<1>6. ss[LastCore][preambleSS] = "done"
  <2>1. ss[LastCore][preambleSS] = "in" => LastCore = g
    BY <1>1, <1>4, BatonFacts
  <2> QED BY <1>2, <1>3, <1>5, <2>1
<1>7. Passed(LastCore, preambleSS) = LastRound + 1
  <2>1. Passed(LastCore, preambleSS) = round[LastCore] + 1
    BY <1>1, <1>4, <1>6, BatonFacts
  <2> QED BY <1>1, <2>1 DEF IsLastIteration
<1>8. /\ Passed(LastCore, preambleSS) = IF LastCore < g THEN r + 1 ELSE r
      /\ Passed(c, preambleSS) = IF c < g THEN r + 1 ELSE r
  BY <1>1, <1>4, BatonFacts
<1>9. /\ c \in Nat /\ LastCore \in Nat /\ LastRound \in Nat /\ round[c] \in Nat
      /\ round[c] < Total(c)
      /\ Total(c) = IF c <= LastCore THEN LastRound + 1 ELSE LastRound
  BY <1>1, CoreFacts
<1> QED BY <1>2, <1>5, <1>7, <1>8, <1>9

\* A step of a task keeps the batons.
LEMMA TaskKeepsBatons ==
  ASSUME LIO, PreambleInv, SameLoop, NEW c \in Cores, Task(c)
  PROVE  LoopBatons'
<1>1. /\ TypeOK /\ HasPreamble /\ SegmentStates(c) /\ ExitStates(c) /\ LoopBatons
      /\ preambleSS \in Segments
  BY LastCoreInv DEF PreambleInv
<1>2. IsLastIteration(c) => ~ IsPastLastIteration(c)
  BY <1>1, CoreFacts
<1>3. CASE StartTask(c) \/ Header(c) \/ ExitFlagCheck(c) \/ ExitLoop(c)
           \/ StoreLiveOuts(c) \/ EndTask(c) \/ \E s \in Segments : ReachEntry(c, s)
  <2>1. UNCHANGED <<round, ss, unlocked>> /\ (loopIsOverFlag => loopIsOverFlag')
    BY <1>3 DEF StartTask, Header, ExitFlagCheck, ExitLoop, StoreLiveOuts, EndTask,
       ReachEntry
  <2> QED BY <1>1, <2>1, LoopBatonsKept
<1>4. CASE PreambleWait(c)
  BY <1>1, <1>4, LoopBatonTaken DEF PreambleWait, SegmentStates
<1>5. CASE EnterSS(c)
  BY <1>1, <1>5, LoopBatonTaken DEF EnterSS, SegmentStates
<1>6. ASSUME NEW s \in Segments, LastWait(c, s) PROVE LoopBatons'
  BY <1>1, <1>6, LoopBatonTaken DEF LastWait
<1>7. ASSUME NEW s \in Segments, LeaveSS(c, s) PROVE LoopBatons'
  <2>1. ~ IsPastLastIteration(c)
    BY <1>1, <1>7 DEF LeaveSS, ExitStates
  <2> QED BY <1>1, <1>7, <2>1, LoopBatonPassed DEF LeaveSS
<1>8. CASE ExitSignal(c)
  <2>1. ~ IsPastLastIteration(c) /\ loopIsOverFlag /\ ss[c][preambleSS] = "in"
    BY <1>1, <1>2, <1>8 DEF ExitSignal, ExitStates, SegmentStates
  <2> QED BY <1>1, <1>8, <2>1, LoopBatonPassed DEF ExitSignal
<1>9. CASE LastSignal(c)
  <2>1. at[c] \in Segments
    BY <1>1, <1>9, HELIXAssumption DEF LastSignal, TypeOK, HELIXAssumption, Segments
  <2>2. /\ Signal(c, at[c]) /\ ss' = [ss EXCEPT ![c][at[c]] = "done"]
        /\ UNCHANGED <<round, loopIsOverFlag>>
    BY <1>9 DEF LastSignal
  <2>3. CASE pc[c] = "failedCheck"
    <3>1. IsPastLastIteration(c) /\ loopIsOverFlag
      BY <1>1, <2>3 DEF ExitStates
    <3> QED BY <1>1, <2>1, <2>2, <3>1, LoopBatonExtra
  <2>4. CASE pc[c] = "lastSignals"
    <3>1. /\ IsLastIteration(c) /\ loopIsOverFlag /\ ~ IsPastLastIteration(c)
          /\ ss[c][at[c]] \in {"in", "done"}
      BY <1>1, <1>2, <2>1, <2>4 DEF ExitStates, SegmentStates, TypeOK
    <3>2. CASE ss[c][at[c]] = "in"
      BY <1>1, <2>1, <2>2, <3>1, <3>2, LoopBatonPassed
    <3>3. CASE ss[c][at[c]] = "done"
      BY <1>1, <2>1, <2>2, <3>1, <3>3, LoopBatonExtra
    <3> QED BY <3>1, <3>2, <3>3
  <2> QED BY <1>9, <2>3, <2>4 DEF LastSignal
<1>10. CASE NextIteration(c)
  <2>1. ~ IsPastLastIteration(c) /\ ~ IsLastIteration(c)
    BY <1>1, <1>10 DEF NextIteration, ExitStates, SegmentStates
  <2>2. /\ ~ IsPastLastIteration(LastCore)
        /\ IsLastIteration(LastCore) /\ ss[LastCore][preambleSS] = "done" => loopIsOverFlag
    BY LastCoreInv
  <2> QED BY <1>1, <1>10, <2>1, <2>2, LoopBatonNextIteration DEF NextIteration
<1> QED
  BY <1>3, <1>4, <1>5, <1>6, <1>7, <1>8, <1>9, <1>10 DEF Task

\* A step of a task keeps what is known of its segments and of its exit.
LEMMA TaskKeepsStates ==
  ASSUME LIO, PreambleInv, SameLoop, NEW c \in Cores, Task(c)
  PROVE  SegmentStates(c)' /\ ExitStates(c)'
<1>1. /\ TypeOK /\ HasPreamble /\ SegmentStates(c) /\ ExitStates(c)
      /\ preambleSS \in Segments /\ preambleSS' = preambleSS /\ LastCore' = LastCore
  BY LastCoreInv DEF PreambleInv, SameLoop
<1>2. IsLastIteration(c) => ~ IsPastLastIteration(c)
  BY <1>1, CoreFacts
<1>3. ASSUME round' = round
      PROVE  /\ IsPastLastIteration(c)' <=> IsPastLastIteration(c)
             /\ IsLastIteration(c)' <=> IsLastIteration(c)
  BY <1>3, CoreKept
<1>4. CASE StartTask(c)
  <2>1. pc[c] = "notStarted" /\ pc'[c] = "header" /\ UNCHANGED <<round, ss, loopIsOverFlag>>
    BY <1>1, <1>4 DEF StartTask, TypeOK
  <2> QED BY <1>1, <1>3, <2>1 DEF SegmentStates, ExitStates
<1>5. CASE PreambleWait(c)
  <2>1. /\ pc[c] = "header" /\ pc'[c] = "checkExit" /\ UNCHANGED <<round, loopIsOverFlag>>
        /\ \A s \in Segments :
             ss'[c][s] = IF s = preambleSS THEN "in" ELSE ss[c][s]
    BY <1>1, <1>5 DEF PreambleWait, TypeOK
  <2>2. IsPastLastIteration(c) => loopIsOverFlag
    <3>1. unlocked[c][preambleSS]
      BY <1>5, Ring DEF PreambleWait, Wait
    <3>2. PICK g \in Cores, r \in Nat : LoopBaton(preambleSS, g, r)
      BY <1>1 DEF PreambleInv, LoopBatons
    <3>3. LockInv(c, preambleSS, g)
      BY <3>2 DEF LoopBaton
    <3> QED BY <3>1, <3>3 DEF LockInv
  <2> QED BY <1>1, <1>3, <2>1, <2>2 DEF SegmentStates, ExitStates
<1>6. CASE ExitFlagCheck(c)
  <2>1. /\ pc[c] = "checkExit" /\ UNCHANGED <<round, ss, loopIsOverFlag>>
        /\ pc'[c] = IF loopIsOverFlag THEN "failedCheck" ELSE "body"
    BY <1>1, <1>6 DEF ExitFlagCheck, TypeOK
  <2>2. loopIsOverFlag <=> IsPastLastIteration(c)
    BY <1>1, <2>1, CheckIsRight DEF ExitStates
  <2> QED BY <1>1, <1>3, <2>1, <2>2 DEF SegmentStates, ExitStates
<1>7. ASSUME NEW s \in Segments, ReachEntry(c, s) PROVE SegmentStates(c)' /\ ExitStates(c)'
  <2>1. /\ pc[c] = "body" /\ pc'[c] = "waiting" /\ ss[c][s] = "todo" /\ at'[c] = s
        /\ UNCHANGED <<round, ss, loopIsOverFlag>>
    BY <1>1, <1>7, HELIXAssumption DEF ReachEntry, TypeOK, HELIXAssumption, Segments
  <2> QED BY <1>1, <1>3, <2>1 DEF SegmentStates, ExitStates
<1>8. CASE EnterSS(c)
  <2>1. /\ pc[c] = "waiting" /\ pc'[c] = "body" /\ UNCHANGED <<round, loopIsOverFlag>>
        /\ \A t \in Segments : ss'[c][t] = IF t = at[c] THEN "in" ELSE ss[c][t]
    BY <1>1, <1>8 DEF EnterSS, TypeOK
  <2> QED BY <1>1, <1>3, <2>1 DEF SegmentStates, ExitStates
<1>9. ASSUME NEW s \in Segments, LeaveSS(c, s) PROVE SegmentStates(c)' /\ ExitStates(c)'
  <2>1. /\ pc[c] = "body" /\ pc'[c] = "body" /\ UNCHANGED <<round, loopIsOverFlag>>
        /\ s = preambleSS => ~ IsLastIteration(c)
        /\ \A t \in Segments : ss'[c][t] = IF t = s THEN "done" ELSE ss[c][t]
    BY <1>1, <1>9 DEF LeaveSS, TypeOK
  <2> QED BY <1>1, <1>3, <2>1 DEF SegmentStates, ExitStates
<1>10. ASSUME NEW s \in Segments, LastWait(c, s) PROVE SegmentStates(c)' /\ ExitStates(c)'
  <2>1. /\ pc[c] = "leaving" /\ pc'[c] = "leaving" /\ UNCHANGED <<round, loopIsOverFlag>>
        /\ ss[c][s] = "todo"
        /\ \A t \in Segments : ss'[c][t] = IF t = s THEN "in" ELSE ss[c][t]
    BY <1>1, <1>10 DEF LastWait, TypeOK
  <2> QED BY <1>1, <1>3, <2>1 DEF SegmentStates, ExitStates
<1>11. CASE NextIteration(c)
  <2>1. /\ pc[c] = "body" /\ pc'[c] = "header" /\ round'[c] = round[c] + 1
        /\ \A s \in Segments : ss'[c][s] = "todo"
        /\ \A s \in Segments : ss[c][s] = "done"
        /\ loopIsOverFlag' = loopIsOverFlag
    BY <1>1, <1>11 DEF NextIteration, NotWaited, TypeOK
  <2>2. ~ IsPastLastIteration(c) /\ ~ IsLastIteration(c)
    BY <1>1, <2>1 DEF ExitStates, SegmentStates
  <2>3. IsPastLastIteration(c)' => c # LastCore
    <3>1. LastRound' = LastRound /\ LastCore' = LastCore
      BY DEF SameLoop
    <3>2. round[c] \in Nat /\ LastRound \in Nat /\ LastCore \in Nat /\ c \in Nat
      BY <1>1, CoreFacts
    <3> QED BY <2>1, <2>2, <3>1, <3>2 DEF IsPastLastIteration, IsLastIteration
  <2> QED BY <1>1, <2>1, <2>3 DEF SegmentStates, ExitStates
<1>12. CASE ExitLoop(c)
  <2>1. /\ pc[c] = "body" /\ pc'[c] = "exiting" /\ loopIsOverFlag'
        /\ ss[c][preambleSS] = "in" /\ IsLastIteration(c) /\ UNCHANGED <<round, ss>>
    BY <1>1, <1>12 DEF ExitLoop, TypeOK
  <2> QED BY <1>1, <1>2, <1>3, <2>1 DEF SegmentStates, ExitStates
<1>13. CASE ExitSignal(c)
  <2>1. /\ pc[c] = "exiting" /\ pc'[c] = "leaving" /\ UNCHANGED <<round, loopIsOverFlag>>
        /\ ss'[c][preambleSS] = "done"
    BY <1>1, <1>13 DEF ExitSignal, TypeOK
  <2> QED BY <1>1, <1>2, <1>3, <2>1 DEF SegmentStates, ExitStates
<1>14. CASE StoreLiveOuts(c)
  <2>1. /\ pc[c] = "leaving" /\ pc'[c] = "lastSignals" /\ at'[c] = 0
        /\ UNCHANGED <<round, ss, loopIsOverFlag>>
        /\ \A s \in Segments : ss[c][s] # "todo"
    BY <1>1, <1>14, HELIXAssumption DEF StoreLiveOuts, TypeOK, HELIXAssumption
  <2>2. \A s \in Segments : ~ (s < 0)
    BY HELIXAssumption DEF HELIXAssumption, Segments
  <2> QED BY <1>1, <1>2, <1>3, <2>1, <2>2 DEF SegmentStates, ExitStates
<1>15. CASE LastSignal(c)
  <2>1. /\ pc[c] \in {"lastSignals", "failedCheck"} /\ pc'[c] = pc[c]
        /\ UNCHANGED <<round, loopIsOverFlag>> /\ at'[c] = at[c] + 1 /\ at[c] \in Int
        /\ \A t \in Segments : ss'[c][t] = IF t = at[c] THEN "done" ELSE ss[c][t]
    BY <1>1, <1>15, HELIXAssumption DEF LastSignal, TypeOK, HELIXAssumption
  <2>2. \A s \in Segments : s < at[c] + 1 <=> s < at[c] \/ s = at[c]
    BY <2>1, HELIXAssumption DEF HELIXAssumption, Segments
  <2> QED BY <1>1, <1>2, <1>3, <2>1, <2>2 DEF SegmentStates, ExitStates
<1>16. CASE EndTask(c)
  <2>1. /\ pc[c] \in {"lastSignals", "failedCheck"} /\ pc'[c] = "finished"
        /\ UNCHANGED <<round, ss, loopIsOverFlag>> /\ at[c] = numSS
    BY <1>1, <1>16 DEF EndTask, TypeOK
  <2>2. \A s \in Segments : s < numSS
    BY HELIXAssumption DEF HELIXAssumption, Segments
  <2> QED BY <1>1, <1>2, <1>3, <2>1, <2>2 DEF SegmentStates, ExitStates
<1>17. ~ Header(c)
  BY <1>1 DEF Header
<1> QED
  BY <1>4, <1>5, <1>6, <1>7, <1>8, <1>9, <1>10, <1>11, <1>12, <1>13, <1>14, <1>15,
     <1>16, <1>17 DEF Task

LEMMA PreambleInvNext == LIO /\ PreambleInv /\ [Next]_vars => PreambleInv'
<1> SUFFICES ASSUME LIO, PreambleInv, [Next]_vars PROVE PreambleInv'
  OBVIOUS
<1>1. /\ TypeOK /\ TypeOK' /\ OwnTaskInv /\ OwnTaskInv' /\ HasPreamble /\ HasPreamble'
      /\ \A d \in Cores : SegmentStates(d) /\ ExitStates(d)
      /\ FlagInv /\ LoopBatons /\ LastCore \in Cores
  BY NextTypeOK, NextOwnTaskInv, LoopKept, LastTypes DEF PreambleInv
<1>2. SameLoop
  BY LoopKept DEF SameLoop, loopVars
<1>3. loopIsOverFlag => loopIsOverFlag'
  BY FlagKept
<1> SUFFICES /\ \A d \in Cores : SegmentStates(d)' /\ ExitStates(d)'
             /\ FlagInv' /\ LoopBatons'
  BY <1>1 DEF PreambleInv
<1>4. CASE UNCHANGED vars \/ Terminated \/ SubmitTask \/ Join \/ Free
  <2>1. UNCHANGED <<pc, round, ss, at, unlocked, loopIsOverFlag>>
    BY <1>4 DEF vars, Terminated, SubmitTask, Join, Free, taskVars
  <2>2. \A d \in Cores : SegmentStates(d)' /\ ExitStates(d)'
    BY <1>1, <1>2, <2>1, StatesKept
  <2>3. FlagInv'
    BY <1>1, <1>2, <2>1, CoreKept DEF FlagInv, SameLoop
  <2> QED BY <1>1, <1>2, <2>1, <2>2, <2>3, LoopBatonsKept
<1>5. CASE RunOwnTask
  <2> DEFINE own == numCores - 1
  <2>1. /\ own \in Cores /\ pc[own] = "notStarted" /\ pc'[own] = "header"
        /\ \A d \in Cores : d # own => pc'[d] = pc[d]
        /\ UNCHANGED <<round, ss, at, unlocked, loopIsOverFlag>>
    BY <1>1, <1>5, CoresType DEF RunOwnTask, OwnTaskInv, TypeOK
  <2> HIDE DEF own
  <2>2. SegmentStates(own)' /\ ExitStates(own)'
    <3>1. /\ IsPastLastIteration(own)' <=> IsPastLastIteration(own)
          /\ IsLastIteration(own)' <=> IsLastIteration(own)
          /\ LastCore' = LastCore /\ SegmentStates(own) /\ ExitStates(own)
      BY <1>1, <1>2, <2>1, CoreKept DEF SameLoop
    <3> QED BY <2>1, <3>1 DEF SegmentStates, ExitStates
  <2>3. \A d \in Cores : SegmentStates(d)' /\ ExitStates(d)'
    BY <1>1, <1>2, <2>1, <2>2, StatesKept
  <2>4. FlagInv'
    <3>1. ASSUME loopIsOverFlag PROVE LastCore # own
      BY <1>1, <2>1, <3>1 DEF FlagInv
    <3> QED BY <1>1, <1>2, <2>1, <3>1, CoreKept DEF FlagInv, SameLoop
  <2> QED BY <1>1, <1>2, <2>1, <2>3, <2>4, LoopBatonsKept
<1>6. ASSUME NEW c \in Cores, Task(c)
      PROVE  /\ \A d \in Cores : SegmentStates(d)' /\ ExitStates(d)'
             /\ FlagInv' /\ LoopBatons'
  <2>1. \A d \in Cores \ {c} : /\ pc'[d] = pc[d] /\ ss'[d] = ss[d] /\ at'[d] = at[d]
                               /\ round'[d] = round[d]
    BY <1>1, <1>6, TaskAlone
  <2>2. \A d \in Cores : SegmentStates(d)' /\ ExitStates(d)'
    BY <1>1, <1>2, <1>3, <1>6, <2>1, StatesKept, TaskKeepsStates
  <2>3. LoopBatons'
    BY <1>2, <1>6, TaskKeepsBatons
  <2>4. FlagInv'
    <3> DEFINE Over == {"exiting", "leaving", "lastSignals", "finished"}
    <3>1. CASE loopIsOverFlag /\ c # LastCore
      BY <1>1, <1>2, <1>3, <2>1, <3>1, CoreKept DEF FlagInv, SameLoop
    <3>2. CASE loopIsOverFlag /\ c = LastCore
      <4>1. pc[c] \in Over /\ IsLastIteration(c)
        BY <1>1, <3>2 DEF FlagInv
      <4>2. pc'[c] \in Over /\ round' = round
        BY <1>1, <1>6, <4>1
        DEF Task, StartTask, Header, PreambleWait, ExitFlagCheck, ReachEntry, LeaveSS,
            LastWait, EnterSS, NextIteration, ExitLoop, ExitSignal, StoreLiveOuts,
            LastSignal, EndTask, TypeOK
      <4> QED BY <1>2, <3>2, <4>1, <4>2, CoreKept DEF FlagInv, SameLoop
    <3>3. CASE ~ loopIsOverFlag
      <4> SUFFICES ASSUME loopIsOverFlag'
                   PROVE  /\ IsLastIteration(LastCore)' /\ pc'[LastCore'] \in Over
        BY DEF FlagInv
      <4>1. ExitLoop(c)
        BY <1>6, <3>3
        DEF Task, StartTask, Header, PreambleWait, ExitFlagCheck, ReachEntry, LeaveSS,
            LastWait, EnterSS, NextIteration, ExitSignal, StoreLiveOuts,
            LastSignal, EndTask
      <4>2. c = LastCore /\ IsLastIteration(c) /\ round' = round /\ pc'[c] = "exiting"
        BY <1>1, <4>1 DEF ExitLoop, IsLastIteration, TypeOK
      <4> QED BY <1>2, <4>2, CoreKept DEF SameLoop
    <3> QED BY <3>1, <3>2, <3>3
  <2> QED BY <2>2, <2>3, <2>4
<1> QED
  BY <1>4, <1>5, <1>6 DEF Next, Dispatcher

-----------------------------------------------------------------------------
(* From the invariant to the properties.                                   *)

\* Two cores of the loop, and how far a segment has passed through them.
LEMMA LoopOrder ==
  ASSUME TypeOK, NEW s \in Segments, NEW g \in Cores, NEW r \in Nat, LoopBaton(s, g, r),
         NEW c \in Cores, NEW d \in Cores, c # d,
         ~ IsPastLastIteration(c), ~ IsPastLastIteration(d), ss[c][s] \in {"in", "done"}
  PROVE  /\ Earlier(d, c) => ss[d][s] = "done"
         /\ Earlier(c, d) /\ ss[c][s] = "in" => ss[d][s] = "todo"
<1>1. /\ c \in Nat /\ d \in Nat /\ g \in Nat /\ round[c] \in Nat /\ round[d] \in Nat
      /\ ss[d][s] \in {"todo", "in", "done"}
  BY CoresType DEF TypeOK
<1>2. /\ Passed(c, s) = IF c < g THEN r + 1 ELSE r
      /\ ss[c][s] = "done" => Passed(c, s) = round[c] + 1
      /\ ss[c][s] # "done" => Passed(c, s) = round[c]
      /\ ss[c][s] = "in" => c = g
  BY BatonFacts
<1>3. /\ Passed(d, s) = IF d < g THEN r + 1 ELSE r
      /\ ss[d][s] = "done" => Passed(d, s) = round[d] + 1
      /\ ss[d][s] # "done" => Passed(d, s) = round[d]
      /\ ss[d][s] = "in" => d = g
  BY BatonFacts
<1> QED BY <1>1, <1>2, <1>3 DEF Earlier

LEMMA PreambleInvImpliesOrder == PreambleInv => SegmentOrder
<1> SUFFICES ASSUME PreambleInv, NEW s \in Segments, NEW c \in Cores, NEW d \in Cores,
                    Inside(c, s), c # d
             PROVE  /\ Earlier(d, c) => ss[d][s] = "done"
                    /\ Earlier(c, d) =>
                         \/ ss[d][s] = "todo"
                         \/ pc[d] \in {"checkExit", "failedCheck", "finished"}
  BY DEF SegmentOrder
<1>1. /\ TypeOK /\ ExitStates(c) /\ SegmentStates(d) /\ ExitStates(d)
      /\ \E g \in Cores, r \in Nat : LoopBaton(s, g, r)
  BY DEF PreambleInv, LoopBatons
<1>2. ss[c][s] = "in" /\ ~ IsPastLastIteration(c)
  BY <1>1, CoreFacts DEF Inside, ExitStates
<1>3. CASE ~ IsPastLastIteration(d)
  BY <1>1, <1>2, <1>3, LoopOrder
<1>4. CASE IsPastLastIteration(d)
  <2>1. ~ Earlier(d, c)
    BY <1>1, <1>2, <1>4, IterationsOrdered
  <2> QED BY <1>1, <1>4, <2>1 DEF ExitStates, SegmentStates
<1> QED BY <1>3, <1>4

LEMMA PreambleInvImpliesNotPast == PreambleInv => NoIterationPastTheLast
BY DEF PreambleInv, ExitStates, NoIterationPastTheLast

LEMMA PreambleInvImpliesFinal == PreambleInv => LiveOutsAreFinal
<1> SUFFICES ASSUME PreambleInv, NEW c \in Cores, pc[c] = "lastSignals",
                    IsLastIteration(c), NEW d \in Cores, d # c
             PROVE  \/ /\ Earlier(d, c) /\ pc[d] = "body"
                       /\ \A s \in Segments : ss[d][s] = "done"
                    \/ Earlier(c, d) /\ pc[d] \notin {"body", "waiting"}
  BY DEF LiveOutsAreFinal
<1>1. /\ TypeOK /\ SegmentStates(c) /\ SegmentStates(d) /\ ExitStates(d)
      /\ preambleSS \in Segments /\ ~ IsPastLastIteration(c)
  BY LastCoreInv, CoreFacts DEF PreambleInv
<1>2. CASE Earlier(c, d)
  BY <1>1, <1>2, IterationsOrdered DEF ExitStates
<1>3. CASE Earlier(d, c)
  <2>1. ~ IsLastIteration(d) /\ ~ IsPastLastIteration(d)
    BY <1>1, <1>3, IterationsOrdered
  <2>2. ASSUME NEW s \in Segments PROVE ss[d][s] = "done"
    <3>1. ss[c][s] \in {"in", "done"}
      BY <1>1 DEF SegmentStates, TypeOK
    <3>2. PICK g \in Cores, r \in Nat : LoopBaton(s, g, r)
      BY DEF PreambleInv, LoopBatons
    <3> QED BY <1>1, <1>3, <2>1, <3>1, <3>2, LoopOrder
  <2>3. pc[d] \notin {"notStarted", "header", "checkExit", "waiting"}
    BY <1>1, <2>2 DEF SegmentStates
  <2>4. pc[d] = "body"
    BY <1>1, <2>1, <2>3 DEF ExitStates, TypeOK
  <2> QED BY <1>3, <2>2, <2>4
<1> QED
  BY <1>1, <1>2, <1>3, IterationsOrdered

-----------------------------------------------------------------------------
(* The theorems, for every number of cores, of segments and of iterations, *)
(* whether an induction variable governs the loop or a preamble ends it.   *)

LEMMA InvHolds == LIO => (Spec => [](ChainInv \/ PreambleInv))
<1> SUFFICES ASSUME LIO PROVE Spec => [](ChainInv \/ PreambleInv)
  OBVIOUS
<1>1. Init => ChainInv \/ PreambleInv
  BY InitChainInv, PreambleInvInit
<1>2. (ChainInv \/ PreambleInv) /\ [Next]_vars => (ChainInv \/ PreambleInv)'
  BY NextChainInv, PreambleInvNext
<1> QED BY <1>1, <1>2, PTL DEF Spec

\* Every sequential segment is executed in the order of the iterations: the
\* waits and signals of HELIX_wait and HELIX_signal, the redundant ones at the
\* exit included, let no iteration into a segment before its predecessor left.
THEOREM SegmentsInOrder ==
  ASSUME LIO
  PROVE  Spec => []SegmentOrder
<1>1. ChainInv \/ PreambleInv => SegmentOrder
  BY ChainInvImpliesOrder, PreambleInvImpliesOrder
<1>2. Spec => [](ChainInv \/ PreambleInv)
  BY InvHolds
<1> QED BY <1>1, <1>2, PTL

\* No core executes the body of an iteration past the last one, whether it
\* computes that for itself or reads loopIsOverFlag after the preamble's wait.
THEOREM LoopStopsAtTheLast ==
  ASSUME LIO
  PROVE  Spec => []NoIterationPastTheLast
<1>1. ChainInv \/ PreambleInv => NoIterationPastTheLast
  BY ChainInvImpliesNotPast, PreambleInvImpliesNotPast
<1>2. Spec => [](ChainInv \/ PreambleInv)
  BY InvHolds
<1> QED BY <1>1, <1>2, PTL

\* When the exit block has stored the live-out variables of the last iteration,
\* every earlier iteration has left every segment and no later one executes its
\* body.  A loop with no segment has nothing to wait for, so there is at least
\* one.
THEOREM LiveOutsFinal ==
  ASSUME LIO, numSS # 0
  PROVE  Spec => []LiveOutsAreFinal
<1>1. ChainInv \/ PreambleInv => LiveOutsAreFinal
  BY ChainInvImpliesFinal, PreambleInvImpliesFinal
<1>2. Spec => [](ChainInv \/ PreambleInv)
  BY InvHolds
<1> QED BY <1>1, <1>2, PTL

-----------------------------------------------------------------------------
(***************************************************************************)
(* The locks, the flag and the signals implement SequentialSegments, its   *)
(* fairness aside, when the segments keep the iteration order.             *)
(***************************************************************************)

\* Iteration k of core d is one of the loop.
InLoop(k, d) == k < LastRound \/ (k = LastRound /\ d <= LastCore)

\* Core d has been through segment s in its iteration k.
Done(k, d, s) ==
  \/ k < round[d]
  \/ k = round[d] /\ ss[d][s] = "done" /\ pc[d] # "failedCheck"

\* It is the turn of core c at segment s: the iterations that are through with
\* it are those before the one of c, and nobody else is inside.
TurnOf(c, s) ==
  /\ \A d \in Cores, k \in Nat :
       InLoop(k, d) => (Done(k, d, s) <=> k < round[c] \/ (k = round[c] /\ d < c))
  /\ \A d \in Cores : Inside(d, s) => d = c

\* The inductive invariants of the two kinds of loops.
Inv == ChainInv \/ PreambleInv

-----------------------------------------------------------------------------
(* The number of an iteration, its core and its round.                     *)

LEMMA Multiples ==
  ASSUME NEW n \in Nat, NEW j \in Nat, NEW k \in Nat, j < k
  PROVE  n * j + n <= n * k
<1>1. PICK m \in Nat : k = j + 1 + m
  <2>1. k - j - 1 \in Nat /\ k = j + 1 + (k - j - 1)
    OBVIOUS
  <2> QED BY <2>1
<1>2. n * k = n * j + n + n * m
  BY <1>1
<1>3. n * m \in Nat
  OBVIOUS
<1>4. n * j \in Nat /\ n * k \in Nat
  OBVIOUS
<1> QED BY <1>2, <1>3, <1>4

\* Iterations are ordered by their rounds, then by their cores.
LEMMA IterationNumbers ==
  ASSUME NEW c \in Cores, NEW d \in Cores, NEW j \in Nat, NEW k \in Nat
  PROVE  /\ d + numCores * k < c + numCores * j <=> k < j \/ (k = j /\ d < c)
         /\ d + numCores * k \in Nat
<1>1. /\ numCores \in Nat /\ c \in Nat /\ d \in Nat /\ c < numCores /\ d < numCores
  BY HELIXAssumption DEF HELIXAssumption, Cores
<1>2. numCores * j \in Nat /\ numCores * k \in Nat
  BY <1>1
<1>3. j < k => numCores * j + numCores <= numCores * k
  BY <1>1, Multiples
<1>4. k < j => numCores * k + numCores <= numCores * j
  BY <1>1, Multiples
<1> QED BY <1>1, <1>2, <1>3, <1>4

LEMMA IterationOf ==
  ASSUME NEW i \in Nat
  PROVE  /\ i % numCores \in Cores /\ i \div numCores \in Nat
         /\ i = (i % numCores) + numCores * (i \div numCores)
<1>1. numCores \in Nat \ {0}
  BY HELIXAssumption DEF HELIXAssumption
<1> QED BY <1>1 DEF Cores

\* The core and the round of an iteration are the ones it was numbered by.
LEMMA CoreAndRound ==
  ASSUME NEW c \in Cores, NEW k \in Nat
  PROVE  (c + numCores * k) % numCores = c /\ (c + numCores * k) \div numCores = k
<1> DEFINE i == c + numCores * k
           d == i % numCores
           j == i \div numCores
<1>1. i \in Nat
  BY IterationNumbers
<1> HIDE DEF i
<1>2. d \in Cores /\ j \in Nat /\ i = d + numCores * j
  BY <1>1, IterationOf
<1> HIDE DEF d, j
<1>3. ~ (d + numCores * j < c + numCores * k) /\ ~ (c + numCores * k < d + numCores * j)
  BY <1>1, <1>2 DEF i
<1>4. ~ (j < k \/ (j = k /\ d < c)) /\ ~ (k < j \/ (k = j /\ c < d))
  BY <1>2, <1>3, IterationNumbers
<1>5. c \in Nat /\ d \in Nat
  BY <1>2, CoresType
<1>6. d = c /\ j = k
  BY <1>2, <1>4, <1>5
<1> QED BY <1>6 DEF i, d, j

\* The iterations up to tripCount are the ones of the loop.
LEMMA LoopIterations ==
  ASSUME TypeOK, NEW i \in Nat
  PROVE  i \in 0 .. tripCount <=> InLoop(i \div numCores, i % numCores)
<1>1. tripCount \in Nat /\ LastRound \in Nat /\ LastCore \in Cores
  BY LastTypes DEF TypeOK
<1>2. tripCount = LastCore + numCores * LastRound
  BY <1>1, IterationOf DEF LastCore, LastRound
<1> DEFINE d == i % numCores
           k == i \div numCores
<1>3. d \in Cores /\ k \in Nat /\ i = d + numCores * k
  BY IterationOf
<1> HIDE DEF d, k
<1>4. tripCount < i <=> LastRound < k \/ (LastRound = k /\ LastCore < d)
  BY <1>1, <1>2, <1>3, IterationNumbers
<1>5. d \in Nat /\ LastCore \in Nat
  BY <1>1, <1>3, CoresType
<1>6. i \in 0 .. tripCount <=> InLoop(k, d)
  BY <1>1, <1>3, <1>4, <1>5 DEF InLoop
<1> QED BY <1>6 DEF d, k

LEMMA CompletedIsDone ==
  ASSUME NEW i, NEW s
  PROVE  Completed(i, s) <=> Done(i \div numCores, i % numCores, s)
BY DEF Completed, Done

\* An iteration of the loop is not past the last one.
LEMMA InLoopIsNotPast ==
  ASSUME TypeOK, NEW c \in Cores
  PROVE  ~ IsPastLastIteration(c) <=> InLoop(round[c], c)
<1>1. /\ round[c] \in Nat /\ c \in Nat /\ LastRound \in Nat /\ LastCore \in Nat
  BY CoreFacts
<1> QED BY <1>1 DEF IsPastLastIteration, InLoop

\* The turn of a segment is the iteration of the core whose turn it is.
LEMMA TurnIs ==
  ASSUME TypeOK, NEW s \in Segments, NEW c \in Cores, ~ IsPastLastIteration(c),
         TurnOf(c, s)
  PROVE  Turn(s) = c + numCores * round[c] /\ Turn(s) \in 0 .. tripCount
<1> DEFINE x == c + numCores * round[c]
<1>1. round[c] \in Nat /\ tripCount \in Nat
  BY DEF TypeOK
<1>2. x \in Nat
  BY <1>1, IterationNumbers
<1>3. x \in 0 .. tripCount
  <2>1. x % numCores = c /\ x \div numCores = round[c]
    BY <1>1, CoreAndRound
  <2>2. InLoop(round[c], c)
    BY InLoopIsNotPast
  <2> HIDE DEF x
  <2> QED BY <1>2, <2>1, <2>2, LoopIterations
<1>4. ASSUME NEW i \in 0 .. tripCount PROVE Completed(i, s) <=> i < x
  <2> DEFINE d == i % numCores
             k == i \div numCores
  <2>1. i \in Nat
    BY <1>1
  <2>2. d \in Cores /\ k \in Nat /\ i = d + numCores * k
    BY <2>1, IterationOf
  <2>3. InLoop(k, d) /\ (Completed(i, s) <=> Done(k, d, s))
    BY <2>1, LoopIterations, CompletedIsDone
  <2> HIDE DEF d, k
  <2>4. Done(k, d, s) <=> k < round[c] \/ (k = round[c] /\ d < c)
    BY <2>2, <2>3 DEF TurnOf
  <2>5. i < x <=> k < round[c] \/ (k = round[c] /\ d < c)
    BY <1>1, <2>2, IterationNumbers
  <2> QED BY <2>3, <2>4, <2>5
<1> HIDE DEF x
<1>5. {i \in 0 .. tripCount : Completed(i, s)} = 0 .. x - 1
  BY <1>1, <1>2, <1>3, <1>4
<1>6. Cardinality(0 .. x - 1) = x
  BY <1>2, FS_Interval
<1> QED BY <1>3, <1>5, <1>6 DEF Turn, x

-----------------------------------------------------------------------------
(* What the invariants say of a task, whatever ends the loop.              *)

\* A core of the loop that is inside a segment, or finds its lock unlocked when
\* it waits for it, has the turn.
LEMMA HasTurn ==
  ASSUME Inv, NEW s \in Segments, NEW c \in Cores, ~ IsPastLastIteration(c),
         ss[c][s] = "in" \/ (ss[c][s] = "todo" /\ unlocked[c][s])
  PROVE  TurnOf(c, s)
<1>1. TypeOK
  BY DEF Inv, ChainInv, PreambleInv
<1>2. /\ round[c] \in Nat /\ c \in Nat /\ \A d \in Cores : d \in Nat /\ round[d] \in Nat
  BY <1>1, CoresType DEF TypeOK
<1>3. CASE ChainInv
  <2>1. PICK g \in Cores, r \in Nat : Baton(s, g, r)
    BY <1>3 DEF ChainInv, OneBaton
  <2>2. c = g /\ round[c] = r
    BY <1>2, <2>1 DEF Baton, Signalled
  <2>3. \A d \in Cores : Inside(d, s) => d = c
    BY <2>1, <2>2 DEF Inside, Baton
  <2>4. ASSUME NEW d \in Cores, NEW k \in Nat
        PROVE  Done(k, d, s) <=> k < round[c] \/ (k = round[c] /\ d < c)
    <3>1. round[d] + (IF ss[d][s] = "done" THEN 1 ELSE 0) = IF d < c THEN r + 1 ELSE r
      BY <2>1, <2>2 DEF Baton, Signalled
    <3>2. pc[d] # "failedCheck"
      BY <1>3 DEF ChainInv, TaskInv
    <3>3. Done(k, d, s) <=> k < round[d] \/ (k = round[d] /\ ss[d][s] = "done")
      BY <3>2 DEF Done
    <3>4. d \in Nat /\ c \in Nat /\ round[d] \in Nat /\ round[c] = r
      BY <1>2, <2>2
    <3>5. CASE ss[d][s] = "done"
      BY <3>1, <3>3, <3>4, <3>5
    <3>6. CASE ss[d][s] # "done"
      BY <3>1, <3>3, <3>4, <3>6
    <3> QED BY <3>5, <3>6
  <2> QED BY <2>3, <2>4 DEF TurnOf
<1>4. CASE PreambleInv
  <2>1. PICK g \in Cores, r \in Nat : LoopBaton(s, g, r)
    BY <1>4 DEF PreambleInv, LoopBatons
  <2>2. c = g /\ Passed(c, s) = round[c] /\ round[c] = r
    BY <1>1, <1>2, <2>1, BatonFacts DEF LockInv
  <2>3. ASSUME NEW d \in Cores, Inside(d, s) PROVE d = c
    <3>1. ExitStates(d)
      BY <1>4 DEF PreambleInv
    <3>2. ~ IsPastLastIteration(d) /\ ss[d][s] = "in"
      BY <1>1, <2>3, <3>1, CoreFacts DEF Inside, ExitStates
    <3> QED BY <2>1, <2>2, <3>2 DEF LoopBaton
  <2>4. ASSUME NEW d \in Cores, NEW k \in Nat, InLoop(k, d)
        PROVE  Done(k, d, s) <=> k < round[c] \/ (k = round[c] /\ d < c)
    <3>1. Passed(d, s) = IF d < c THEN r + 1 ELSE r
      BY <2>1, <2>2 DEF LoopBaton
    <3>2. Done(k, d, s) <=> k < Passed(d, s)
      <4>1. CASE IsPastLastIteration(d)
        <5>1. /\ LastRound \in Nat /\ LastCore \in Nat /\ round[d] >= Total(d)
              /\ Total(d) = IF d <= LastCore THEN LastRound + 1 ELSE LastRound
          BY <1>1, <4>1, CoreFacts
        <5>2. k < Total(d) /\ k < round[d]
          BY <1>2, <2>4, <5>1 DEF InLoop
        <5> QED BY <4>1, <5>2 DEF Done, Passed
      <4>2. CASE ~ IsPastLastIteration(d)
        <5>1. pc[d] # "failedCheck"
          BY <1>4, <4>2 DEF PreambleInv, ExitStates
        <5> QED BY <1>2, <4>2, <5>1 DEF Done, Passed, Signalled
      <4> QED BY <4>1, <4>2
    <3> QED BY <1>2, <2>2, <3>1, <3>2
  <2> QED BY <2>3, <2>4 DEF TurnOf
<1> QED BY <1>3, <1>4 DEF Inv

LEMMA TaskFacts ==
  ASSUME Inv, NEW c \in Cores
  PROVE  /\ TypeOK
         /\ pc[c] \in {"notStarted", "header"} => \A s \in Segments : ss[c][s] = "todo"
         /\ pc[c] \in {"body", "waiting"} => ~ IsPastLastIteration(c)
         /\ pc[c] \in {"leaving", "lastSignals"} =>
              IsLastIteration(c) \/ IsPastLastIteration(c)
         /\ pc[c] = "waiting" => at[c] \in Segments /\ ss[c][at[c]] = "todo"
         /\ pc[c] = "lastSignals" =>
              \A s \in Segments : /\ ss[c][s] # "todo"
                                  /\ s < at[c] => ss[c][s] = "done"
         /\ pc[c] = "failedCheck" => IsPastLastIteration(c)
         /\ pc[c] = "exiting" => /\ IsLastIteration(c) /\ preambleSS \in Segments
                                 /\ ss[c][preambleSS] = "in"
         /\ pc[c] = "checkExit" =>
              /\ preambleSS \in Segments /\ (loopIsOverFlag <=> IsPastLastIteration(c))
              /\ \A s \in Segments : ss[c][s] = IF s = preambleSS THEN "in" ELSE "todo"
<1>1. CASE ChainInv
  <2>1. TypeOK /\ TaskInv(c)
    BY <1>1 DEF ChainInv
  <2> QED BY <2>1 DEF TaskInv
<1>2. CASE PreambleInv
  <2>1. TypeOK /\ SegmentStates(c) /\ ExitStates(c) /\ preambleSS \in Segments
    BY <1>2, LastCoreInv DEF PreambleInv
  <2>2. pc[c] = "checkExit" => (loopIsOverFlag <=> IsPastLastIteration(c))
    BY <1>2, <2>1, CheckIsRight DEF ExitStates
  <2>3. pc[c] \in {"body", "waiting"} => ~ IsPastLastIteration(c)
    BY <2>1 DEF ExitStates
  <2>4. pc[c] \in {"exiting", "leaving", "lastSignals"} => IsLastIteration(c)
    BY <2>1 DEF ExitStates
  <2>5. pc[c] = "failedCheck" => IsPastLastIteration(c)
    BY <2>1 DEF ExitStates
  <2> HIDE DEF PreambleInv
  <2> QED BY <2>1, <2>2, <2>3, <2>4, <2>5 DEF SegmentStates
<1> QED BY <1>1, <1>2 DEF Inv

-----------------------------------------------------------------------------
(* Steps that nobody sees, that enter a segment and that leave one.        *)

\* The step neither moves core c into or out of segment s nor completes it.
Quiet(c, s) ==
  /\ Inside(c, s)' <=> Inside(c, s)
  /\ Inside(c, s) => round'[c] = round[c]
  /\ \A k \in Nat : InLoop(k, c) => (Done(k, c, s)' <=> Done(k, c, s))

\* Core c enters segment s when it is its turn.
Enters(c, s) ==
  /\ ~ IsPastLastIteration(c) /\ TurnOf(c, s) /\ round'[c] = round[c]
  /\ ~ Inside(c, s) /\ Inside(c, s)'
  /\ \A k \in Nat : InLoop(k, c) => (Done(k, c, s)' <=> Done(k, c, s))

\* Core c leaves segment s, so that its iteration is through with it.
Leaves(c, s) ==
  /\ ~ IsPastLastIteration(c) /\ TurnOf(c, s) /\ round'[c] = round[c]
  /\ Inside(c, s) /\ ~ Inside(c, s)'
  /\ \A k \in Nat : InLoop(k, c) => (Done(k, c, s)' <=> Done(k, c, s) \/ k = round[c])

LEMMA OthersQuiet ==
  ASSUME TypeOK, SameLoop, NEW c \in Cores, Task(c), NEW d \in Cores, d # c,
         NEW s \in Segments
  PROVE  Quiet(d, s)
<1>1. pc'[d] = pc[d] /\ ss'[d] = ss[d] /\ round'[d] = round[d]
  BY TaskAlone
<1>2. IsLastIteration(d)' <=> IsLastIteration(d)
  BY <1>1, CoreKept
<1> QED BY <1>1, <1>2 DEF Quiet, Inside, Done

LEMMA QuietStep ==
  ASSUME TypeOK, SameLoop, tripCount' = tripCount, NEW s \in Segments,
         \A d \in Cores : Quiet(d, s)
  PROVE  Turn(s)' = Turn(s) /\ InsideIterations(s)' = InsideIterations(s)
<1>1. ASSUME NEW i \in 0 .. tripCount PROVE Completed(i, s)' <=> Completed(i, s)
  <2> DEFINE d == i % numCores
             k == i \div numCores
  <2>1. i \in Nat
    BY DEF TypeOK
  <2>2. d \in Cores /\ k \in Nat /\ InLoop(k, d)
    BY <2>1, IterationOf, LoopIterations
  <2>3. (Completed(i, s) <=> Done(k, d, s)) /\ (Completed(i, s)' <=> Done(k, d, s)')
    BY DEF Completed, Done
  <2> HIDE DEF d, k
  <2> QED BY <2>2, <2>3 DEF Quiet
<1>2. Turn(s)' = Turn(s)
  BY <1>1 DEF Turn
<1>3. \A d \in Cores : /\ Inside(d, s)' <=> Inside(d, s)
                       /\ Inside(d, s) => round'[d] = round[d]
  BY DEF Quiet
<1>4. InsideIterations(s)' = InsideIterations(s)
  BY <1>3 DEF InsideIterations
<1> QED BY <1>2, <1>4

\* The segments other than s, and the cores other than c, of a step.
OnlyAt(c, s) ==
  /\ \A d \in Cores : d # c => Quiet(d, s)
  /\ \A t \in Segments : t # s => \A d \in Cores : Quiet(d, t)

LEMMA EnterStep ==
  ASSUME TypeOK, SameLoop, tripCount' = tripCount, NEW s \in Segments, NEW c \in Cores,
         Enters(c, s), OnlyAt(c, s)
  PROVE  Abstract!Enter(s)
<1>1. \A t \in Segments : t # s =>
        Turn(t)' = Turn(t) /\ InsideIterations(t)' = InsideIterations(t)
  BY QuietStep DEF OnlyAt
<1>2. Turn(s) = c + numCores * round[c] /\ Turn(s) \in 0 .. tripCount
  BY TurnIs DEF Enters
<1>3. Turn(s)' = Turn(s)
  <2>1. ASSUME NEW i \in 0 .. tripCount PROVE Completed(i, s)' <=> Completed(i, s)
    <3> DEFINE d == i % numCores
               k == i \div numCores
    <3>1. i \in Nat
      BY DEF TypeOK
    <3>2. d \in Cores /\ k \in Nat /\ InLoop(k, d)
      BY <3>1, IterationOf, LoopIterations
    <3>3. (Completed(i, s) <=> Done(k, d, s)) /\ (Completed(i, s)' <=> Done(k, d, s)')
      BY DEF Completed, Done
    <3> HIDE DEF d, k
    <3> QED BY <3>2, <3>3 DEF Quiet, Enters, OnlyAt
  <2> QED BY <2>1 DEF Turn
<1>4. InsideIterations(s) = {}
  <2>1. \A d \in Cores : ~ Inside(d, s)
    BY DEF Enters, TurnOf
  <2> QED BY <2>1 DEF InsideIterations
<1>5. InsideIterations(s)' = {Turn(s)}
  <2>1. \A d \in Cores : Inside(d, s)' <=> d = c
    BY DEF Enters, TurnOf, OnlyAt, Quiet
  <2>2. round'[c] = round[c]
    BY DEF Enters
  <2>3. InsideIterations(s)' = {c + numCores * round[c]}
    BY <2>1, <2>2 DEF InsideIterations
  <2> QED BY <1>2, <2>3
<1> DEFINE turn == [t \in Segments |-> Turn(t)]
           inside == [t \in Segments |-> InsideIterations(t)]
<1>6. turn' = turn
  BY <1>1, <1>3
<1>7. inside' = [inside EXCEPT ![s] = {Turn(s)}]
  BY <1>1, <1>5
<1>8. inside[s] = {} /\ turn[s] = Turn(s) /\ turn[s] <= tripCount
  BY <1>2, <1>4
<1> QED BY <1>6, <1>7, <1>8 DEF Abstract!Enter

LEMMA LeaveStep ==
  ASSUME TypeOK, SameLoop, tripCount' = tripCount, NEW s \in Segments, NEW c \in Cores,
         Leaves(c, s), OnlyAt(c, s)
  PROVE  Abstract!Leave(s)
<1> DEFINE x == c + numCores * round[c]
           S == {i \in 0 .. tripCount : Completed(i, s)}
<1>1. \A t \in Segments : t # s =>
        Turn(t)' = Turn(t) /\ InsideIterations(t)' = InsideIterations(t)
  BY QuietStep DEF OnlyAt
<1>2. Turn(s) = x /\ x \in 0 .. tripCount
  BY TurnIs DEF Leaves
<1>3. /\ x \in Nat /\ x % numCores = c /\ x \div numCores = round[c]
      /\ round[c] \in Nat /\ InLoop(round[c], c)
  <2>1. round[c] \in Nat /\ tripCount \in Nat
    BY DEF TypeOK
  <2> QED BY <1>2, <2>1, CoreAndRound, InLoopIsNotPast DEF Leaves
<1> HIDE DEF x
<1>4. ASSUME NEW i \in 0 .. tripCount PROVE Completed(i, s)' <=> Completed(i, s) \/ i = x
  <2> DEFINE d == i % numCores
             k == i \div numCores
  <2>1. i \in Nat
    BY DEF TypeOK
  <2>2. d \in Cores /\ k \in Nat /\ InLoop(k, d) /\ i = d + numCores * k
    BY <2>1, IterationOf, LoopIterations
  <2>3. (Completed(i, s) <=> Done(k, d, s)) /\ (Completed(i, s)' <=> Done(k, d, s)')
    BY DEF Completed, Done
  <2>4. i = x <=> d = c /\ k = round[c]
    BY <1>3, <2>2 DEF x
  <2> HIDE DEF d, k
  <2>5. CASE d = c
    BY <2>2, <2>3, <2>4, <2>5 DEF Leaves
  <2>6. CASE d # c
    BY <2>2, <2>3, <2>4, <2>6 DEF OnlyAt, Quiet
  <2> QED BY <2>5, <2>6
<1>5. ~ Completed(x, s)
  <2>1. ~ Done(round[c], c, s)
    BY <1>3, CoresType DEF Leaves, TurnOf
  <2> QED BY <1>3, <2>1, CompletedIsDone
<1>6. S' = S \cup {x} /\ x \notin S
  BY <1>2, <1>4, <1>5
<1>7. IsFiniteSet(S)
  <2>1. IsFiniteSet(0 .. tripCount)
    BY FS_Interval DEF TypeOK
  <2> QED BY <2>1, FS_Subset
<1>8. Turn(s) = Cardinality(S) /\ Turn(s)' = Cardinality(S')
  BY DEF Turn
<1> HIDE DEF S
<1>9. Turn(s)' = Turn(s) + 1
  BY <1>6, <1>7, <1>8, FS_AddElement
<1>10. InsideIterations(s) = {Turn(s)}
  <2>1. \A d \in Cores : Inside(d, s) <=> d = c
    BY DEF Leaves, TurnOf
  <2> QED BY <1>2, <2>1 DEF InsideIterations, x
<1>11. InsideIterations(s)' = {}
  <2>1. \A d \in Cores : ~ Inside(d, s)'
    BY DEF Leaves, TurnOf, OnlyAt, Quiet
  <2> QED BY <2>1 DEF InsideIterations
<1> DEFINE turn == [t \in Segments |-> Turn(t)]
           inside == [t \in Segments |-> InsideIterations(t)]
<1>12. turn' = [turn EXCEPT ![s] = turn[s] + 1]
  BY <1>1, <1>9
<1>13. inside' = [inside EXCEPT ![s] = {}]
  BY <1>1, <1>11
<1>14. inside[s] = {turn[s]}
  BY <1>10
<1> QED BY <1>12, <1>13, <1>14 DEF Abstract!Leave

-----------------------------------------------------------------------------
(* Every step of a task is one of these.                                   *)

AllQuiet(c) == \A s \in Segments : Quiet(c, s)
QuietBut(c, s) == \A t \in Segments : t # s => Quiet(c, t)

\* A core that stays at its iteration: what it does to a segment shows in the
\* segment's state and in the place of the task.
LEMMA SameRound ==
  ASSUME SameLoop, NEW c \in Cores, round'[c] = round[c], NEW s \in Segments
  PROVE  /\ Inside(c, s)' <=>
              /\ ss'[c][s] = "in"
              /\ \/ pc'[c] \in {"body", "waiting"}
                 \/ pc'[c] \in {"exiting", "leaving", "lastSignals"} /\ IsLastIteration(c)
         /\ \A k \in Nat : Done(k, c, s)' <=>
              \/ k < round[c]
              \/ k = round[c] /\ ss'[c][s] = "done" /\ pc'[c] # "failedCheck"
<1>1. IsLastIteration(c)' <=> IsLastIteration(c)
  BY CoreKept
<1> QED BY <1>1 DEF Inside, Done

\* The same state of the segment, at a place that is in the same relation to it.
LEMMA SamePlace ==
  ASSUME SameLoop, NEW c \in Cores, round'[c] = round[c], NEW s \in Segments,
         ss'[c][s] = ss[c][s],
         \/ ss[c][s] = "todo"
         \/ pc'[c] = pc[c]
         \/ {pc[c], pc'[c]} \subseteq {"body", "waiting"}
         \/ /\ {pc[c], pc'[c]} \subseteq {"body", "waiting", "exiting", "leaving",
                                          "lastSignals"}
            /\ IsLastIteration(c)
  PROVE  Quiet(c, s)
BY SameRound DEF Quiet, Inside, Done

\* The steps of a core that is past the last iteration.
LEMMA PastIsQuiet ==
  ASSUME TypeOK, SameLoop, NEW c \in Cores, round'[c] = round[c], NEW s \in Segments,
         IsPastLastIteration(c), pc[c] \notin {"body", "waiting"},
         pc'[c] \notin {"body", "waiting"}
  PROVE  Quiet(c, s)
<1>1. ~ IsLastIteration(c)
  BY CoreFacts
<1>2. ~ Inside(c, s) /\ ~ Inside(c, s)'
  BY <1>1, SameRound DEF Inside
<1>3. ASSUME NEW k \in Nat, InLoop(k, c) PROVE k < round[c]
  <2>1. /\ round[c] \in Nat /\ c \in Nat /\ LastRound \in Nat /\ LastCore \in Nat
    BY CoreFacts
  <2> QED BY <1>3, <2>1 DEF InLoop, IsPastLastIteration
<1>4. \A k \in Nat : k < round[c] => Done(k, c, s) /\ Done(k, c, s)'
  BY SameRound DEF Done
<1> QED BY <1>2, <1>3, <1>4 DEF Quiet

\* A wait on s that lets a core of the loop in.
LEMMA WaitEnters ==
  ASSUME Inv, TypeOK, SameLoop, NEW c \in Cores, round'[c] = round[c], NEW s \in Segments,
         ~ IsPastLastIteration(c), ss[c][s] = "todo", unlocked[c][s], ss'[c][s] = "in",
         \/ pc'[c] = "body"
         \/ pc'[c] = "leaving" /\ IsLastIteration(c)
  PROVE  Enters(c, s)
<1>1. TurnOf(c, s)
  BY HasTurn
<1>2. ~ Inside(c, s) /\ Inside(c, s)'
  BY SameRound DEF Inside
<1>3. \A k \in Nat : Done(k, c, s)' <=> Done(k, c, s)
  BY SameRound DEF Done
<1> QED BY <1>1, <1>2, <1>3 DEF Enters

\* A signal of s at the end of the segment of a core of the loop.
LEMMA SignalLeaves ==
  ASSUME Inv, TypeOK, SameLoop, NEW c \in Cores, round'[c] = round[c], NEW s \in Segments,
         ~ IsPastLastIteration(c), ss[c][s] = "in", ss'[c][s] = "done",
         Inside(c, s), pc'[c] # "failedCheck"
  PROVE  Leaves(c, s)
<1>1. TurnOf(c, s)
  BY HasTurn
<1>2. ~ Inside(c, s)'
  BY SameRound
<1>3. \A k \in Nat : Done(k, c, s)' <=> Done(k, c, s) \/ k = round[c]
  BY SameRound DEF Done
<1> QED BY <1>1, <1>2, <1>3 DEF Leaves

LEMMA TaskStep ==
  ASSUME LIO, Inv, SameLoop, NEW c \in Cores, Task(c)
  PROVE  \/ AllQuiet(c)
         \/ \E s \in Segments : QuietBut(c, s) /\ (Enters(c, s) \/ Leaves(c, s))
<1>1. TypeOK
  BY TaskFacts
<1>2. IsLastIteration(c) => ~ IsPastLastIteration(c)
  BY <1>1, CoreFacts
<1>3. CASE StartTask(c) \/ Header(c)
  <2>1. /\ pc[c] \in {"notStarted", "header"} /\ round'[c] = round[c] /\ ss'[c] = ss[c]
    BY <1>3 DEF StartTask, Header
  <2>2. \A s \in Segments : ss[c][s] = "todo"
    BY <2>1, TaskFacts
  <2> QED BY <2>1, <2>2, SamePlace DEF AllQuiet
<1>4. CASE PreambleWait(c)
  <2>1. /\ pc[c] = "header" /\ pc'[c] = "checkExit" /\ round'[c] = round[c]
        /\ \A s \in Segments : ss'[c][s] \in {ss[c][s], "in"}
    BY <1>1, <1>4 DEF PreambleWait, TypeOK
  <2>2. \A s \in Segments : ss[c][s] = "todo"
    BY <2>1, TaskFacts
  <2>3. ASSUME NEW s \in Segments PROVE Quiet(c, s)
    BY <2>1, <2>2, SameRound DEF Quiet, Inside, Done
  <2> QED BY <2>3 DEF AllQuiet
<1>5. CASE ExitFlagCheck(c)
  <2>1. /\ pc[c] = "checkExit" /\ round'[c] = round[c] /\ ss'[c] = ss[c]
        /\ pc'[c] = IF loopIsOverFlag THEN "failedCheck" ELSE "body"
    BY <1>1, <1>5 DEF ExitFlagCheck, TypeOK
  <2>2. /\ preambleSS \in Segments /\ (loopIsOverFlag <=> IsPastLastIteration(c))
        /\ \A s \in Segments : ss[c][s] = IF s = preambleSS THEN "in" ELSE "todo"
    BY <2>1, TaskFacts
  <2>3. CASE loopIsOverFlag
    <3>1. ASSUME NEW s \in Segments PROVE Quiet(c, s)
      BY <1>1, <2>1, <2>2, <2>3, PastIsQuiet
    <3> QED BY <3>1 DEF AllQuiet
  <2>4. CASE ~ loopIsOverFlag
    <3>1. PICK s \in Segments : s = preambleSS
      BY <2>2
    <3>2. /\ pc[c] = "checkExit" /\ pc'[c] = "body" /\ round'[c] = round[c]
          /\ ss[c][s] = "in" /\ ss'[c][s] = "in"
      BY <2>1, <2>2, <2>4, <3>1
    <3>3. TurnOf(c, s)
      BY <2>2, <2>4, <3>2, HasTurn
    <3>4. ~ Inside(c, s) /\ Inside(c, s)'
      BY <3>2, SameRound DEF Inside
    <3>5. \A k \in Nat : Done(k, c, s)' <=> Done(k, c, s)
      BY <3>2, SameRound DEF Done
    <3>6. Enters(c, s)
      BY <2>2, <2>4, <3>2, <3>3, <3>4, <3>5 DEF Enters
    <3>7. QuietBut(c, s)
      BY <2>1, <2>2, <3>1, SamePlace DEF QuietBut
    <3> QED BY <3>6, <3>7
  <2> QED BY <2>3, <2>4
<1>6. ASSUME NEW s \in Segments, ReachEntry(c, s) PROVE AllQuiet(c)
  <2>1. pc[c] = "body" /\ pc'[c] = "waiting" /\ round'[c] = round[c] /\ ss'[c] = ss[c]
    BY <1>1, <1>6 DEF ReachEntry, TypeOK
  <2> QED BY <2>1, SamePlace DEF AllQuiet
<1>7. CASE EnterSS(c)
  <2>1. /\ pc[c] = "waiting" /\ pc'[c] = "body" /\ round'[c] = round[c]
        /\ \A t \in Segments : ss'[c][t] = IF t = at[c] THEN "in" ELSE ss[c][t]
        /\ unlocked[c][at[c]]
    BY <1>1, <1>7, Ring DEF EnterSS, Wait, TypeOK
  <2>2. at[c] \in Segments /\ ss[c][at[c]] = "todo" /\ ~ IsPastLastIteration(c)
    BY <2>1, TaskFacts
  <2>3. PICK s \in Segments : s = at[c]
    BY <2>2
  <2>4. Enters(c, s)
    BY <1>1, <2>1, <2>2, <2>3, WaitEnters
  <2>5. QuietBut(c, s)
    BY <2>1, <2>3, SamePlace DEF QuietBut
  <2> QED BY <2>4, <2>5
<1>8. ASSUME NEW s \in Segments, LeaveSS(c, s) PROVE QuietBut(c, s) /\ Leaves(c, s)
  <2>1. /\ pc[c] = "body" /\ pc'[c] = "body" /\ round'[c] = round[c] /\ ss[c][s] = "in"
        /\ \A t \in Segments : ss'[c][t] = IF t = s THEN "done" ELSE ss[c][t]
    BY <1>1, <1>8 DEF LeaveSS, TypeOK
  <2>2. ~ IsPastLastIteration(c) /\ Inside(c, s)
    BY <2>1, TaskFacts DEF Inside
  <2>3. Leaves(c, s)
    BY <1>1, <2>1, <2>2, SignalLeaves
  <2> QED BY <2>1, <2>3, SamePlace DEF QuietBut
<1>9. ASSUME NEW s \in Segments, LastWait(c, s)
      PROVE  AllQuiet(c) \/ (QuietBut(c, s) /\ Enters(c, s))
  <2>1. /\ pc[c] = "leaving" /\ pc'[c] = "leaving" /\ round'[c] = round[c]
        /\ ss[c][s] = "todo" /\ unlocked[c][s]
        /\ \A t \in Segments : ss'[c][t] = IF t = s THEN "in" ELSE ss[c][t]
    BY <1>1, <1>9, Ring DEF LastWait, Wait, TypeOK
  <2>2. IsLastIteration(c) \/ IsPastLastIteration(c)
    BY <2>1, TaskFacts
  <2>3. CASE IsPastLastIteration(c)
    BY <1>1, <2>1, <2>3, PastIsQuiet DEF AllQuiet
  <2>4. CASE IsLastIteration(c)
    <3>1. Enters(c, s)
      BY <1>1, <1>2, <2>1, <2>4, WaitEnters
    <3> QED BY <2>1, <3>1, SamePlace DEF QuietBut
  <2> QED BY <2>2, <2>3, <2>4
<1>10. CASE NextIteration(c)
  <2>1. /\ round'[c] = round[c] + 1 /\ pc[c] = "body" /\ pc'[c] = "header"
        /\ \A s \in Segments : ss[c][s] = "done" /\ ss'[c][s] = "todo"
        /\ round[c] \in Nat
    BY <1>1, <1>10 DEF NextIteration, NotWaited, TypeOK
  <2>2. ASSUME NEW s \in Segments PROVE Quiet(c, s)
    <3>1. ~ Inside(c, s) /\ ~ Inside(c, s)'
      BY <2>1 DEF Inside
    <3>2. \A k \in Nat : Done(k, c, s)' <=> Done(k, c, s)
      BY <2>1 DEF Done
    <3> QED BY <3>1, <3>2 DEF Quiet
  <2> QED BY <2>2 DEF AllQuiet
<1>11. CASE ExitLoop(c)
  <2>1. /\ pc[c] = "body" /\ pc'[c] = "exiting" /\ round'[c] = round[c] /\ ss'[c] = ss[c]
        /\ IsLastIteration(c)
    BY <1>1, <1>11 DEF ExitLoop, TypeOK
  <2> QED BY <2>1, SamePlace DEF AllQuiet
<1>12. CASE ExitSignal(c)
  <2>1. /\ pc[c] = "exiting" /\ pc'[c] = "leaving" /\ round'[c] = round[c]
        /\ \A t \in Segments : ss'[c][t] = IF t = preambleSS THEN "done" ELSE ss[c][t]
    BY <1>1, <1>12 DEF ExitSignal, TypeOK
  <2>2. PICK s \in Segments : s = preambleSS
    BY <2>1, TaskFacts
  <2>3. ss[c][s] = "in" /\ IsLastIteration(c) /\ Inside(c, s) /\ ss'[c][s] = "done"
    BY <2>1, <2>2, TaskFacts DEF Inside
  <2>4. Leaves(c, s)
    BY <1>1, <1>2, <2>1, <2>3, SignalLeaves
  <2>5. QuietBut(c, s)
    BY <2>1, <2>2, <2>3, SamePlace DEF QuietBut
  <2> QED BY <2>4, <2>5
<1>13. CASE StoreLiveOuts(c)
  <2>1. /\ pc[c] = "leaving" /\ pc'[c] = "lastSignals" /\ round'[c] = round[c]
        /\ ss'[c] = ss[c]
    BY <1>1, <1>13 DEF StoreLiveOuts, TypeOK
  <2>2. IsLastIteration(c) \/ IsPastLastIteration(c)
    BY <2>1, TaskFacts
  <2>3. CASE IsPastLastIteration(c)
    BY <1>1, <2>1, <2>3, PastIsQuiet DEF AllQuiet
  <2>4. CASE IsLastIteration(c)
    BY <2>1, <2>4, SamePlace DEF AllQuiet
  <2> QED BY <2>2, <2>3, <2>4
<1>14. CASE LastSignal(c)
  <2>1. PICK s \in Segments : s = at[c]
    BY <1>1, <1>14, HELIXAssumption DEF LastSignal, TypeOK, HELIXAssumption, Segments
  <2>2. /\ pc[c] \in {"lastSignals", "failedCheck"} /\ pc'[c] = pc[c]
        /\ round'[c] = round[c]
        /\ \A t \in Segments : ss'[c][t] = IF t = s THEN "done" ELSE ss[c][t]
    BY <1>1, <1>14, <2>1 DEF LastSignal, TypeOK
  <2>3. \/ IsPastLastIteration(c)
        \/ pc[c] = "lastSignals" /\ IsLastIteration(c) /\ ss[c][s] # "todo"
    BY <2>2, TaskFacts
  <2>4. CASE IsPastLastIteration(c)
    BY <1>1, <2>2, <2>4, PastIsQuiet DEF AllQuiet
  <2>5. CASE ~ IsPastLastIteration(c) /\ ss[c][s] = "in"
    <3>1. Inside(c, s)
      BY <2>3, <2>5 DEF Inside
    <3>2. Leaves(c, s)
      BY <1>1, <2>2, <2>3, <2>5, <3>1, SignalLeaves
    <3>3. QuietBut(c, s)
      BY <2>2, SamePlace DEF QuietBut
    <3> QED BY <2>2, <3>2, <3>3
  <2>6. CASE ~ IsPastLastIteration(c) /\ ss[c][s] = "done"
    <3>1. \A t \in Segments : ss'[c][t] = ss[c][t]
      BY <2>2, <2>6
    <3> QED BY <2>2, <3>1, SamePlace DEF AllQuiet
  <2>7. ss[c][s] \in {"todo", "in", "done"}
    BY <1>1, <2>2 DEF TypeOK
  <2> QED BY <2>3, <2>4, <2>5, <2>6, <2>7
<1>15. CASE EndTask(c)
  <2>1. /\ pc[c] \in {"lastSignals", "failedCheck"} /\ pc'[c] = "finished"
        /\ round'[c] = round[c] /\ ss'[c] = ss[c] /\ at[c] = numSS
    BY <1>1, <1>15 DEF EndTask, TypeOK
  <2>2. CASE IsPastLastIteration(c)
    BY <1>1, <2>1, <2>2, PastIsQuiet DEF AllQuiet
  <2>3. CASE ~ IsPastLastIteration(c)
    <3>1. pc[c] = "lastSignals" /\ \A s \in Segments : s < at[c] => ss[c][s] = "done"
      BY <2>1, <2>3, TaskFacts
    <3>2. \A s \in Segments : ss[c][s] = "done"
      BY <2>1, <3>1, HELIXAssumption DEF HELIXAssumption, Segments
    <3>3. ASSUME NEW s \in Segments PROVE Quiet(c, s)
      BY <2>1, <3>1, <3>2, SameRound DEF Quiet, Inside, Done
    <3> QED BY <3>3 DEF AllQuiet
  <2> QED BY <2>2, <2>3
<1> QED
  BY <1>3, <1>4, <1>5, <1>6, <1>7, <1>8, <1>9, <1>10, <1>11, <1>12, <1>13, <1>14, <1>15
  DEF Task

-----------------------------------------------------------------------------
(* The refinement.                                                         *)

LEMMA AbstractInit == Init => Abstract!Init
<1> SUFFICES ASSUME Init PROVE Abstract!Init
  OBVIOUS
<1>1. TypeOK
  BY InitTypeOK
<1>2. ASSUME NEW s \in Segments PROVE Turn(s) = 0 /\ InsideIterations(s) = {}
  <2>1. \A d \in Cores : pc[d] = "notStarted" /\ round[d] = 0 /\ ss[d][s] = "todo"
    BY DEF Init, NotWaited
  <2>2. ASSUME NEW i \in 0 .. tripCount PROVE ~ Completed(i, s)
    <3>1. i \in Nat
      BY <1>1 DEF TypeOK
    <3>2. i % numCores \in Cores /\ i \div numCores \in Nat
      BY <3>1, IterationOf
    <3> QED BY <2>1, <3>2 DEF Completed
  <2>3. {i \in 0 .. tripCount : Completed(i, s)} = {}
    BY <2>2
  <2>4. Turn(s) = 0
    BY <2>3, FS_EmptySet DEF Turn
  <2>5. InsideIterations(s) = {}
    BY <2>1 DEF InsideIterations, Inside
  <2> QED BY <2>4, <2>5
<1>3. [s \in Segments |-> Turn(s)] = [s \in Segments |-> 0]
  BY <1>2
<1>4. [s \in Segments |-> InsideIterations(s)] = [s \in Segments |-> {}]
  BY <1>2
<1>5. tripCount \in Nat
  BY <1>1 DEF TypeOK
<1> QED BY <1>3, <1>4, <1>5 DEF Abstract!Init

\* A step in which every core is quiet at every segment changes nothing that
\* SequentialSegments sees.
LEMMA QuietStutters ==
  ASSUME TypeOK, SameLoop, tripCount' = tripCount,
         \A s \in Segments : \A d \in Cores : Quiet(d, s)
  PROVE  UNCHANGED Abstract!vars
<1>1. \A s \in Segments :
        Turn(s)' = Turn(s) /\ InsideIterations(s)' = InsideIterations(s)
  BY QuietStep
<1>2. [s \in Segments |-> Turn(s)]' = [s \in Segments |-> Turn(s)]
  BY <1>1
<1>3. [s \in Segments |-> InsideIterations(s)]' = [s \in Segments |-> InsideIterations(s)]
  BY <1>1
<1> QED BY <1>2, <1>3 DEF Abstract!vars

\* The steps of the dispatcher: it starts tasks and joins them.
LEMMA DispatcherIsQuiet ==
  ASSUME Inv, SameLoop, Dispatcher \/ Terminated \/ UNCHANGED vars,
         NEW s \in Segments, NEW d \in Cores
  PROVE  Quiet(d, s)
<1>1. TypeOK /\ OwnTaskInv
  BY DEF Inv, ChainInv, PreambleInv
<1>2. CASE RunOwnTask
  <2>1. /\ round'[d] = round[d] /\ ss'[d] = ss[d]
        /\ pc'[d] = pc[d] \/ (d = numCores - 1 /\ pc[numCores - 1] = "notStarted")
    BY <1>1, <1>2 DEF RunOwnTask, OwnTaskInv, TypeOK
  <2>2. pc'[d] = pc[d] \/ ss[d][s] = "todo"
    BY <2>1, TaskFacts
  <2> QED BY <2>1, <2>2, SamePlace
<1>3. CASE SubmitTask \/ Join \/ Free \/ Terminated \/ UNCHANGED vars
  <2>1. UNCHANGED taskVars
    BY <1>3 DEF SubmitTask, Join, Free, Terminated, vars, taskVars
  <2>2. round'[d] = round[d] /\ ss'[d] = ss[d] /\ pc'[d] = pc[d]
    BY <2>1 DEF taskVars
  <2> QED BY <2>2, SamePlace
<1> QED BY <1>2, <1>3 DEF Dispatcher

LEMMA AbstractNext ==
  ASSUME LIO, Inv, [Next]_vars
  PROVE  [Abstract!Next]_(Abstract!vars)
<1> DEFINE AbstractStep == [Abstract!Next]_(Abstract!vars)
<1> SUFFICES AbstractStep
  OBVIOUS
<1>1. UNCHANGED Abstract!vars => AbstractStep
  OBVIOUS
<1>2. \A s \in Segments : Abstract!Enter(s) \/ Abstract!Leave(s) => AbstractStep
  BY DEF Abstract!Next
<1> HIDE DEF AbstractStep
<1>3. SameLoop /\ tripCount' = tripCount
  BY LoopKept DEF loopVars, SameLoop
<1>4. TypeOK
  BY DEF Inv, ChainInv, PreambleInv
<1>5. ASSUME Dispatcher \/ Terminated \/ UNCHANGED vars PROVE AbstractStep
  <2>1. \A s \in Segments : \A d \in Cores : Quiet(d, s)
    BY <1>3, <1>5, DispatcherIsQuiet
  <2>2. UNCHANGED Abstract!vars
    BY <1>3, <1>4, <2>1, QuietStutters
  <2> QED BY <1>1, <2>2
<1>6. ASSUME NEW c \in Cores, Task(c) PROVE AbstractStep
  <2>1. \A d \in Cores : d # c => \A s \in Segments : Quiet(d, s)
    BY <1>3, <1>4, <1>6, OthersQuiet
  <2>2. ASSUME AllQuiet(c) PROVE AbstractStep
    <3>1. \A s \in Segments : \A d \in Cores : Quiet(d, s)
      BY <2>1, <2>2 DEF AllQuiet
    <3>2. UNCHANGED Abstract!vars
      BY <1>3, <1>4, <3>1, QuietStutters
    <3> QED BY <1>1, <3>2
  <2>3. ASSUME NEW s \in Segments, QuietBut(c, s), Enters(c, s) \/ Leaves(c, s)
        PROVE  AbstractStep
    <3>1. OnlyAt(c, s)
      BY <2>1, <2>3 DEF OnlyAt, QuietBut
    <3>2. Abstract!Enter(s) \/ Abstract!Leave(s)
      BY <1>3, <1>4, <2>3, <3>1, EnterStep, LeaveStep
    <3> QED BY <1>2, <3>2
  <2>4. \/ AllQuiet(c)
        \/ \E s \in Segments : QuietBut(c, s) /\ (Enters(c, s) \/ Leaves(c, s))
    BY <1>3, <1>6, TaskStep
  <2> QED BY <2>2, <2>3, <2>4
<1> QED BY <1>5, <1>6 DEF Next

\* The locks of HELIX_wait and HELIX_signal, loopIsOverFlag and the signals of
\* the exit blocks implement the segments of SequentialSegments: for every
\* number of cores and segments each segment is executed by the iterations
\* 0, 1, 2, ..., one at a time and in this order, up to the last one and by no
\* other.  That every iteration gets its turn is checked by TLC.
THEOREM SegmentsAreSequential ==
  ASSUME LIO
  PROVE  Spec => Abstract!Spec
<1>1. Spec => []Inv
  BY InvHolds DEF Inv
<1>2. Inv /\ [Next]_vars => [Abstract!Next]_(Abstract!vars)
  BY AbstractNext
<1> QED BY <1>1, <1>2, AbstractInit, PTL DEF Spec, Abstract!Spec
=============================================================================
