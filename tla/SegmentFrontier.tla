--------------------------- MODULE SegmentFrontier ---------------------------
(***************************************************************************)
(* Where HELIX puts the waits and signals of one sequential segment:       *)
(* SequentialSegment::determineEntryAndExitFrontier and the placement done *)
(* by HELIX::addSynchronizations, followed by one iteration of the loop    *)
(* that executes the result.                                               *)
(*                                                                         *)
(* The loop is a control-flow graph of instructions 1 .. N.  Instruction 1 *)
(* starts the header and N ends the only latch, which jumps to the header. *)
(* The iteration is free of cycles except for nested loops of one block,   *)
(* entered through a preheader of their own.  Unconditional branches, PHIs *)
(* and the blocks outside the loop are left out.  The sets of the code are *)
(* unordered_sets of pointers: they are traversed in any order.            *)
(***************************************************************************)
EXTENDS Integers, FiniteSets, SequencesExt

CONSTANTS
  N,        \* number of instructions of the loop
  Segments, \* the sets of instructions that may form the segment
  Nesting   \* whether nested loops are considered

Nodes == 1 .. N
Many == 2    \* the number of signals is counted up to this bound

ASSUME FrontierAssumption ==
  /\ N \in Nat \ {0}
  /\ \A s \in Segments : s \subseteq Nodes /\ s # {}
  /\ Nesting \in BOOLEAN

VARIABLES
  succ,    \* successors of each instruction within an iteration
  ssI,     \* ssInstructions
  phase,   \* the part of the analysis, then the execution
  queue,   \* predecessorTraversal or successorTraversal
  visited, \* predecessorVisited or successorVisited
  todo,    \* instructionsUnreachableToAndFromSS still to be looked at
  entries,
  exits,
  at,      \* the instruction the iteration executes
  waited,  \* ssState
  signals  \* how often the iteration has signalled

loop == <<succ, ssI>>
iteration == <<at, waited, signals>>
vars == <<succ, ssI, phase, queue, visited, todo, entries, exits, at, waited, signals>>

-----------------------------------------------------------------------------

Preds(i) == {p \in Nodes : i \in succ[p]}
InNestedLoop(i) == i \in succ[i]
Conditional(i) == Cardinality(succ[i]) > 1

\* Instructions that may be executed after i in the same iteration, i included:
\* the least solution of computeReachabilityFromInstructions.
Reachable ==
  LET R[i \in Nodes] == {i} \cup UNION {R[j] : j \in succ[i] \ {i}} IN R

\* Instruction d dominates i.
Dominates(d, i) ==
  LET Avoiding[j \in Nodes] ==
        IF j = d THEN {} ELSE {j} \cup UNION {Avoiding[k] : k \in succ[j] \ {j}}
  IN  d # i /\ i \notin Avoiding[1]

\* The first instructions of the basic blocks.
BlockStarts ==
  {i \in Nodes : Cardinality(Preds(i)) # 1 \/ \E p \in Preds(i) : Conditional(p)}

\* beforeInstructionMap: the other instructions that may be executed before i.
Before(i) == {j \in Nodes \ {i} : i \in Reachable[j]}

checkIfBeforeEntryFrontier(i) == Before(i) \cap ssI = {}
checkIfAfterExitFrontier(i) == (Reachable[i] \ {i}) \cap ssI = {}

isDominatedByOtherEntry(i) == \E e \in entries : Dominates(e, i)
isReachableFromOtherExit(i) == Before(i) \cap exits # {}

\* No edge of f leads from a block with several successors to a block with
\* several predecessors; the edge of a nested loop to itself does not count.
NoCriticalEdge(f) ==
  \A p, q \in DOMAIN f : \A i \in (f[p] \ {p}) \cap (f[q] \ {q}) :
    p # q => Cardinality(f[p]) = 1

\* The successors instruction k may have: branches are two-way, edges lead forward.
Targets(k) ==
  {t \in SUBSET (k .. N) :
     Cardinality(t) \in {1, 2} /\ t # {k} /\ (k \in t => Nesting)}

\* The graph g of the instructions behind k with the successors t of k.
With(g, k, t) == [j \in k .. N |-> IF j = k THEN t ELSE g[j]]

\* The instructions that lead to i, its own loop left out.
Entering(f, i) == {p \in Nodes \ {i} : i \in f[p]}

\* A loop the analysis is run on: no edge is critical, every instruction can be
\* reached, and a nested loop is entered through a preheader.
Loops ==
  LET F[k \in Nodes] ==
        IF k = N THEN {With(<<>>, N, {})}
        ELSE {f \in {With(g, k, t) : g \in F[k + 1], t \in Targets(k)} : NoCriticalEdge(f)}
  IN  {f \in F[1] : \A i \in Nodes :
         /\ i # 1 => Entering(f, i) # {}
         /\ i \in f[i] => \E p \in Nodes : Entering(f, i) = {p} /\ f[p] = {i}}

Init ==
  /\ succ \in Loops
  /\ ssI \in Segments
  /\ phase = "entries"
  /\ queue \in SetToSeqs(ssI)
  /\ visited = {} /\ todo = {} /\ entries = {} /\ exits = {}
  /\ at = 1 /\ waited = FALSE /\ signals = 0

-----------------------------------------------------------------------------
(* The traversals.                                                         *)

Current == Head(queue)

IsEntry(i) ==
  /\ ~ InNestedLoop(i)
  /\ checkIfBeforeEntryFrontier(i)
  /\ ~ isDominatedByOtherEntry(i)

IsExit(i) ==
  /\ ~ InNestedLoop(i)
  /\ checkIfAfterExitFrontier(i)
  /\ ~ isReachableFromOtherExit(i)

\* An instruction that was visited before is dropped.
Skip ==
  /\ phase \in {"entries", "exits"} /\ queue # <<>> /\ Current \in visited
  /\ queue' = Tail(queue)
  /\ UNCHANGED <<loop, phase, visited, todo, entries, exits, iteration>>

\* Mutant: the search goes up to one predecessor of a block only.
VisitForEntry_OnePredecessor ==
  /\ phase = "entries" /\ queue # <<>> /\ Current \notin visited
  /\ visited' = visited \cup {Current}
  /\ IF IsEntry(Current)
     THEN entries' = entries \cup {Current} /\ queue' = Tail(queue)
     ELSE /\ UNCHANGED entries
          /\ \E p \in Preds(Current) : queue' = Append(Tail(queue), p)
  /\ UNCHANGED <<loop, phase, todo, exits, iteration>>

\* One step of the search for entries, up the control-flow graph.  The latch
\* comes before the header.
VisitForEntry ==
  /\ phase = "entries" /\ queue # <<>> /\ Current \notin visited
  /\ visited' = visited \cup {Current}
  /\ IF IsEntry(Current)
     THEN entries' = entries \cup {Current} /\ queue' = Tail(queue)
     ELSE /\ UNCHANGED entries
          /\ \E next \in SetToSeqs(IF Current = 1 THEN {N} ELSE Preds(Current)) :
               queue' = Tail(queue) \o next
  /\ UNCHANGED <<loop, phase, todo, exits, iteration>>

StartExits ==
  /\ phase = "entries" /\ queue = <<>>
  /\ phase' = "exits" /\ visited' = {}
  /\ queue' \in SetToSeqs(ssI)
  /\ UNCHANGED <<loop, todo, entries, exits, iteration>>

\* One step of the search for exits, down the control-flow graph.
VisitForExit ==
  /\ phase = "exits" /\ queue # <<>> /\ Current \notin visited
  /\ visited' = visited \cup {Current}
  /\ IF IsExit(Current)
     THEN exits' = exits \cup {Current} /\ queue' = Tail(queue)
     ELSE /\ UNCHANGED exits
          /\ \E next \in SetToSeqs(IF Current = N THEN {1} ELSE succ[Current]) :
               queue' = Tail(queue) \o next
  /\ UNCHANGED <<loop, phase, todo, entries, iteration>>

\* Mutant: the blocks of the function before the loop, here 0, are taken too.
StartExtension_WholeFunction ==
  /\ phase = "exits" /\ queue = <<>>
  /\ phase' = "extend" /\ visited' = {}
  /\ todo' = {0} \cup {i \in BlockStarts \ ssI : /\ checkIfBeforeEntryFrontier(i)
                                                 /\ checkIfAfterExitFrontier(i)}
  /\ UNCHANGED <<loop, queue, entries, exits, iteration>>

\* The blocks no instruction of the segment reaches or is reached from.
StartExtension ==
  /\ phase = "exits" /\ queue = <<>>
  /\ phase' = "extend" /\ visited' = {}
  /\ todo' = {i \in BlockStarts \ ssI : /\ checkIfBeforeEntryFrontier(i)
                                        /\ checkIfAfterExitFrontier(i)}
  /\ UNCHANGED <<loop, queue, entries, exits, iteration>>

\* Mutant: only the entry frontier is extended.
Extend_OnlyEntries(i) ==
  /\ phase = "extend" /\ i \in todo
  /\ todo' = todo \ {i}
  /\ entries' = IF isDominatedByOtherEntry(i) THEN entries ELSE entries \cup {i}
  /\ UNCHANGED <<loop, phase, queue, visited, exits, iteration>>

\* Mutant: only the exit frontier is extended.
Extend_OnlyExits(i) ==
  /\ phase = "extend" /\ i \in todo
  /\ todo' = todo \ {i}
  /\ exits' = IF isReachableFromOtherExit(i) THEN exits ELSE exits \cup {i}
  /\ UNCHANGED <<loop, phase, queue, visited, entries, iteration>>

\* Such a block gets an entry and an exit of its own if it needs them.
Extend(i) ==
  /\ phase = "extend" /\ i \in todo
  /\ todo' = todo \ {i}
  /\ entries' = IF isDominatedByOtherEntry(i) THEN entries ELSE entries \cup {i}
  /\ exits' = IF isReachableFromOtherExit(i) THEN exits ELSE exits \cup {i}
  /\ UNCHANGED <<loop, phase, queue, visited, iteration>>

StartIteration ==
  /\ phase = "extend" /\ todo = {}
  /\ phase' = "run"
  /\ UNCHANGED <<loop, queue, visited, todo, entries, exits, iteration>>

-----------------------------------------------------------------------------
(* The placement, and an iteration that executes it.                       *)

\* The points addSynchronizations collects for the signals: an exit, or the
\* first instructions after it when it is a conditional branch.
SignalPoints ==
  {x \in exits : ~ Conditional(x)}
    \cup UNION {succ[x] : x \in {y \in exits : Conditional(y)}}

\* The points that are the beginning of a block the wait of which has been
\* injected: the signal comes before this wait.
BeforeWait(i) == i \in entries /\ \E x \in exits : Conditional(x) /\ i \in succ[x]

\* How many signals are executed at the beginning of i, before its wait, and
\* after i.  injectSignal moves the signal of a conditional branch into the
\* blocks that follow it.
SignalsBefore(i) ==
  Cardinality({p \in Preds(i) \cap SignalPoints : Conditional(p) /\ ~ BeforeWait(p)})
    + (IF BeforeWait(i) THEN 1 ELSE 0)
SignalsAfter(i) ==
  IF i \in SignalPoints /\ ~ Conditional(i) /\ ~ (BeforeWait(i) /\ i \notin exits)
  THEN 1 ELSE 0

\* One instruction is executed, with the wait before it and the signals around
\* it; the wait is skipped when ssState is set.
Execute ==
  /\ phase = "run"
  /\ waited' = (waited \/ at \in entries)
  /\ signals' = Min({Many, signals + SignalsBefore(at) + SignalsAfter(at)})
  /\ \/ /\ at # N
        /\ at' \in succ[at]
        /\ UNCHANGED phase
     \/ /\ at = N
        /\ phase' = "done"
        /\ UNCHANGED at
  /\ UNCHANGED <<loop, queue, visited, todo, entries, exits>>

Terminated == phase = "done" /\ UNCHANGED vars

Next ==
  \/ Skip \/ VisitForEntry \/ StartExits \/ VisitForExit \/ StartExtension
  \/ \E i \in todo : Extend(i)
  \/ StartIteration \/ Execute \/ Terminated

Spec == Init /\ [][Next]_vars

-----------------------------------------------------------------------------

\* Every variable has the type of its counterpart.
TypeOK ==
  /\ succ \in [Nodes -> SUBSET Nodes] /\ ssI \in Segments
  /\ phase \in {"entries", "exits", "extend", "run", "done"}
  /\ queue \in Seq(Nodes) /\ visited \subseteq Nodes /\ todo \subseteq Nodes
  /\ entries \subseteq Nodes /\ exits \subseteq Nodes
  /\ at \in Nodes /\ waited \in BOOLEAN /\ signals \in Nat

\* An instruction of the segment is executed only after a wait of the iteration,
\* whatever order the instructions are looked at in (lines 200-250), and before
\* its first signal, which lets the next iteration into the segment (lines
\* 252-304): no path gets around the entries, and none comes back from the exits.
Protected ==
  phase = "run" /\ at \in ssI =>
    /\ waited \/ at \in entries
    /\ signals = 0 /\ SignalsBefore(at) = 0

\* No iteration ends without having waited and signalled, also when it goes
\* around the segment: otherwise every later iteration would wait for ever.
EveryPathSignals == phase = "done" => waited /\ signals > 0

\* No signal is sent before the wait of the iteration: an iteration that goes
\* around the segment cannot overtake the ones before it.
SignalWaited ==
  signals > 0 \/ (phase = "run" /\ SignalsBefore(at) > 0) => waited

\* The comments at lines 185-188 and 321-322: an iteration does not signal more
\* than once.
OneSignal == signals <= 1
=============================================================================
