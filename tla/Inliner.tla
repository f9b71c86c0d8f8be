------------------------------- MODULE Inliner -------------------------------
(***************************************************************************)
(* The inliner (inliner/src), which gino-inline runs on a program until    *)
(* the program does not change any more.  A pass orders the functions by   *)
(* their depth in the call graph, inlines calls that are involved in       *)
(* loop-carried dependences and, if it found none and the user wants it,   *)
(* inlines functions with loops towards main.  A pass inlines at most one  *)
(* call per function and keeps its tables about the call graph up to date  *)
(* itself; what is left to hoist is kept in a file between two passes, as  *)
(* indices into the order of the functions.                                *)
(*                                                                         *)
(* A function is the sequence of its calls of functions with a body, the   *)
(* number of its loops and its size.  A call remembers the functions whose *)
(* copies it is in ("via"); the program has no such thing.                 *)
(***************************************************************************)
EXTENDS Integers, FiniteSets, SequencesExt

CONSTANTS
  N,                      \* functions
  Programs,
  maxProgramInstructions, \* 50000
  MaxFunctionInstructions \* 1000

Fns == 1 .. N
main == 1
NoFn == 0
NoFile == {-1}

ASSUME InlinerAssumption ==
  /\ N \in Nat \ {0}
  /\ maxProgramInstructions \in Nat /\ MaxFunctionInstructions \in Nat
  /\ \A p \in Programs : /\ p.calls \in [Fns -> Seq(Fns)] /\ p.opaque \subseteq Fns
                         /\ p.loops \in [Fns -> [hot : Nat, cold : Nat]]
                         /\ p.size \in [Fns -> Nat]

VARIABLES
  calls, loops, size,        \* the program
  opaque,                    \* functions LLVM's InlineFunction refuses
  hoist,                     \* the option shouldLoopsBeHoistToMain
  before,                    \* the calls when the pass started
  file,                      \* dgsimplify_loop_hoisting.txt
  stage,                     \* "start", "carried", "hoist", "exit", "done" or
                             \* "assertFailed"
  result,                    \* what runOnModule returned
  orderedCalled, parentFns, preOrderedLoops,
  depthOrderedFns, recursiveChainEntranceFns,
  fnsAffected, fnsToCheck,
  orderedFns, fnIndex, fnsToAvoid, fnsWillCheck, inlined,
  childF, parents, inlinedInParents

options == <<opaque, hoist>>
program == <<calls, loops, size>>
graph == <<orderedCalled, parentFns, preOrderedLoops>>
orders == <<depthOrderedFns, recursiveChainEntranceFns>>
walk == <<orderedFns, fnIndex, fnsToAvoid, fnsWillCheck>>
current == <<childF, parents, inlinedInParents>>
vars == <<options, program, before, file, stage, result, graph, orders,
          fnsAffected, fnsToCheck, walk, inlined, current>>

-----------------------------------------------------------------------------
(* The call graph and the order of the functions.                          *)

Callees(p) == [f \in Fns |-> [i \in DOMAIN p[f] |-> p[f][i].callee]]

\* The functions that can be reached from a set of functions: the least set with
\* these that is closed under calls.
Closed(called, fns) == \A f \in fns : ToSet(called[f]) \subseteq fns

Closure(called, fns) ==
  {f \in Fns : \A S \in SUBSET Fns : fns \subseteq S /\ Closed(called, S) => f \in S}

ReachedFrom(called, f) == Closure(called, ToSet(called[f]))
ProgramFns(called) == Closure(called, {main})

\* collectFnGraph: only functions that main reaches have entries.
CollectedCalled(called) ==
  LET reached == ProgramFns(called)
  IN  [f \in Fns |-> IF f \in reached THEN called[f] ELSE <<>>]

CollectedParents(called) ==
  LET collected == CollectedCalled(called)
  IN  [f \in Fns |-> {g \in Fns : f \in ToSet(collected[g])}]

\* The state of collectInDepthOrderFns: "func" is the function whose children are
\* visited, "child" the next of them, "left" what is left of the functions that
\* had been deferred.
OrderingStates ==
  [order : Seq(Fns), queue : Seq(Fns), func : Fns, child : Nat \ {0},
   deferred : Seq(Fns), left : Seq(Fns), entrances : SUBSET Fns]

\* main has been ordered and taken from the queue.
OnlyMainOrdered ==
  [order |-> <<main>>, queue |-> <<>>, func |-> main, child |-> 1,
   deferred |-> <<>>, left |-> <<>>, entrances |-> {}]

AddToOrder(s, f) == [s EXCEPT !.order = Append(@, f), !.queue = Append(@, f)]

\* Mutant: one parent with an order is enough.
OrderChild_AnyParent(called, parentsOf, s) ==
  LET f == called[s.func][s.child]
      t == [s EXCEPT !.child = @ + 1]
  IN  IF f \in ToSet(s.order) THEN t ELSE AddToOrder(t, f)

\* A child is ordered once all its parents are, or else deferred.  The children
\* of a function are what it calls, each at its first call only.
OrderChild(called, parentsOf, s) ==
  LET f == called[s.func][s.child]
      t == [s EXCEPT !.child = @ + 1]
  IN  IF f \in ToSet(s.order) \/ \E i \in 1 .. s.child - 1 : called[s.func][i] = f THEN t
      ELSE IF parentsOf[f] \subseteq ToSet(s.order) THEN AddToOrder(t, f)
      ELSE [t EXCEPT !.deferred = Append(@, f)]

\* What was deferred and has no order yet is taken for the entrance of a
\* recursive chain.  (These remain deferred in the code, which then skips them.)
OrderDeferred(s) ==
  LET f == Head(s.left)
      t == [s EXCEPT !.left = Tail(@)]
  IN  IF f \in ToSet(s.order) THEN t
      ELSE AddToOrder([t EXCEPT !.entrances = @ \cup {f}], f)

ChildrenVisited(called, s) == s.child > Len(called[s.func])

Ordered(called, s) ==
  /\ ChildrenVisited(called, s)
  /\ s.queue = <<>> /\ s.deferred = <<>> /\ s.left = <<>>

\* What was deferred waits until there is nothing else to traverse.
OrderingStep(called, parentsOf, s) ==
  IF ~ChildrenVisited(called, s) THEN OrderChild(called, parentsOf, s)
  ELSE IF s.left # <<>> THEN OrderDeferred(s)
  ELSE IF s.queue # <<>>
       THEN [s EXCEPT !.queue = Tail(@), !.func = Head(s.queue), !.child = 1]
  ELSE [s EXCEPT !.left = s.deferred, !.deferred = <<>>]

DepthOrder(called, parentsOf) ==
  LET Traverse[s \in OrderingStates] ==
        IF Ordered(called, s) THEN s ELSE Traverse[OrderingStep(called, parentsOf, s)]
  IN  Traverse[OnlyMainOrdered]

collectInDepthOrderFns(called) ==
  DepthOrder(CollectedCalled(called), CollectedParents(called))

\* fnOrders; a function without an order gets zero from the map.
OrderIn(order, f) ==
  IF f \in ToSet(order) THEN (CHOOSE i \in DOMAIN order : order[i] = f) - 1 ELSE 0

fnOrders(f) == OrderIn(depthOrderedFns, f)

\* The deepest first.
sortInDepthOrderFns(fns, order) ==
  [i \in 1 .. Cardinality(fns) |->
     CHOOSE f \in fns :
       Cardinality({g \in fns : OrderIn(order, g) > OrderIn(order, f)}) = i - 1]

-----------------------------------------------------------------------------

Init ==
  /\ \E p \in Programs :
       /\ calls = [f \in Fns |-> [i \in DOMAIN p.calls[f] |->
                                    [callee |-> p.calls[f][i], via |-> <<>>]]]
       /\ loops = p.loops
       /\ size = p.size
       /\ opaque = p.opaque
  /\ hoist \in BOOLEAN
  /\ before = calls
  /\ file = NoFile
  /\ stage = "start"
  /\ result = FALSE
  /\ orderedCalled = [f \in Fns |-> <<>>]
  /\ parentFns = [f \in Fns |-> {}]
  /\ preOrderedLoops = [f \in Fns |-> 0]
  /\ depthOrderedFns = <<>>
  /\ recursiveChainEntranceFns = {}
  /\ fnsAffected = {}
  /\ fnsToCheck = {}
  /\ orderedFns = <<>>
  /\ fnIndex = 1
  /\ fnsToAvoid = {}
  /\ fnsWillCheck = {}
  /\ inlined = FALSE
  /\ childF = NoFn
  /\ parents = {}
  /\ inlinedInParents = TRUE

\* The functions with hot loops, deepest first.
getLoopsToInline(order) ==
  sortInDepthOrderFns({f \in ToSet(order) : loops[f].hot > 0}, order)

\* How many loops each ordered function has; the order of the loops within a
\* function is only printed.
createPreOrderedLoopSummariesFor(order) ==
  [f \in Fns |-> IF f \in ToSet(order) THEN loops[f].hot + loops[f].cold ELSE 0]

numberOfProgramInstructions(sizes) == FoldFunction(+, 0, sizes)
TooBig == numberOfProgramInstructions(size) >= maxProgramInstructions

\* runOnModule up to the first walk, over the functions with hot loops.
runOnModule ==
  LET called == Callees(calls)
      ordered == collectInDepthOrderFns(called)
  IN  /\ stage = "start"
      /\ IF TooBig
         THEN /\ stage' = "exit"
              /\ result' = FALSE
              /\ UNCHANGED <<graph, orders, orderedFns>>
         ELSE /\ stage' = "carried"
              /\ orderedCalled' = CollectedCalled(called)
              /\ parentFns' = CollectedParents(called)
              /\ depthOrderedFns' = ordered.order
              /\ recursiveChainEntranceFns' = ordered.entrances
              /\ preOrderedLoops' = createPreOrderedLoopSummariesFor(ordered.order)
              /\ orderedFns' = getLoopsToInline(ordered.order)
              /\ UNCHANGED result
      /\ UNCHANGED <<options, program, before, file, fnsAffected, fnsToCheck,
                     fnIndex, fnsToAvoid, fnsWillCheck, inlined, current>>

-----------------------------------------------------------------------------
(* Inlining one call.                                                      *)

\* Mutant: calls of entrances of recursive chains are inlined.
canInlineWithoutRecursiveLoop_Always(child) == TRUE

canInlineWithoutRecursiveLoop(child) == child \notin recursiveChainEntranceFns

\* inlineFunctionCall succeeds.
CanInline(f, child) ==
  /\ f \notin fnsAffected
  /\ canInlineWithoutRecursiveLoop(child)
  /\ size[f] <= MaxFunctionInstructions
  /\ child \notin opaque

Splice(s, i, t) == SubSeq(s, 1, i - 1) \o t \o SubSeq(s, i + 1, Len(s))

\* LLVM's InlineFunction.
InlineFunction(f, i) ==
  LET call == calls[f][i]
      child == call.callee
      copy == [k \in DOMAIN calls[child] |->
                 [callee |-> calls[child][k].callee,
                  via |-> call.via \o <<child>> \o calls[child][k].via]]
  IN  /\ calls' = [calls EXCEPT ![f] = Splice(@, i, copy)]
      /\ size' = [size EXCEPT ![f] = @ + size[child]]
      /\ loops' = [loops EXCEPT ![f] = [hot |-> @.hot + loops[child].hot,
                                        cold |-> @.cold + loops[child].cold]]

adjustLoopOrdersAfterInline(f, child) ==
  preOrderedLoops' = [preOrderedLoops EXCEPT ![f] = @ + preOrderedLoops[child]]

\* Mutant: the inlined call stays in the list of the parent's calls.
adjustFnGraphAfterInline_KeepsTheCall(f, child, callInd) ==
  LET called == Splice(orderedCalled[f], callInd, <<child>> \o orderedCalled[child])
  IN  /\ orderedCalled' = [orderedCalled EXCEPT ![f] = called]
      /\ parentFns' = [g \in Fns |-> IF g \in ToSet(called) THEN parentFns[g] \cup {f}
                                     ELSE parentFns[g]]

\* The call is replaced by the calls of the child in the list of the parent.  A caller
\* that main does not reach any more keeps its entries: it stays a parent without ever
\* getting an order again.  NOTE(joe) at Inliner.cpp:528 says of this that the "number
\* [is] out between successive iterations"; see TablesMatchTheProgram for what the
\* adjusted tables are good for, and OrderAfterHoisting for how numbers are computed.
adjustFnGraphAfterInline(f, child, callInd) ==
  LET called == Splice(orderedCalled[f], callInd, orderedCalled[child])
  IN  /\ orderedCalled' = [orderedCalled EXCEPT ![f] = called]
      /\ parentFns' = [g \in Fns |-> IF g \in ToSet(called) THEN parentFns[g] \cup {f}
                                     ELSE IF g = child THEN parentFns[g] \ {f}
                                     ELSE parentFns[g]]

inlineFunctionCall(f, i) ==
  LET child == calls[f][i].callee
  IN  /\ CanInline(f, child)
      /\ InlineFunction(f, i)
      /\ fnsAffected' = fnsAffected \cup {f}
      /\ adjustLoopOrdersAfterInline(f, child)
      /\ adjustFnGraphAfterInline(f, child, i)
      /\ inlined' = TRUE

-----------------------------------------------------------------------------
(* Calls involved in loop-carried dependences.                             *)

\* The calls of a function that may be inlined for the sake of its hot loops.
\* Which of them are in a sequential SCC of a loop, and which of these has most
\* memory dependences, is up to NOELLE's analyses.
CallsInSequentialSCCs(f) ==
  {i \in DOMAIN calls[f] :
     LET callee == calls[f][i].callee IN
     /\ callee # f
     /\ fnOrders(callee) >= fnOrders(f)
     /\ callee \notin ReachedFrom(Callees(before), callee)
     /\ loops[callee].hot + loops[callee].cold = 0}

\* A function that is avoided makes its parents avoided, too.
AvoidFunction ==
  /\ stage = "carried" /\ fnIndex <= Len(orderedFns)
  /\ orderedFns[fnIndex] \in fnsToAvoid
  /\ fnsToAvoid' = fnsToAvoid \cup parentFns[orderedFns[fnIndex]]
  /\ fnIndex' = fnIndex + 1
  /\ UNCHANGED <<options, program, before, file, stage, result, graph, orders,
                 fnsAffected, fnsToCheck, orderedFns, fnsWillCheck, inlined, current>>

\* A call of one of the loops is inlined; the function is not finished.
inlineCallsInvolvedInLoopCarriedDataDependences ==
  LET f == orderedFns[fnIndex] IN
  /\ stage = "carried" /\ fnIndex <= Len(orderedFns)
  /\ f \notin fnsToAvoid
  /\ \E i \in CallsInSequentialSCCs(f) : inlineFunctionCall(f, i)
  /\ fnsToAvoid' = fnsToAvoid \cup parentFns'[f]
  /\ fnIndex' = fnIndex + 1
  /\ UNCHANGED <<options, before, file, stage, result, orders, fnsToCheck,
                 orderedFns, fnsWillCheck, current>>

\* No loop has such a call, or too many, or it cannot be inlined.
NothingToInline ==
  /\ stage = "carried" /\ fnIndex <= Len(orderedFns)
  /\ orderedFns[fnIndex] \notin fnsToAvoid
  /\ fnIndex' = fnIndex + 1
  /\ UNCHANGED <<options, program, before, file, stage, result, graph, orders,
                 fnsAffected, fnsToCheck, orderedFns, fnsToAvoid, fnsWillCheck,
                 inlined, current>>

\* The pass is over if it inlined, or if loops shall not be hoisted.
CarriedExit ==
  /\ stage = "carried" /\ fnIndex > Len(orderedFns)
  /\ inlined \/ ~hoist
  /\ stage' = "exit"
  /\ result' = inlined
  /\ UNCHANGED <<options, program, before, file, graph, orders, fnsAffected,
                 fnsToCheck, walk, inlined, current>>

-----------------------------------------------------------------------------
(* Hoisting functions with loops to main.                                  *)

\* The functions come from the file, or are all functions with loops.
getFunctionsToInline ==
  LET fns == IF file = NoFile THEN {f \in Fns : preOrderedLoops[f] > 0}
             ELSE {depthOrderedFns[i + 1] : i \in file}
  IN  /\ stage = "carried" /\ fnIndex > Len(orderedFns)
      /\ ~inlined /\ hoist
      /\ file # NoFile => \A i \in file : i \in 1 .. Len(depthOrderedFns) - 1
      /\ fnsToCheck' = fns
      /\ orderedFns' = sortInDepthOrderFns(fns, depthOrderedFns)
      /\ fnsWillCheck' = fns
      /\ fnsToAvoid' = {}
      /\ fnIndex' = 1
      /\ stage' = "hoist"
      /\ UNCHANGED <<options, program, before, file, result, graph, orders,
                     fnsAffected, inlined, current>>

\* An index of the file is not one of the order: the assertion fails.
IndexOutOfRange ==
  /\ stage = "carried" /\ fnIndex > Len(orderedFns)
  /\ ~inlined /\ hoist /\ file # NoFile
  /\ \E i \in file : i \notin 1 .. Len(depthOrderedFns) - 1
  /\ stage' = "assertFailed"
  /\ UNCHANGED <<options, program, before, file, result, graph, orders,
                 fnsAffected, fnsToCheck, walk, inlined, current>>

\* The next function to inline into its parents.
TakeChild ==
  LET f == orderedFns[fnIndex] IN
  /\ stage = "hoist" /\ childF = NoFn /\ fnIndex <= Len(orderedFns)
  /\ fnIndex' = fnIndex + 1
  /\ IF f \in fnsToAvoid
     THEN /\ fnsToAvoid' = fnsToAvoid \cup parentFns[f]
          /\ UNCHANGED current
     ELSE /\ childF' = f
          /\ parents' = parentFns[f]
          /\ inlinedInParents' = TRUE
          /\ UNCHANGED fnsToAvoid
  /\ UNCHANGED <<options, program, before, file, stage, result, graph, orders,
                 fnsAffected, fnsToCheck, orderedFns, fnsWillCheck, inlined>>

\* The parents a function is not inlined into.
Skipped(parentF) ==
  \/ parentF \in fnsAffected
  \/ ~canInlineWithoutRecursiveLoop(childF)
  \/ parentF = childF
  \/ fnOrders(parentF) > fnOrders(childF)

SkipParent(parentF) ==
  /\ stage = "hoist" /\ childF # NoFn /\ parentF \in parents
  /\ Skipped(parentF)
  /\ parents' = parents \ {parentF}
  /\ UNCHANGED <<options, program, before, file, stage, result, graph, orders,
                 fnsAffected, fnsToCheck, walk, inlined, childF, inlinedInParents>>

\* One of the calls is inlined, in the order of their addresses.  The parent is
\* inserted in front of the functions already taken, so that the child is taken
\* again and the parent is not.
InlineIntoParent(parentF) ==
  /\ stage = "hoist" /\ childF # NoFn /\ parentF \in parents
  /\ ~Skipped(parentF)
  /\ \E i \in DOMAIN calls[parentF] :
       calls[parentF][i].callee = childF /\ inlineFunctionCall(parentF, i)
  /\ parents' = parents \ {parentF}
  /\ IF parentF \in fnsWillCheck THEN UNCHANGED <<fnsWillCheck, orderedFns>>
     ELSE /\ fnsWillCheck' = fnsWillCheck \cup {parentF}
          /\ orderedFns' = <<parentF>> \o orderedFns
  /\ UNCHANGED <<options, before, file, stage, result, orders, fnsToCheck,
                 fnIndex, fnsToAvoid, childF, inlinedInParents>>

\* No call could be inlined.
AvoidParent(parentF) ==
  /\ stage = "hoist" /\ childF # NoFn /\ parentF \in parents
  /\ ~Skipped(parentF) /\ ~CanInline(parentF, childF)
  /\ fnsToAvoid' = fnsToAvoid \cup {parentF}
  /\ inlinedInParents' = FALSE
  /\ parents' = parents \ {parentF}
  /\ UNCHANGED <<options, program, before, file, stage, result, graph, orders,
                 fnsAffected, fnsToCheck, orderedFns, fnIndex, fnsWillCheck,
                 inlined, childF>>

LeaveChild ==
  /\ stage = "hoist" /\ childF # NoFn /\ parents = {}
  /\ fnsToCheck' = IF inlinedInParents THEN fnsToCheck \ {childF} ELSE fnsToCheck
  /\ childF' = NoFn
  /\ UNCHANGED <<options, program, before, file, stage, result, graph, orders,
                 fnsAffected, walk, inlined, parents, inlinedInParents>>

\* The indices of the functions that are left.
Remaining(fns, order) == {OrderIn(order, f) : f \in fns} \ {0}

\* Mutant: an empty file is left behind.
RegisteredFile_Empty(remaining) == remaining

RegisteredFile(remaining) == IF fnsToCheck = {} THEN NoFile ELSE remaining

\* Mutant: the functions are ordered by the adjusted tables.  A parent that is not
\* reached never gets an order, so that its callees pass for entrances and come later
\* than in the next pass.
OrderAfterHoisting_ByAdjustedTables ==
  IF inlined THEN DepthOrder(orderedCalled, parentFns)
  ELSE [order |-> depthOrderedFns, entrances |-> recursiveChainEntranceFns]

\* Function graph and order are collected anew from the program, from empty tables.
OrderAfterHoisting ==
  IF inlined THEN collectInDepthOrderFns(Callees(calls))
  ELSE [order |-> depthOrderedFns, entrances |-> recursiveChainEntranceFns]

\* The tables are computed again if there was any inlining, and the remaining
\* functions are registered.  Without any the file is only removed.
registerRemainingFunctions ==
  LET after == OrderAfterHoisting
      remaining == Remaining(fnsToCheck, after.order)
  IN  /\ stage = "hoist" /\ childF = NoFn /\ fnIndex > Len(orderedFns)
      /\ IF inlined THEN /\ orderedCalled' = CollectedCalled(Callees(calls))
                         /\ parentFns' = CollectedParents(Callees(calls))
         ELSE UNCHANGED <<orderedCalled, parentFns>>
      /\ depthOrderedFns' = after.order
      /\ recursiveChainEntranceFns' = after.entrances
      /\ file' = RegisteredFile(remaining)
      /\ stage' = "exit"
      /\ result' = inlined
      /\ UNCHANGED <<options, program, before, preOrderedLoops, fnsAffected,
                     fnsToCheck, walk, inlined, current>>

-----------------------------------------------------------------------------
(* gino-inline.                                                            *)

\* noelle-fixedpoint runs the pass again on the program it wrote.
RunAgain ==
  /\ stage = "exit" /\ calls # before
  /\ before' = calls
  /\ stage' = "start"
  /\ result' = FALSE
  /\ orderedCalled' = [f \in Fns |-> <<>>]
  /\ parentFns' = [f \in Fns |-> {}]
  /\ preOrderedLoops' = [f \in Fns |-> 0]
  /\ depthOrderedFns' = <<>>
  /\ recursiveChainEntranceFns' = {}
  /\ fnsAffected' = {} /\ fnsToCheck' = {}
  /\ orderedFns' = <<>> /\ fnIndex' = 1
  /\ fnsToAvoid' = {} /\ fnsWillCheck' = {}
  /\ inlined' = FALSE
  /\ parents' = {} /\ inlinedInParents' = TRUE
  /\ UNCHANGED <<options, program, file, childF>>

FixedPoint ==
  /\ stage = "exit" /\ calls = before
  /\ stage' = "done"
  /\ UNCHANGED <<options, program, before, file, result, graph, orders,
                 fnsAffected, fnsToCheck, walk, inlined, current>>

Terminated == stage \in {"done", "assertFailed"} /\ UNCHANGED vars

Next ==
  \/ runOnModule
  \/ AvoidFunction
  \/ inlineCallsInvolvedInLoopCarriedDataDependences
  \/ NothingToInline
  \/ CarriedExit
  \/ getFunctionsToInline
  \/ IndexOutOfRange
  \/ TakeChild
  \/ \E parentF \in Fns :
       SkipParent(parentF) \/ InlineIntoParent(parentF) \/ AvoidParent(parentF)
  \/ LeaveChild
  \/ registerRemainingFunctions
  \/ RunAgain
  \/ FixedPoint
  \/ Terminated

Spec == Init /\ [][Next]_vars

-----------------------------------------------------------------------------
(* Properties.                                                             *)

\* The types of the tables; the file never names main or a function that is not
\* in the order, both of which have the order zero.
TypeOK ==
  /\ \A f \in Fns : \A i \in DOMAIN calls[f] :
       calls[f][i].callee \in Fns /\ ToSet(calls[f][i].via) \subseteq Fns
  /\ file = NoFile \/ file \subseteq 1 .. N - 1
  /\ stage \in {"start", "carried", "hoist", "exit", "done", "assertFailed"}
  /\ parentFns \in [Fns -> SUBSET Fns]
  /\ ToSet(depthOrderedFns) \subseteq Fns
  /\ fnsAffected \subseteq Fns /\ fnsToCheck \subseteq Fns
  /\ fnIndex \in 1 .. Len(orderedFns) + 1
  /\ childF \in Fns \cup {NoFn} /\ parents \subseteq Fns

InPass == stage \in {"carried", "hoist"}
Collected == IF InPass THEN ToSet(depthOrderedFns) ELSE {}

\* After every inlining, the tables that are adjusted step by step describe the
\* program: its calls in program order, the callers and the loops of each
\* function.  What is inlined next is found through these tables.  They are not what
\* collectFnGraph would collect from the changed program, as NOTE(joe) at
\* Inliner.cpp:528 says: callers that main does not reach any more are still there.
\* But without these, what the tables have of the functions that main reaches is
\* exactly that.
TablesMatchTheProgram ==
  LET called == Callees(calls)
      reached == ProgramFns(called)
  IN
  /\ TypeOK
  /\ InPass => \A f \in reached : /\ orderedCalled[f] = CollectedCalled(called)[f]
                                 /\ parentFns[f] \cap reached = CollectedParents(called)[f]
  /\ \A f \in Collected :
       /\ orderedCalled[f] = called[f]
       /\ parentFns[f] = {g \in Collected : f \in ToSet(called[g])}
       /\ preOrderedLoops[f] = loops[f].hot + loops[f].cold

\* Every function that main reaches has exactly one place in the order, and
\* comes after all functions that call it unless it is main or taken for the
\* entrance of a recursive chain.  This stays true while calls are inlined.
DepthOrderIsTopological ==
  InPass =>
    /\ ProgramFns(Callees(calls)) \subseteq ToSet(depthOrderedFns)
    /\ IsInjective(depthOrderedFns)
    /\ \A f \in Collected \ (recursiveChainEntranceFns \cup {main}) :
         \A g \in parentFns[f] : fnOrders(g) < fnOrders(f)

\* No function is ever inlined into a copy of itself: neither pass after pass
\* along a recursive chain nor into its own body.  So the passes come to an end
\* whatever the size limits are.
RecursionNotUnrolled ==
  \A f \in Fns : \A i \in DOMAIN calls[f] :
    IsInjective(calls[f][i].via) /\ f \notin ToSet(calls[f][i].via)

\* The indices that registerRemainingFunctions leaves in the file are those of the
\* functions left to hoist in the order that the next pass will compute from the
\* program: for these the numbers are not "out between successive iterations"
\* (NOTE(joe), Inliner.cpp:528).  A pass that only inlines for loop-carried
\* dependences (fnsToCheck is empty) leaves the file as it was, and of that file
\* nothing is claimed.
FileNamesTheRemaining ==
  stage = "exit" /\ fnsToCheck # {} =>
    {collectInDepthOrderFns(Callees(calls)).order[i + 1] : i \in file}
      = (fnsToCheck \ {main}) \cap ProgramFns(Callees(calls))

\* When the passes are over and nothing stood in their way (the program is not too
\* big, and has no function that is too big or that LLVM refuses), every loop that
\* could be hoisted is in main: what main still reaches has no loops, or is taken
\* for the entrance of a recursive chain.  The functions a pass drops too early,
\* since it inlines one call per function only, are found again by a later one.
HoistingIsComplete ==
  LET reached == ProgramFns(Callees(calls))
  IN  /\ stage = "done" /\ hoist /\ ~TooBig
      /\ \A f \in reached : f \notin opaque /\ size[f] <= MaxFunctionInstructions
      => \A f \in reached \ {main} :
           \/ loops[f].hot + loops[f].cold = 0
           \/ f \in recursiveChainEntranceFns
=============================================================================
