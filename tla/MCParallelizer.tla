--------------------------- MODULE MCParallelizer ---------------------------
(* Every nest of N loops, with loops of a few kinds.  The profile of a     *)
(* program follows from the kinds: a nested loop is invoked once in every  *)
(* iteration of its parent, and its instructions are its parent's, too.    *)
(* The SCC with the state of a "sequential" loop goes through its nested   *)
(* loops: only one instruction per iteration is outside.                   *)
EXTENDS Parallelizer

Nests == {p \in [Loops -> 0 .. N - 1] : \A l \in Loops : p[l] < l}

\* Iterations per invocation, and instructions of its own per iteration.
Kinds == {"doall", "sequential", "short", "dead"}
Trip == [doall |-> 3, sequential |-> 2, short |-> 1, dead |-> 0]
Own == [doall |-> 1, sequential |-> 2, short |-> 1, dead |-> 1]

Profile(nest, kinds) ==
  LET iterations[l \in Loops] ==
        Trip[kinds[l]] * (IF nest[l] = NoParent THEN 1 ELSE iterations[nest[l]])
      insts[l \in Loops] ==
        Own[kinds[l]] * iterations[l]
          + MapThenSumSet(LAMBDA c : insts[c], {c \in Loops : nest[c] = l})
      own(l) == Own[kinds[l]] * iterations[l]
      spanning(l) == IF kinds[l] = "sequential" THEN insts[l] - iterations[l] ELSE own(l)
      isDOALL(l) == kinds[l] = "doall"
      hasState(l) == kinds[l] \in {"sequential", "dead"}
  IN  [l \in Loops |->
        [parent |-> nest[l],
         invocations |-> IF nest[l] = NoParent THEN 1 ELSE iterations[nest[l]],
         iterations |-> iterations[l], insts |-> insts[l],
         exits |-> IF isDOALL(l) THEN 2 ELSE 1,
         exitCalls |-> IF isDOALL(l) THEN 1 ELSE 0,
         invokes |-> kinds[l] = "dead", liveOutsToSync |-> kinds[l] = "short",
         sccs |-> {[kind |-> IF hasState(l) THEN "unknown" ELSE "handled",
                    insts |-> spanning(l), size |-> 2, disjoint |-> FALSE,
                    clonable |-> ~hasState(l)],
                   [kind |-> "handled", insts |-> insts[l] - spanning(l), size |-> 1,
                    disjoint |-> FALSE, clonable |-> TRUE]},
         governingIV |-> TRUE, invariantSteps |-> TRUE, invariantBound |-> TRUE]]

MCPrograms == {Profile(nest, kinds) : nest \in Nests, kinds \in [Loops -> Kinds]}

MCLoopLists == {[white |-> {}, black |-> {}], [white |-> {1, 2}, black |-> {1}],
                [white |-> {}, black |-> {0}]}

MCEnablings == {{"DOALL", "HELIX", "DSWP"}, {"DSWP"}}
=============================================================================
