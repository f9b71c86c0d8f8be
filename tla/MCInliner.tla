------------------------------ MODULE MCInliner ------------------------------
(* Programs of N functions: main calls any two functions, the second       *)
(* function, too, and the others one; calls may be recursive.              *)
EXTENDS Inliner

Sequences(k) == UNION {[1 .. n -> 2 .. N] : n \in 0 .. k}

MCCalls == {c \in [Fns -> Sequences(2)] :
              /\ \A f \in 3 .. N : Len(c[f]) <= 1
              /\ ProgramFns(c) = Fns}

\* Which functions have loops, which are too big or refused by LLVM.
Hot == [hot |-> 1, cold |-> 0]
Cold == [hot |-> 0, cold |-> 1]
None == [hot |-> 0, cold |-> 0]

MCLoops == {<<None, None, Hot, Cold>>, <<Hot, Hot, None, Cold>>}

MCPrograms ==
  {[calls |-> c, loops |-> l, size |-> [f \in Fns |-> IF f = a.big THEN 40 ELSE 1],
    opaque |-> a.opaque] :
     c \in MCCalls, l \in MCLoops,
     a \in {[big |-> 0, opaque |-> {}], [big |-> 2, opaque |-> {3}]}}
=============================================================================
