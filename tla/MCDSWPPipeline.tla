--------------------------- MODULE MCDSWPPipeline ---------------------------
(* Every loop of N SCCs.                                                   *)
EXTENDS DSWPPipeline

Branches == {b \in SUBSET SCCs : 1 \in b}

Parents(br) == {p \in [SCCs -> br] : p[1] = 1 /\ \A n \in 2 .. N : p[n] < n}

Conds(br) == {c \in [SCCs -> SCCs] :
                \A n \in SCCs : c[n] <= n /\ (n \notin br \/ n = 1 => c[n] = n)}

\* SCC 1 controls all the others; only the last one also uses a value of it.
Pairs == {e \in SCCs \X SCCs : e[1] < e[2] /\ (e[1] = 1 => e[2] = N)}

Shapes(br) ==
  {l \in {[kind |-> [n \in SCCs |-> "sequential"], branch |-> br, parent |-> p,
           cond |-> c, data |-> Pairs] : p \in Parents(br), c \in Conds(br)} :
   WellFormed(l)}

\* The SCCs in k can be cloned; the last one, on which nothing depends, only
\* if it is a compare or a branch.
Kind(br, k) == [n \in SCCs |-> IF n \notin k THEN "sequential"
                               ELSE IF n \in br \cup {N} THEN "terminators" ELSE "stateless"]

AllLoops ==
  {m \in UNION {{[l EXCEPT !.kind = Kind(br, k),
                    !.data = d \cup {<<l.cond[n], n>> : n \in {m \in br : l.cond[m] # m}}] :
            l \in Shapes(br), k \in SUBSET (2 .. N), d \in SUBSET Pairs} :
         br \in Branches} : WellFormed(m)}

SendableLoops == {l \in AllLoops : SendableConditions(l)}
=============================================================================
