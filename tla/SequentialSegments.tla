------------------------- MODULE SequentialSegments -------------------------
(***************************************************************************)
(* What HELIX promises of the sequential segments of a loop, whatever the  *)
(* number of cores: each segment is executed by the iterations 0, 1, 2, ...*)
(* one at a time and in this order, by every iteration up to the last one, *)
(* and by no other.  Different segments do not constrain each other.       *)
(***************************************************************************)
EXTENDS Naturals

CONSTANT Segments

VARIABLES
  lastIteration, \* the iteration that leaves the loop
  turn,          \* turn[s]: the next iteration that completes segment s
  inside         \* inside[s]: the iterations that execute segment s

vars == <<lastIteration, turn, inside>>

Init ==
  /\ lastIteration \in Nat
  /\ turn = [s \in Segments |-> 0]
  /\ inside = [s \in Segments |-> {}]

Enter(s) ==
  /\ inside[s] = {} /\ turn[s] <= lastIteration
  /\ inside' = [inside EXCEPT ![s] = {turn[s]}]
  /\ UNCHANGED <<lastIteration, turn>>

Leave(s) ==
  /\ inside[s] = {turn[s]}
  /\ inside' = [inside EXCEPT ![s] = {}]
  /\ turn' = [turn EXCEPT ![s] = @ + 1]
  /\ UNCHANGED lastIteration

Next == \E s \in Segments : Enter(s) \/ Leave(s)

Spec == Init /\ [][Next]_vars

\* Every segment of every iteration is executed.
FairSpec == Spec /\ WF_vars(Next)
=============================================================================
