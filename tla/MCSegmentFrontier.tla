-------------------------- MODULE MCSegmentFrontier --------------------------
\* TLC instances of the placement of waits and signals.
EXTENDS SegmentFrontier

MCSegments == {s \in SUBSET Nodes : Cardinality(s) \in {1, 2}}
=============================================================================
