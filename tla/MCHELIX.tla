------------------------------- MODULE MCHELIX -------------------------------
\* TLC instances of the HELIX execution model.
EXTENDS HELIX

\* Trip counts below, at and above one and two rounds of three cores.
MCTripCounts == 0 .. 5

\* A loop governed by an induction variable, and one whose preamble is a segment
\* in the middle of the order in which the exit block waits.
MCPreambleChoices == {NoPreamble, 1}
=============================================================================
