--------------------------- MODULE MCNoelleRuntime ---------------------------
\* TLC instance of the core accounting: a 4-core machine, three calls that
\* race for it, and uint32_t shrunk to 8 bits.
EXTENDS NoelleRuntime

CONSTANTS c1, c2, c3

MCCalls == {c1, c2, c3}
MCRequests == {2, 4}
=============================================================================
