--------------------------- MODULE MCDOALLChunking ---------------------------
\* TLC instances of the chunked DOALL loop.
EXTENDS DOALLChunking

MCChunkSizes == {1, 2, 3}
MCTripCounts == 0 .. 8
=============================================================================
