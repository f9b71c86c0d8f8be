-------------------------- MODULE MCDOALLDispatcher --------------------------
\* TLC instance of the DOALL dispatcher.
EXTENDS DOALLDispatcher, TLC

CONSTANTS call1, call2, call3, call4, call5, call6

\* Two application threads make call1 and call2, one after the other or at
\* once.  The body of call2 makes call3, whose body makes call4, and so on:
\* blocks are recycled between threads and between levels, and without the
\* guard the chain of joins would be longer than there are workers.
MCCalls == {call1, call2, call3, call4, call5, call6}
MCParent == (call1 :> Main) @@ (call2 :> Main) @@ (call3 :> call2)
            @@ (call4 :> call3) @@ (call5 :> call4) @@ (call6 :> call5)
MCIteration == [c \in MCCalls |-> 0]
MCCores == [c \in MCCalls |-> IF c = call1 THEN 3 ELSE 2]
=============================================================================
