------------------------------- MODULE MCDSWP -------------------------------
EXTENDS DSWP, MCDSWPPipeline

Loop(kind, branch, parent, cond, data) ==
  [kind |-> kind, branch |-> branch, parent |-> parent, cond |-> cond,
   data |-> data]

seq == "sequential"

SampleLoops ==
  {\* a chain without branches
   Loop(<<seq, seq, seq, seq>>, {1}, <<1, 1, 1, 1>>, <<1, 2, 3, 4>>,
        {<<1, 2>>, <<2, 3>>, <<2, 4>>, <<3, 4>>}),
   \* the stage of branch 3 relays the condition it gets from SCC 2
   Loop(<<seq, seq, seq, seq>>, {1, 3}, <<1, 1, 1, 3>>, <<1, 2, 2, 4>>,
        {<<2, 3>>, <<2, 4>>}),
   \* SCC 4 behind the region of branch 2 merges a value from inside
   Loop(<<seq, seq, seq, seq>>, {1, 2}, <<1, 1, 2, 1>>, <<1, 2, 3, 4>>,
        {<<1, 3>>, <<3, 4>>}),
   \* the same through a clone
   Loop(<<seq, seq, "stateless", seq>>, {1, 2}, <<1, 1, 2, 1>>, <<1, 2, 3, 4>>,
        {<<2, 3>>, <<3, 4>>}),
   \* nested branches, the inner one cloned
   Loop(<<seq, seq, "terminators", seq>>, {1, 2, 3}, <<1, 1, 2, 3>>,
        <<1, 2, 1, 4>>, {<<1, 3>>, <<2, 4>>})}

MCLoops == SendableLoops \cup SampleLoops
=============================================================================
