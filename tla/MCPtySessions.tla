--------------------------- MODULE MCPtySessions ---------------------------
(* Small instances of PtySessions for TLC.                                 *)
EXTENDS PtySessions

CONSTANTS c1, c2, c3

\* Two connections set up one after the other, three overlapping, two with the
\* output of a PTY, and the back-pressure of a longer output to one.
Ordered == [conns |-> {c1, c2}, cap |-> 2, chunks |-> 0, orderly |-> TRUE]
Overlapping == [conns |-> {c1, c2, c3}, cap |-> 1, chunks |-> 0, orderly |-> FALSE]
Streaming == [conns |-> {c1, c2}, cap |-> 1, chunks |-> 2, orderly |-> TRUE]
Pressing == [conns |-> {c1}, cap |-> 1, chunks |-> 5, orderly |-> FALSE]
EachScope == {Ordered, Overlapping, Streaming, Pressing}
StreamingOnly == {Streaming}

=============================================================================
