--------------------------- MODULE MCRecvPipeline ---------------------------
(* Instances of RecvPipeline for TLC. *)
EXTENDS RecvPipeline

\* Cut anywhere, with room for everything.
Cut == [lines |-> <<2, 1, 3>>, encrypted |-> {1, 3}, binary |-> {},
        bufLen |-> 24, whole |-> FALSE]

\* The same with a line that is not UTF-8 and an empty one.
Mixed == [lines |-> <<1, 2, 0, 1>>, encrypted |-> {1, 4}, binary |-> {2},
          bufLen |-> 32, whole |-> FALSE]

\* A line that never ends, for a small buffer.
Endless == [lines |-> <<18, 2>>, encrypted |-> {2}, binary |-> {},
            bufLen |-> 5, whole |-> FALSE]

\* Whole lines, some of them empty.
Sparse == [lines |-> <<1, 2, 0, 1, 2, 1, 0, 3, 2, 0, 1>>, encrypted |-> {2, 5, 8},
           binary |-> {}, bufLen |-> 9, whole |-> TRUE]

\* Whole lines, some of them not UTF-8, with room for what they become, and
\* without.
Foreign == [lines |-> <<1, 2, 0, 1, 1>>, encrypted |-> {2}, binary |-> {1, 4},
            bufLen |-> 25, whole |-> TRUE]
Swollen == [Foreign EXCEPT !.bufLen = 8]

AllConnections == {Cut, Mixed, Endless, Sparse, Foreign, Swollen}
=============================================================================
