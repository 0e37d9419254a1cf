------------------------------ MODULE MCLegacy ------------------------------
(* Instances of Legacy for TLC. *)
EXTENDS Legacy, TLC

CONSTANTS a, b, chan, tag, k1

\* tag is the nickname [tag]b.
BareNames == (tag :> b)

\* No file, two lines for one nickname (Bob and bob), and a file that is not UTF-8.
Files == {<<>>, <<KeyLine(b, k1), KeyLine(b, k1)>>, <<KeyLine(b, k1), BadLine>>}

\* A bound on the lines of the files.
Short == \A c \in Clients : Len(file[c]) <= 3
=============================================================================
