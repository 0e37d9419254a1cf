-------------------------- MODULE MCEngineRegistry --------------------------
(* Instances of EngineRegistry for TLC. *)
EXTENDS EngineRegistry, TLC

CONSTANTS t1, t2, t3, i1, i2

ThreeThreads == {t1, t2, t3}

\* Threads are interchangeable, and so are SocketInfo objects.
Symmetry == Permutations(Threads) \cup Permutations(Infos)
=============================================================================
