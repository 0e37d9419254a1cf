---------------------------- MODULE MCMasterKey ----------------------------
(* Instances of MasterKey for TLC. *)
EXTENDS MasterKey, TLC

CONSTANTS a, b, d1, d2

\* Two good passwords of which one has a space, and a weak one.
Given == {<<a>>, <<a, b>>, <<b>>}
StrongOnes == {<<a>>, <<a, b>>, <<b, a>>, <<b, a, b>>}

Symmetric == Permutations({d1, d2})
=============================================================================
