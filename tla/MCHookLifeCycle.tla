--------------------------- MODULE MCHookLifeCycle ---------------------------
(* Instances of HookLifeCycle for TLC. *)
EXTENDS HookLifeCycle
=============================================================================
