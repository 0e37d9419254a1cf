---------------------------- MODULE MCKeyExchange ----------------------------
(* Instances of KeyExchange for TLC. *)
EXTENDS KeyExchange
=============================================================================
