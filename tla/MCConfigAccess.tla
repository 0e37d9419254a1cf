--------------------------- MODULE MCConfigAccess ---------------------------
(* Instances of ConfigAccess for TLC: a thread that exchanges keys, t1, and *)
(* one that only changes the configuration, t2.                             *)
EXTENDS ConfigAccess

CONSTANTS t1, t2

TwoThreads == {t1, t2}
OneThread  == {t2}
=============================================================================
