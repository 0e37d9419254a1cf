----------------------------- MODULE LineStream -----------------------------
(***************************************************************************)
(* What the application may see of a connection: the lines the server      *)
(* sent, decrypted, whole, in order and each of them once.                 *)
(***************************************************************************)
EXTENDS Naturals, Sequences, SequencesExt

CONSTANT
    Sent(_)         \* the lines that a source sends, in order

VARIABLES
    source,         \* where the lines come from
    out             \* the lines the application has been given

Init == out = <<>>

\* One call gives the application some of the lines that come next.
Deliver ==
    /\ Len(out') > Len(out)
    /\ IsPrefix(out, out') /\ IsPrefix(out', Sent(source))
    /\ UNCHANGED source

Next == Deliver

\* In the end everything has been delivered.
Spec == Init /\ [][Next]_<<source, out>> /\ <>(out = Sent(source))
=============================================================================
