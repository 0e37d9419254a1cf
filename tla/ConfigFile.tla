----------------------------- MODULE ConfigFile -----------------------------
(***************************************************************************)
(* What the configuration file is to a process that keeps its              *)
(* configuration in memory: a save replaces it in one step by what memory  *)
(* holds, and the next process starts with what it finds in the file, or   *)
(* with the defaults when it cannot be read.                               *)
(* Once configurations are also saved that memory may have passed (loose), *)
(* the file is some earlier version or damaged, but never a later one.     *)
(***************************************************************************)
EXTENDS Integers

CONSTANTS
    Default,        \* the configuration of a process that read no file
    Torn, NoFile    \* files that cannot be used

VARIABLES
    memory,         \* version the process works with
    file,           \* version in the file
    loose           \* saves may be behind memory from now on

Usable == file \in Nat

Init ==
    /\ \/ Usable /\ memory \in {file, Default}
       \/ file = NoFile /\ memory = Default
    /\ loose = FALSE

\* Each change makes a version that there has not been.
Newer(version) == version \in Nat /\ version > memory /\ version > file

Change ==
    /\ Newer(memory')
    /\ UNCHANGED <<file, loose>>

Save ==
    /\ \/ file' = memory
       \/ loose /\ file' \in 0..memory \cup {Torn}
    /\ UNCHANGED <<memory, loose>>

Loosen ==
    /\ loose' = TRUE
    /\ UNCHANGED <<memory, file>>

\* Without a file the next process makes one, unless that fails.
Restart ==
    /\ \/ Usable /\ memory' = file /\ UNCHANGED file
       \/ file = NoFile /\ Newer(memory') /\ file' = memory'
       \/ memory' = Default /\ UNCHANGED file
    /\ UNCHANGED loose

Next == Change \/ Save \/ Loosen \/ Restart

Spec == Init /\ [][Next]_<<memory, file, loose>>
=============================================================================
