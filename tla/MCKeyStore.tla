----------------------------- MODULE MCKeyStore -----------------------------
(* Instances of KeyStore for TLC. *)
EXTENDS KeyStore, TLC

CONSTANTS t1, t2, k1, k2

Symmetric == Permutations({t1, t2}) \cup Permutations({k1, k2})

\* A name that is misread matters to a restart only: one of them at a time, on one
\* network, with new entries, no network set and one thread in a call.
Known(n) ==
    \/ mapping[n] # NoNet \/ \E net \in Networks : Present(n, net)
    \/ \E t \in Threads : call[t] # Idle /\ call[t].nick = n

FewMisread ==
    \A n \in Nicks \ Plain : Known(n) =>
        /\ \A m \in Nicks \ Plain : Known(m) => m = n
        /\ current = NoNet /\ mapping[n] \in {NoNet, DefaultNet}
        /\ \A net \in Networks : Present(n, net) => net = DefaultNet
        /\ \A s \in Slots : entries[s] # None => entries[s].age = 0
        /\ \A t, u \in Threads : call[t] # Idle /\ call[u] # Idle => t = u
=============================================================================
