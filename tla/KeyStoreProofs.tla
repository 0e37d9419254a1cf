--------------------------- MODULE KeyStoreProofs ---------------------------
(***************************************************************************)
(* Proofs about KeyStore for any threads, nicknames, networks, keys and    *)
(* lifetimes, and about the keys of FiSH 10 in Legacy for any two clients, *)
(* files and settings.                                                     *)
(*                                                                         *)
(* What the readers of an entry make of it is arithmetic on its age        *)
(* (OutcomeText).  What check_key_expiry may delete needs an invariant:    *)
(* an entry is marked as exchanged only if it was (Origins), although a    *)
(* restart loses the mark.                                                 *)
(*                                                                         *)
(* A saved key of FiSH 10 reloads because a file is read and edited line   *)
(* by line, and only the last line of a target counts (SavedInv).  Two     *)
(* clients agree because what is in flight, what they have computed and    *)
(* the state of each side's exchange fit together (ExchangeInv).           *)
(***************************************************************************)
EXTENDS KeyStore, Legacy, FiniteSetTheorems, WellFoundedInduction, TLAPS

\* No entry is marked as exchanged that was set by hand.
Origins == \A s \in Slots : entries[s] # None /\ entries[s].exchange => entries[s].origin

StoreInv == TypeOK /\ Origins

-----------------------------------------------------------------------------
(* The invariant.                                                          *)

\* An entry is not the missing one.
LEMMA EntryNotNone == \A e \in Entry : e # None
  BY KeyStoreAssumption DEF Entry, None

\* A network is always found.
LEMMA Resolved ==
  ASSUME TypeOK, NEW nick \in Nicks, NEW given \in Networks \cup {NoNet}
  PROVE  /\ ResolveFull(nick, given) \in Networks
         /\ ResolveSimple(given) \in Networks
         /\ ResolveMapped(nick, given) \in Networks
  BY KeyStoreAssumption DEF TypeOK, ResolveFull, ResolveSimple, ResolveMapped, Orelse

\* Ageing and a restart keep an entry an entry, and a missing one missing.
LEMMA Kept ==
  ASSUME NEW e \in Entry \cup {None}
  PROVE  /\ Older(e) \in Entry \cup {None} /\ Reloaded(e) \in Entry \cup {None}
         /\ (Older(e) = None <=> e = None) /\ (Reloaded(e) = None <=> e = None)
         /\ e # None =>
              /\ Older(e).exchange = e.exchange /\ Older(e).origin = e.origin
              /\ ~Reloaded(e).exchange /\ Reloaded(e).key = e.key
<1> USE KeyStoreAssumption, EntryNotNone
<1>1. CASE e = None
  BY <1>1 DEF Older, Reloaded
<1>2. CASE e \in Entry
  <2>1. [e EXCEPT !.age = @ + 1] = [key |-> e.key, exchange |-> e.exchange,
                                    age |-> e.age + 1, origin |-> e.origin]
    BY <1>2 DEF Entry
  <2>2. /\ [e EXCEPT !.exchange = FALSE] \in Entry
        /\ ~[e EXCEPT !.exchange = FALSE].exchange
        /\ [e EXCEPT !.exchange = FALSE].key = e.key
    BY <1>2 DEF Entry
  <2>3. e # None
    BY <1>2
  <2>4. Older(e) \in Entry /\ Older(e).exchange = e.exchange /\ Older(e).origin = e.origin
    BY <1>2, <2>1, <2>3 DEF Older, Entry
  <2>5. Reloaded(e) \in Entry /\ ~Reloaded(e).exchange /\ Reloaded(e).key = e.key
    BY <2>2, <2>3 DEF Reloaded
  <2> QED
    BY <2>3, <2>4, <2>5
<1> QED
  BY <1>1, <1>2

\* The initial states satisfy the invariant.
LEMMA StoreInvInit == ASSUME Init PROVE StoreInv
  BY KeyStoreAssumption DEF Init, StoreInv, TypeOK, Origins, Calls

\* Every step keeps the invariant.
LEMMA StoreInvStep == ASSUME StoreInv, [Next]_vars PROVE StoreInv'
<1> USE KeyStoreAssumption DEF StoreInv, TypeOK, Origins
<1>1. ASSUME NEW t \in Threads, NEW nick \in Nicks, NEW given \in Networks \cup {NoNet},
             NEW key \in Keys, NEW exchange \in BOOLEAN,
             SetEntry(t, nick, given, key, exchange)
      PROVE  StoreInv'
  <2> DEFINE net == ResolveFull(nick, given)
             new == [key |-> key, exchange |-> exchange, age |-> 0, origin |-> exchange]
             pending == [at |-> "map", nick |-> nick, given |-> given, slot |-> net]
  <2>1. net \in Networks
    BY Resolved
  <2>2. new \in Entry
    BY DEF Entry
  <2>3. pending \in Calls
    BY <2>1 DEF Calls
  <2>4. <<nick, net>> \in Slots
    BY <2>1 DEF Slots
  <2>5. /\ entries' = [entries EXCEPT ![<<nick, net>>] = new]
        /\ call' = [call EXCEPT ![t] = pending]
        /\ UNCHANGED <<mapping, current, ttl>>
    BY <1>1 DEF SetEntry
  <2> HIDE DEF net, pending
  <2>6. TypeOK'
    BY <2>2, <2>3, <2>4, <2>5
  <2>7. Origins'
    BY <2>4, <2>5
  <2> QED
    BY <2>6, <2>7
<1>2. ASSUME NEW t \in Threads, NEW nick \in Nicks, NEW given \in Networks \cup {NoNet},
             DeleteKey(t, nick, given)
      PROVE  StoreInv'
  <2>1. <<nick, ResolveMapped(nick, given)>> \in Slots
    BY Resolved DEF Slots
  <2> QED
    BY <1>2, <2>1 DEF DeleteKey
<1>3. ASSUME NEW t \in Threads, CheckKeyExpiry(t) PROVE StoreInv'
  <2> DEFINE nick == call[t].nick
  <2>0. nick \in Nicks
    BY <1>3 DEF CheckKeyExpiry, Calls, Idle
  <2>1. <<nick, ResolveSimple(NoNet)>> \in Slots
    BY <2>0, Resolved DEF Slots
  <2>2. [at |-> "get", nick |-> nick] \in Calls /\ Idle \in Calls
    BY <2>0 DEF Calls
  <2>3. /\ \/ entries' = entries
           \/ entries' = [entries EXCEPT ![<<nick, ResolveSimple(NoNet)>>] = None]
        /\ mapping' = mapping \/ mapping' = [mapping EXCEPT ![nick] = NoNet]
        /\ \/ call' = [call EXCEPT ![t] = Idle]
           \/ call' = [call EXCEPT ![t] = [at |-> "get", nick |-> nick]]
        /\ UNCHANGED <<current, ttl>>
    BY <1>3 DEF CheckKeyExpiry
  <2> HIDE DEF nick
  <2> QED
    BY <2>0, <2>1, <2>2, <2>3
<1>4. ASSUME NEW t \in Threads, SetMapping(t) PROVE StoreInv'
  <2>1. call[t].nick \in Nicks /\ call[t].given \in Networks \cup {NoNet}
    BY <1>4 DEF SetMapping, Calls, Idle
  <2>2. ResolveSimple(call[t].given) \in Networks
    BY <2>1, Resolved
  <2>3. Idle \in Calls
    BY DEF Calls
  <2> QED
    BY <1>4, <2>1, <2>2, <2>3 DEF SetMapping
<1>5. ASSUME NEW t \in Threads, FinishGet(t) PROVE StoreInv'
  BY <1>5 DEF FinishGet, Calls
<1>6. ASSUME NEW net \in Networks, SetCurrentNetwork(net) PROVE StoreInv'
  BY <1>6 DEF SetCurrentNetwork
<1>7. ASSUME NEW nets, DeleteNetworks(nets) PROVE StoreInv'
  BY <1>7 DEF DeleteNetworks
<1>8. ASSUME NEW from \in Networks, NEW to \in Networks, RenameNetwork(from, to)
      PROVE  StoreInv'
  BY <1>8 DEF RenameNetwork
<1>9. ASSUME NEW v \in Ttls, SetConfiguredKeyTtl(v) PROVE StoreInv'
  BY <1>9 DEF SetConfiguredKeyTtl
<1>10. ASSUME Tick PROVE StoreInv'
  BY <1>10, Kept DEF Tick
<1>11. ASSUME Restart \/ RestartUnread PROVE StoreInv'
  <2>0. \A s \in Slots : Reloaded(entries[s]) \in Entry \cup {None}
                         /\ (Reloaded(entries[s]) # None => ~Reloaded(entries[s]).exchange)
    BY Kept
  <2>1. /\ entries' \in [Slots -> Entry \cup {None}]
        /\ \A s \in Slots : entries'[s] # None => ~entries'[s].exchange
        /\ mapping' \in [Nicks -> Networks \cup {NoNet}]
    <3>1. CASE Restart
      <4>1. PICK slots :
              entries' = [s \in Slots |-> IF s \in slots THEN Reloaded(entries[s]) ELSE None]
        BY <3>1 DEF Restart
      <4>2. PICK nicks :
              mapping' = [n \in Nicks |-> IF n \in nicks THEN mapping[n] ELSE NoNet]
        BY <3>1 DEF Restart
      <4> QED
        BY <2>0, <4>1, <4>2
    <3>2. CASE RestartUnread
      BY <3>2 DEF RestartUnread
    <3> QED
      BY <1>11, <3>1, <3>2
  <2>2. /\ ttl' \in Ttls /\ current' = NoNet /\ call' = [t \in Threads |-> Idle]
    BY <1>11 DEF Restart, RestartUnread, Ttls
  <2>3. Idle \in Calls
    BY DEF Calls
  <2> QED
    BY <2>1, <2>2, <2>3
<1>12. ASSUME NEW t \in Threads, NEW nick \in Nicks, ReadLifetime(t, nick) PROVE StoreInv'
  <2>1. [at |-> "expiry", nick |-> nick, lifetime |-> ConfiguredTtl] \in Calls
    BY DEF Calls, ConfiguredTtl, RawTtl, Ttls
  <2> HIDE DEF ConfiguredTtl
  <2> QED
    BY <1>12, <2>1 DEF ReadLifetime
<1>13. CASE UNCHANGED vars
  BY <1>13 DEF vars
<1>14. CASE \E t \in Threads, nick \in Nicks :
              \/ \E given \in Networks \cup {NoNet} :
                   \/ \E key \in Keys, exchange \in BOOLEAN :
                        SetEntry(t, nick, given, key, exchange)
                   \/ DeleteKey(t, nick, given)
              \/ ReadLifetime(t, nick)
  BY <1>1, <1>2, <1>12, <1>14
<1>15. CASE \/ \E t \in Threads : SetMapping(t) \/ CheckKeyExpiry(t) \/ FinishGet(t)
            \/ \E net \in Networks : SetCurrentNetwork(net) \/ DeleteNetworks({net})
            \/ \E from, to \in Networks : RenameNetwork(from, to)
  BY <1>3, <1>4, <1>5, <1>6, <1>7, <1>8, <1>15
<1> QED
  BY <1>7, <1>9, <1>10, <1>11, <1>13, <1>14, <1>15 DEF Next

\* The invariant holds of every state.
THEOREM StoreInvariant == Spec => []StoreInv
  BY StoreInvInit, StoreInvStep, PTL DEF Spec

\* TypeOK for any constants.
THEOREM TypeCorrect == Spec => []TypeOK
<1>1. StoreInv => TypeOK
  BY DEF StoreInv
<1> QED
  BY <1>1, StoreInvariant, PTL

-----------------------------------------------------------------------------
(* What the readers make of an entry.                                      *)

\* An entry present has a key, which is not an error.
LEMMA PresentEntry ==
  ASSUME TypeOK, NEW nick \in Nicks, NEW net \in Networks, Present(nick, net)
  PROVE  /\ entries[<<nick, net>>] \in Entry
         /\ entries[<<nick, net>>].key \in Keys /\ entries[<<nick, net>>].key # "Expired"
         /\ entries[<<nick, net>>].exchange \in BOOLEAN
         /\ entries[<<nick, net>>].age \in Nat
<1>1. entries[<<nick, net>>] \in Entry
  BY DEF TypeOK, Slots, Present
<1> QED
  BY <1>1, KeyStoreAssumption DEF Entry

\* The lifetime in use is a number, and in the valid range it is the one
\* get_configured_key_ttl returns.
LEMMA Lifetime ==
  ASSUME TypeOK
  PROVE  /\ RawTtl \in Nat
         /\ RawTtl \in MinTtl..MaxTtl => ConfiguredTtl = RawTtl
  BY KeyStoreAssumption DEF TypeOK, Ttls, RawTtl, ConfiguredTtl

\* With a lifetime in the valid range get_key_internal and the texts of
\* get_key_ttl draw the same line, and check_key_expiry is beyond it.
LEMMA OutcomeText ==
  ASSUME TypeOK, RawTtl \in MinTtl..MaxTtl,
         NEW nick \in Nicks, NEW net \in Networks, Present(nick, net),
         NEW given, ResolveFull(nick, given) = net
  PROVE  /\ EntryOutcome(nick, net) = "Expired" <=> TtlText(nick, given) = "EXPIRED"
         /\ EntryOutcome(nick, net) = "Expired" <=> Remaining(nick, net) = 0
         /\ Overdue(nick, net, ConfiguredTtl) => TtlText(nick, given) = "EXPIRED"
<1> DEFINE e == entries[<<nick, net>>]
<1>1. /\ e.exchange \in BOOLEAN /\ e.age \in Nat /\ e.key # "Expired"
      /\ RawTtl \in Nat /\ ConfiguredTtl = RawTtl /\ Grace \in Nat
  BY PresentEntry, Lifetime, KeyStoreAssumption
<1>2. EntryOutcome(nick, net) = "Expired" <=> e.exchange /\ RawTtl + Grace - e.age <= 0
  BY <1>1 DEF EntryOutcome
<1>3. Remaining(nick, net) = 0 <=> e.exchange /\ RawTtl + Grace - e.age <= 0
  BY <1>1 DEF Remaining
<1>4. TtlText(nick, given) = "EXPIRED" <=> Remaining(nick, net) = 0
  BY DEF TtlText
<1>5. Overdue(nick, net, ConfiguredTtl) => e.exchange /\ RawTtl + Grace - e.age <= 0
  BY <1>1 DEF Overdue
<1> QED
  BY <1>2, <1>3, <1>4, <1>5

\* A type-correct state has readers that agree.
LEMMA AgreeingState == ASSUME TypeOK PROVE ReadersAgree
<1> SUFFICES ASSUME RawTtl \in MinTtl..MaxTtl
             PROVE  /\ \A k \in AllKeysWithTtl :
                         /\ EntryOutcome(k.nick, k.net) = "Expired" <=> k.ttl = "EXPIRED"
                         /\ Overdue(k.nick, k.net, ConfiguredTtl) => k.ttl = "EXPIRED"
                    /\ current = NoNet => \A nick \in Nicks : GetKeyTTL(nick) # "NotFound" =>
                         /\ GetKey(nick, NoNet) = {"Expired"} <=> GetKeyTTL(nick) = "EXPIRED"
                         /\ GetKey(nick, NoNet) = {"Expired"} <=> Status(nick, NoNet) = "expired"
                         /\ GetKey(nick, NoNet) = {"Expired"} => AboutToExpire(nick, NoNet)
  BY DEF ReadersAgree
<1>1. ASSUME NEW k \in AllKeysWithTtl
      PROVE  /\ EntryOutcome(k.nick, k.net) = "Expired" <=> k.ttl = "EXPIRED"
             /\ Overdue(k.nick, k.net, ConfiguredTtl) => k.ttl = "EXPIRED"
  <2>1. /\ k.nick \in Nicks /\ k.net \in Networks /\ Present(k.nick, k.net)
        /\ k.ttl = TtlText(k.nick, k.net)
    BY DEF AllKeysWithTtl, Slots
  <2>2. ResolveFull(k.nick, k.net) = k.net
    BY <2>1, KeyStoreAssumption DEF ResolveFull, Orelse
  <2> QED
    BY <2>1, <2>2, OutcomeText
<1>2. ASSUME current = NoNet, NEW nick \in Nicks, GetKeyTTL(nick) # "NotFound"
      PROVE  /\ GetKey(nick, NoNet) = {"Expired"} <=> GetKeyTTL(nick) = "EXPIRED"
             /\ GetKey(nick, NoNet) = {"Expired"} <=> Status(nick, NoNet) = "expired"
             /\ GetKey(nick, NoNet) = {"Expired"} => AboutToExpire(nick, NoNet)
  <2> DEFINE net == ResolveFull(nick, NoNet)
  <2>1. net \in Networks
    BY Resolved
  <2>2. net = ResolveMapped(nick, NoNet)
    BY <1>2 DEF ResolveFull, ResolveMapped, Orelse
  <2>3. Present(nick, net)
    BY <1>2 DEF GetKeyTTL, TtlText
  <2>4. GetKey(nick, NoNet) = {EntryOutcome(nick, net)}
    BY <2>2, <2>3 DEF GetKey
  <2> HIDE DEF net
  <2>5. /\ GetKey(nick, NoNet) = {"Expired"} <=> TtlText(nick, NoNet) = "EXPIRED"
        /\ GetKey(nick, NoNet) = {"Expired"} <=> Remaining(nick, net) = 0
    BY <2>1, <2>3, <2>4, OutcomeText DEF net
  <2>6. Status(nick, NoNet) = "expired" <=> TtlText(nick, NoNet) = "EXPIRED"
    BY DEF Status
  <2>7. Remaining(nick, net) = 0 => AboutToExpire(nick, NoNet)
    BY <2>3, KeyStoreAssumption DEF AboutToExpire, net
  <2> QED
    BY <2>5, <2>6, <2>7 DEF GetKeyTTL
<1> QED
  BY <1>1, <1>2

\* ReadersAgree for any lifetimes, grace period, threshold and ages.
THEOREM ReadersAgreeHolds == Spec => []ReadersAgree
  BY TypeCorrect, AgreeingState, PTL

-----------------------------------------------------------------------------
(* What a step may do to the keys.                                         *)

\* ManualKeysStay for any constants: no key set by hand is ever deleted for its
\* age, in spite of restarts that forget which keys were exchanged.
THEOREM ManualKeysStayHolds == Spec => ManualKeysStay
<1>1. ASSUME StoreInv, NEW t \in Threads, CheckKeyExpiry(t),
             NEW s \in Slots, entries[s] # None, ~entries[s].origin
      PROVE  entries'[s] = entries[s]
  <2> DEFINE nick == call[t].nick
  <2>0. nick \in Nicks
    BY <1>1 DEF CheckKeyExpiry, Calls, Idle, StoreInv, TypeOK
  <2>1. <<nick, ResolveSimple(NoNet)>> \in Slots
    BY <1>1, <2>0, Resolved DEF Slots, StoreInv
  <2>2. ~Overdue(nick, ResolveSimple(NoNet), call[t].lifetime) \/ s # <<nick, ResolveSimple(NoNet)>>
    BY <1>1 DEF StoreInv, Origins, Overdue
  <2> QED
    BY <1>1, <2>1, <2>2 DEF CheckKeyExpiry, StoreInv, TypeOK
<1>2. StoreInv /\ [Next]_vars =>
        [\A t \in Threads : CheckKeyExpiry(t) =>
            \A s \in Slots : entries[s] # None /\ ~entries[s].origin
                             => entries'[s] = entries[s]]_vars
  BY <1>1
<1> QED
  BY <1>2, StoreInvariant, PTL DEF Spec, ManualKeysStay

\* ReadYourWrites for any constants: the mapping set_key leaves leads get_key to
\* the entry that was written.
THEOREM ReadYourWritesHolds == Spec => ReadYourWrites
<1>1. ASSUME StoreInv, NEW t \in Threads, NEW nick \in Nicks, NEW net \in Networks,
             SetMapping(t), call[t].nick = nick, call[t].given = net, Present(nick, net)
      PROVE  GetKey(nick, NoNet)' = {EntryOutcome(nick, net)}
  <2>1. ResolveSimple(net) = net
    BY KeyStoreAssumption DEF ResolveSimple, Orelse
  <2>2. mapping'[nick] = net /\ UNCHANGED <<entries, current, ttl>>
    BY <1>1, <2>1 DEF SetMapping, StoreInv, TypeOK
  <2>3. ResolveMapped(nick, NoNet)' = net
    BY <2>2, KeyStoreAssumption DEF ResolveMapped, Orelse
  <2>4. Present(nick, net)' /\ EntryOutcome(nick, net)' = EntryOutcome(nick, net)
    BY <1>1, <2>2 DEF Present, EntryOutcome, RawTtl
  <2> QED
    BY <2>3, <2>4 DEF GetKey
<1>2. StoreInv /\ [Next]_vars =>
        [\A t \in Threads, nick \in Nicks, net \in Networks :
            /\ SetMapping(t)
            /\ call[t].nick = nick /\ call[t].slot = net /\ call[t].given = net
            /\ Present(nick, net)
            => GetKey(nick, NoNet)' = {EntryOutcome(nick, net)}]_vars
  BY <1>1
<1> QED
  BY <1>2, StoreInvariant, PTL DEF Spec, ReadYourWrites

\* RestartKeepsKeys for any constants: the mapping and the entries that are read
\* back lead get_key to the keys it found before.
THEOREM RestartKeepsKeysHolds == Spec => RestartKeepsKeys
<1>1. ASSUME StoreInv, Restart, ~Misread,
             NEW nick \in Nicks \ Commented, NEW given \in Networks \cup {NoNet}
      PROVE  (GetKey(nick, given) \cap Keys) \subseteq GetKey(nick, given)'
  <2> DEFINE net == ResolveMapped(nick, given)
             found == {s \in Plain \X Networks : entries[s] # None}
             named == {n \in Plain : mapping[n] # NoNet}
  <2>1. /\ entries' = [s \in Slots |-> IF s \in found THEN Reloaded(entries[s]) ELSE None]
        /\ mapping' = [n \in Nicks |-> IF n \in named THEN mapping[n] ELSE NoNet]
    BY <1>1 DEF Restart, Survivors
  <2>2. \/ nick \in Plain
        \/ mapping[nick] = NoNet /\ \A w \in Networks : ~Present(nick, w)
    BY <1>1 DEF Misread, Plain
  <2>3. mapping'[nick] = mapping[nick]
    BY <2>1, <2>2
  <2>4. net' = net
    BY <2>3 DEF ResolveMapped
  <2>5. ASSUME NEW w \in Networks
        PROVE  /\ Present(nick, w)' <=> Present(nick, w)
               /\ Present(nick, w) =>
                    EntryOutcome(nick, w) \in {"Expired", EntryOutcome(nick, w)'}
    <3>1. <<nick, w>> \in Slots
      BY DEF Slots
    <3>2. entries[<<nick, w>>] \in Entry \cup {None}
      BY <1>1, <3>1 DEF StoreInv, TypeOK
    <3>3. entries'[<<nick, w>>] = Reloaded(entries[<<nick, w>>])
      BY <2>1, <2>2, <3>1 DEF Present, Reloaded
    <3>4. Present(nick, w)' <=> Present(nick, w)
      BY <3>2, <3>3, Kept DEF Present
    <3>5. Present(nick, w) => EntryOutcome(nick, w)' = entries[<<nick, w>>].key
      BY <3>2, <3>3, Kept DEF Present, EntryOutcome
    <3> QED
      BY <3>4, <3>5 DEF EntryOutcome
  <2>6. net \in Networks
    BY <1>1, Resolved DEF StoreInv
  <2> QED
    BY <2>4, <2>5, <2>6, KeyStoreAssumption DEF GetKey
<1>2. StoreInv /\ [Next]_vars =>
        [Restart /\ ~Misread =>
            \A nick \in Nicks \ Commented, given \in Networks \cup {NoNet} :
               (GetKey(nick, given) \cap Keys) \subseteq GetKey(nick, given)']_vars
  BY <1>1
<1> QED
  BY <1>2, StoreInvariant, PTL DEF Spec, RestartKeepsKeys

-----------------------------------------------------------------------------
(* Legacy: the lines of a file.                                             *)

\* Numbers have a least one.
LEMMA LeastOf ==
  ASSUME NEW S \in SUBSET Nat, S # {}
  PROVE  \E i \in S : \A j \in S : i <= j
<1> DEFINE R == {p \in Nat \X Nat : p[1] < p[2]}
<1>1. IsWellFoundedOn(R, Nat)
  <2>1. OpToRel(<, Nat) = R BY DEF OpToRel
  <2> QED BY <2>1, NatLessThanWellFounded
<1> HIDE DEF R
<1>2. PICK i \in S : \A j \in S : ~(<<j, i>> \in R) BY <1>1, WFMin
<1>3. ASSUME NEW j \in S PROVE i <= j
  <2>1. ~(<<j, i>> \in R) BY <1>2
  <2>2. i \in Nat /\ j \in Nat OBVIOUS
  <2> QED BY <2>1, <2>2 DEF R
<1> QED BY <1>3

\* Positions have a last one.
LEMMA LastOf ==
  ASSUME NEW n \in Nat, NEW S \in SUBSET (1 .. n), S # {}
  PROVE  \E i \in S : \A j \in S : j <= i
<1> DEFINE T == {n - i : i \in S}
<1>1. T \in SUBSET Nat /\ T # {}
  <2>1. \A i \in S : n - i \in Nat /\ n - i \in T OBVIOUS
  <2> QED BY <2>1
<1>2. PICK t \in T : \A u \in T : t <= u
  <2> HIDE DEF T
  <2> QED BY <1>1, LeastOf
<1>3. PICK i \in S : t = n - i OBVIOUS
<1>4. ASSUME NEW j \in S PROVE j <= i
  <2>1. n - j \in T OBVIOUS
  <2>2. n - i <= n - j BY <1>2, <1>3, <2>1
  <2> QED BY <2>2
<1> QED BY <1>4

\* Each of so many positions has its rank among them, and each rank its position.
LEMMA Ranks ==
  ASSUME NEW n \in Nat, NEW keep \in SUBSET (1 .. n)
  PROVE  LET rank(i) == Cardinality({j \in keep : j <= i})
         IN  /\ Cardinality(keep) \in Nat
             /\ \A i \in keep : rank(i) \in 1 .. Cardinality(keep)
             /\ \A i, j \in keep : i < j => rank(i) < rank(j)
             /\ \A k \in 1 .. Cardinality(keep) : \E i \in keep : rank(i) = k
<1> DEFINE UpTo(i) == {j \in keep : j <= i}
<1>1. \A j \in keep : j \in Nat /\ 1 <= j /\ j <= n OBVIOUS
<1>2. IsFiniteSet(keep)
  <2>1. IsFiniteSet(1 .. n) BY FS_Interval
  <2> QED BY <2>1, FS_Subset
<1>3. Cardinality(keep) \in Nat BY <1>2, FS_CardinalityType
<1>4. ASSUME NEW i
      PROVE  IsFiniteSet(UpTo(i)) /\ Cardinality(UpTo(i)) \in Nat
             /\ Cardinality(UpTo(i)) <= Cardinality(keep)
  <2>1. UpTo(i) \in SUBSET keep OBVIOUS
  <2> HIDE DEF UpTo
  <2>2. IsFiniteSet(UpTo(i)) /\ Cardinality(UpTo(i)) <= Cardinality(keep)
    BY <1>2, <2>1, FS_Subset
  <2> QED BY <2>2, FS_CardinalityType
<1>5. ASSUME NEW i \in keep PROVE Cardinality(UpTo(i)) \in 1 .. Cardinality(keep)
  <2>1. UpTo(i) # {} OBVIOUS
  <2> HIDE DEF UpTo
  <2>2. Cardinality(UpTo(i)) # 0 BY <1>4, <2>1, FS_EmptySet
  <2> QED BY <1>3, <1>4, <2>2
<1>6. ASSUME NEW i \in keep, NEW j \in keep, i < j
      PROVE  Cardinality(UpTo(i)) < Cardinality(UpTo(j))
  <2>1. UpTo(i) \in SUBSET UpTo(j)
    <3>1. \A l \in keep : l <= i => l <= j BY <1>1, <1>6
    <3> QED BY <3>1
  <2>2. j \in UpTo(j) /\ j \notin UpTo(i) BY <1>6
  <2> HIDE DEF UpTo
  <2>3. IsFiniteSet(UpTo(j)) BY <1>4
  <2>4. Cardinality(UpTo(i)) <= Cardinality(UpTo(j))
        /\ (Cardinality(UpTo(j)) = Cardinality(UpTo(i)) => UpTo(j) = UpTo(i))
    BY <2>1, <2>3, FS_Subset
  <2>5. Cardinality(UpTo(i)) # Cardinality(UpTo(j)) BY <2>2, <2>4
  <2>6. Cardinality(UpTo(i)) \in Nat /\ Cardinality(UpTo(j)) \in Nat BY <1>4
  <2> QED BY <2>4, <2>5, <2>6
<1>7. ASSUME NEW k \in 1 .. Cardinality(keep) PROVE \E i \in keep : Cardinality(UpTo(i)) = k
  <2> DEFINE M == {i \in 0 .. n : Cardinality(UpTo(i)) >= k}
  <2>1. n \in M
    <3>1. UpTo(n) = keep BY <1>1
    <3> HIDE DEF UpTo
    <3> QED BY <1>3, <3>1
  <2>2. M \in SUBSET Nat /\ M # {} BY <2>1
  <2>3. PICK i \in M : \A j \in M : i <= j
    <3> HIDE DEF M
    <3> QED BY <2>2, LeastOf
  <2>4. i # 0
    <3>1. UpTo(0) = {}
      <4>1. \A j \in keep : ~(j <= 0) BY <1>1
      <4> QED BY <4>1
    <3>2. Cardinality(UpTo(0)) = 0
      <4> HIDE DEF UpTo
      <4> QED BY <3>1, FS_EmptySet
    <3> HIDE DEF UpTo
    <3> QED BY <1>3, <3>2
  <2>5. i - 1 \in 0 .. n /\ i \in Nat /\ k \in Nat BY <1>3, <2>4
  <2>6. Cardinality(UpTo(i - 1)) < k
    <3>1. i - 1 \notin M
      <4> HIDE DEF M
      <4> QED BY <2>3, <2>5
    <3>2. Cardinality(UpTo(i - 1)) \in Nat BY <1>4
    <3> HIDE DEF UpTo
    <3> QED BY <2>5, <3>1, <3>2
  <2>7. Cardinality(UpTo(i)) >= k OBVIOUS
  <2>8. i \in keep
    <3> SUFFICES ASSUME i \notin keep PROVE FALSE OBVIOUS
    <3>1. UpTo(i) = UpTo(i - 1)
      <4>1. \A j \in keep : j <= i <=> j <= i - 1 BY <1>1, <2>5
      <4> QED BY <4>1
    <3>2. Cardinality(UpTo(i - 1)) \in Nat BY <1>4
    <3> HIDE DEF UpTo
    <3> QED BY <2>5, <2>6, <2>7, <3>1, <3>2
  <2>9. UpTo(i) = UpTo(i - 1) \cup {i} /\ i \notin UpTo(i - 1)
    <3>1. \A j \in keep : j <= i <=> (j <= i - 1 \/ j = i) BY <1>1, <2>5
    <3>2. ~(i <= i - 1) BY <2>5
    <3> QED BY <2>8, <3>1, <3>2
  <2>10. IsFiniteSet(UpTo(i - 1)) /\ Cardinality(UpTo(i - 1)) \in Nat BY <1>4
  <2> HIDE DEF UpTo
  <2>11. Cardinality(UpTo(i)) = Cardinality(UpTo(i - 1)) + 1 BY <2>9, <2>10, FS_AddElement
  <2> QED BY <2>5, <2>6, <2>7, <2>8, <2>10, <2>11
<1> QED BY <1>3, <1>5, <1>6, <1>7

\* The lines at some positions are those lines, in their order.
LEMMA LinesKept ==
  ASSUME NEW f \in Seq(LegacyLine), NEW keep \in SUBSET (1 .. Len(f))
  PROVE  LET g == LinesAt(f, keep)
         IN  /\ g \in Seq(LegacyLine)
             /\ \E from \in [1 .. Len(g) -> keep] :
                   /\ \A k \in 1 .. Len(g) : g[k] = f[from[k]]
                   /\ \A i \in keep : \E k \in 1 .. Len(g) : from[k] = i
                   /\ \A k, l \in 1 .. Len(g) : k <= l => from[k] <= from[l]
<1> DEFINE rank(i) == Cardinality({j \in keep : j <= i})
           size == Cardinality(keep)
           from == [k \in 1 .. size |-> CHOOSE i \in keep : rank(i) = k]
           g == LinesAt(f, keep)
<1>1. Len(f) \in Nat OBVIOUS
<1>2. /\ size \in Nat
      /\ \A i \in keep : rank(i) \in 1 .. size
      /\ \A i, j \in keep : i < j => rank(i) < rank(j)
      /\ \A k \in 1 .. size : \E i \in keep : rank(i) = k
  BY <1>1, Ranks
<1>3. g = [k \in 1 .. size |-> f[from[k]]] BY DEF LinesAt
<1> HIDE DEF rank, size, g
<1>4. ASSUME NEW k \in 1 .. size PROVE from[k] \in keep /\ rank(from[k]) = k
  BY <1>2
<1>5. from = [k \in 1 .. size |-> from[k]] OBVIOUS
<1> HIDE DEF from
<1>6. from \in [1 .. size -> keep] BY <1>4, <1>5
<1>7. g \in [1 .. size -> LegacyLine] /\ \A k \in 1 .. size : g[k] = f[from[k]]
  <2>1. \A k \in 1 .. size : f[from[k]] \in LegacyLine
    <3>1. \A i \in keep : f[i] \in LegacyLine BY <1>1
    <3> QED BY <1>4, <3>1
  <2> QED BY <1>3, <2>1
<1>8. g \in Seq(LegacyLine) /\ Len(g) = size BY <1>2, <1>7
<1>9. ASSUME NEW i \in keep PROVE \E k \in 1 .. size : from[k] = i
  <2>1. rank(i) \in 1 .. size BY <1>2
  <2>2. from[rank(i)] \in keep /\ rank(from[rank(i)]) = rank(i) BY <1>4, <2>1
  <2> DEFINE j == from[rank(i)]
  <2>3. j \in keep /\ rank(j) = rank(i) BY <2>2
  <2> HIDE DEF j
  <2>4. ~(i < j) /\ ~(j < i) BY <1>2, <2>1, <2>3
  <2>5. i = j BY <1>1, <2>3, <2>4
  <2> QED BY <2>1, <2>5 DEF j
<1>10. ASSUME NEW k \in 1 .. size, NEW l \in 1 .. size, k <= l PROVE from[k] <= from[l]
  <2>1. /\ from[k] \in keep /\ rank(from[k]) = k
        /\ from[l] \in keep /\ rank(from[l]) = l
    BY <1>4
  <2>2. from[l] < from[k] => l < k BY <1>2, <2>1
  <2>3. ~(l < k) BY <1>2, <1>10
  <2>4. from[k] \in Nat /\ from[l] \in Nat
    <3>1. \A i \in keep : i \in Nat BY <1>1
    <3> QED BY <2>1, <3>1
  <2> QED BY <2>2, <2>3, <2>4
<1> QED BY <1>6, <1>7, <1>8, <1>9, <1>10 DEF g

\* The lines of a target.
LinesOf(f, t) == {i \in DOMAIN f : f[i].is = "key" /\ f[i].target = t}

\* A file that is read as a whole.
WholeFile(f) == f \in Seq(LegacyLine) /\ BadLine \notin Range(f)

\* What a line is.
LEMMA LineIs ==
  /\ \A t \in Clients \cup Channels \cup Tagged, k \in ManualKeys :
       /\ KeyLine(t, k) \in LegacyLine /\ KeyLine(t, k) # BadLine
       /\ KeyLine(t, k).is = "key" /\ KeyLine(t, k).target = t /\ KeyLine(t, k).key = k
  /\ \A l \in LegacyLine : l # BadLine =>
       l.is = "key" /\ l.target \in Clients \cup Channels \cup Tagged /\ l.key \in ManualKeys
<1>1. ASSUME NEW t \in Clients \cup Channels \cup Tagged, NEW k \in ManualKeys
      PROVE  /\ KeyLine(t, k) \in LegacyLine /\ KeyLine(t, k) # BadLine
             /\ KeyLine(t, k).is = "key" /\ KeyLine(t, k).target = t /\ KeyLine(t, k).key = k
  <2>1. KeyLine(t, k) \in LegacyLine BY DEF LegacyLine
  <2>2. KeyLine(t, k).is = "key" /\ KeyLine(t, k).target = t /\ KeyLine(t, k).key = k
    BY DEF KeyLine
  <2>3. BadLine.is = "bad" BY DEF BadLine
  <2> QED BY <2>1, <2>2, <2>3
<1>2. ASSUME NEW l \in LegacyLine, l # BadLine
      PROVE  l.is = "key" /\ l.target \in Clients \cup Channels \cup Tagged /\ l.key \in ManualKeys
  <2>1. PICK t \in Clients \cup Channels \cup Tagged, k \in ManualKeys : l = KeyLine(t, k)
    BY <1>2 DEF LegacyLine
  <2> QED BY <1>1, <2>1
<1> QED BY <1>1, <1>2

\* The last line of a target counts, and no line of others.
LEMMA LoadedLast ==
  ASSUME NEW f, WholeFile(f), NEW t
  PROVE  /\ LinesOf(f, t) = {} => Loaded(f, t) = Absent
         /\ \A i \in LinesOf(f, t) :
              (\A j \in LinesOf(f, t) : j <= i) => Loaded(f, t) = f[i].key
         /\ LinesOf(f, t) # {} => \E i \in LinesOf(f, t) : \A j \in LinesOf(f, t) : j <= i
<1> DEFINE lines == LinesOf(f, t)
           last == CHOOSE i \in lines : \A j \in lines : j <= i
<1>1. Len(f) \in Nat /\ DOMAIN f = 1 .. Len(f) BY DEF WholeFile
<1>2. lines \in SUBSET (1 .. Len(f)) BY <1>1 DEF LinesOf
<1>3. lines = {} => Loaded(f, t) = Absent BY DEF Loaded, LinesOf
<1>4. lines # {} => Loaded(f, t) = f[last].key BY DEF WholeFile, Loaded, LinesOf
<1> HIDE DEF lines
<1>5. lines # {} => \E i \in lines : \A j \in lines : j <= i BY <1>1, <1>2, LastOf
<1>6. ASSUME NEW i \in lines, \A j \in lines : j <= i PROVE Loaded(f, t) = f[i].key
  <2>1. last \in lines /\ \A j \in lines : j <= last BY <1>6
  <2> HIDE DEF last
  <2>2. last <= i /\ i <= last BY <1>6, <2>1
  <2>3. last \in Nat /\ i \in Nat BY <1>1, <1>2, <2>1
  <2>4. last = i BY <2>2, <2>3
  <2> QED BY <1>4, <2>4
<1> HIDE DEF last
<1> QED BY <1>3, <1>5, <1>6 DEF lines

\* If all lines of a target are kept it has the same key, if none is it has none.
LEMMA LoadedKept ==
  ASSUME NEW f, WholeFile(f), NEW keep \in SUBSET (DOMAIN f)
  PROVE  /\ LinesAt(f, keep) \in Seq(LegacyLine)
         /\ \A t : LinesOf(f, t) \subseteq keep => Loaded(LinesAt(f, keep), t) = Loaded(f, t)
         /\ \A t : LinesOf(f, t) \cap keep = {} => Loaded(LinesAt(f, keep), t) = Absent
<1> DEFINE g == LinesAt(f, keep)
<1>1. f \in Seq(LegacyLine) /\ Len(f) \in Nat /\ DOMAIN f = 1 .. Len(f) BY DEF WholeFile
<1>2. g \in Seq(LegacyLine) BY <1>1, LinesKept
<1>3. PICK from \in [1 .. Len(g) -> keep] :
        /\ \A k \in 1 .. Len(g) : g[k] = f[from[k]]
        /\ \A i \in keep : \E k \in 1 .. Len(g) : from[k] = i
        /\ \A k, l \in 1 .. Len(g) : k <= l => from[k] <= from[l]
  BY <1>1, LinesKept
<1> HIDE DEF g
<1>4. Len(g) \in Nat /\ DOMAIN g = 1 .. Len(g) BY <1>2
<1>5. WholeFile(g)
  <2>1. \A k \in DOMAIN g : g[k] # BadLine
    <3>1. \A i \in DOMAIN f : f[i] # BadLine BY DEF WholeFile, Range
    <3> QED BY <1>3, <1>4, <3>1
  <2> QED BY <1>2, <2>1 DEF WholeFile, Range
<1>6. \A t : \A k \in 1 .. Len(g) : k \in LinesOf(g, t) <=> from[k] \in LinesOf(f, t)
  BY <1>3, <1>4 DEF LinesOf
<1>7. ASSUME NEW t, \A i \in LinesOf(f, t) : i \in keep
      PROVE  Loaded(g, t) = Loaded(f, t)
  <2>1. CASE LinesOf(g, t) = {}
    <3>1. LinesOf(f, t) = {}
      <4> SUFFICES ASSUME NEW i \in LinesOf(f, t) PROVE FALSE OBVIOUS
      <4>1. PICK k \in 1 .. Len(g) : from[k] = i BY <1>3, <1>7
      <4>2. k \in LinesOf(g, t) BY <1>6, <4>1
      <4> QED BY <2>1, <4>2
    <3> QED BY <1>5, <2>1, <3>1, LoadedLast
  <2>2. CASE LinesOf(g, t) # {}
    <3>1. PICK l \in LinesOf(g, t) : \A k \in LinesOf(g, t) : k <= l
      BY <1>5, <2>2, LoadedLast
    <3>2. l \in 1 .. Len(g) BY <1>4 DEF LinesOf
    <3>3. from[l] \in LinesOf(f, t) BY <1>6, <3>2
    <3>4. ASSUME NEW i \in LinesOf(f, t) PROVE i <= from[l]
      <4>1. PICK k \in 1 .. Len(g) : from[k] = i BY <1>3, <1>7
      <4>2. k \in LinesOf(g, t) BY <1>6, <4>1
      <4>3. k <= l BY <3>1, <4>2
      <4> QED BY <1>3, <3>2, <4>1, <4>3
    <3>5. Loaded(f, t) = f[from[l]].key BY <3>3, <3>4, LoadedLast
    <3>6. Loaded(g, t) = g[l].key BY <1>5, <3>1, LoadedLast
    <3> QED BY <1>3, <3>2, <3>5, <3>6
  <2> QED BY <2>1, <2>2
<1>8. ASSUME NEW t, \A i \in keep : i \notin LinesOf(f, t)
      PROVE  Loaded(g, t) = Absent
  <2>1. LinesOf(g, t) = {}
    <3> SUFFICES ASSUME NEW k \in LinesOf(g, t) PROVE FALSE OBVIOUS
    <3>1. k \in 1 .. Len(g) BY <1>4 DEF LinesOf
    <3>2. from[k] \in LinesOf(f, t) /\ from[k] \in keep BY <1>3, <1>6, <3>1
    <3> QED BY <1>8, <3>2
  <2> QED BY <1>5, <2>1, LoadedLast
<1> QED BY <1>2, <1>7, <1>8 DEF g

\* update_blowfish_ini_key changes what is loaded for its target and no other.
LEMMA UpdatedLoads ==
  ASSUME NEW f, WholeFile(f), NEW t \in Clients \cup Channels \cup Tagged,
         NEW k \in ManualKeys \cup {Absent}
  PROVE  /\ Updated(f, t, k) \in Seq(LegacyLine)
         /\ Loaded(Updated(f, t, k), t) = k
         /\ \A u : u # t => Loaded(Updated(f, t, k), u) = Loaded(f, u)
<1> DEFINE g == Updated(f, t, k)
<1>1. f \in Seq(LegacyLine) /\ Len(f) \in Nat /\ DOMAIN f = 1 .. Len(f) BY DEF WholeFile
<1>2. \A i \in DOMAIN f : f[i] # BadLine BY DEF WholeFile, Range
<1>3. CASE k = Absent
  <2> DEFINE keep == {i \in DOMAIN f : ~(f[i].is = "key" /\ f[i].target = t)}
  <2>1. g = LinesAt(f, keep) BY <1>3 DEF Updated
  <2>2. LinesOf(f, t) \cap keep = {} BY DEF LinesOf
  <2>3. \A u : u # t => LinesOf(f, u) \subseteq keep BY DEF LinesOf
  <2>4. keep \in SUBSET (DOMAIN f) OBVIOUS
  <2> HIDE DEF keep, g
  <2>5. /\ LinesAt(f, keep) \in Seq(LegacyLine)
        /\ Loaded(LinesAt(f, keep), t) = Absent
        /\ \A u : u # t => Loaded(LinesAt(f, keep), u) = Loaded(f, u)
    BY <2>2, <2>3, <2>4, LoadedKept
  <2> QED BY <1>3, <2>1, <2>5 DEF g
<1>4. CASE k # Absent /\ LinesOf(f, t) # {}
  <2> DEFINE mine(l) == l.is = "key" /\ l.target = t
  <2>1. g = [i \in DOMAIN f |-> IF mine(f[i]) THEN KeyLine(t, k) ELSE f[i]]
    BY <1>4 DEF Updated, LinesOf
  <2>2. \A i \in DOMAIN f : i \in LinesOf(f, t) <=> mine(f[i]) BY DEF LinesOf
  <2> HIDE DEF mine, g
  <2>3. \A i \in DOMAIN f : g[i] = IF i \in LinesOf(f, t) THEN KeyLine(t, k) ELSE f[i]
    BY <2>1, <2>2
  <2>4. \A i \in DOMAIN f : g[i] \in LegacyLine /\ g[i] # BadLine
    BY <1>1, <1>2, <1>4, <2>3, LineIs
  <2>5. g \in Seq(LegacyLine) /\ DOMAIN g = DOMAIN f BY <1>1, <2>1, <2>4
  <2>6. WholeFile(g) BY <2>4, <2>5 DEF WholeFile, Range
  <2>7. \A u : LinesOf(g, u) = LinesOf(f, u)
    <3>1. ASSUME NEW u, NEW i \in DOMAIN f PROVE i \in LinesOf(g, u) <=> i \in LinesOf(f, u)
      BY <1>4, <2>3, <2>5, LineIs DEF LinesOf
    <3> QED BY <2>5, <3>1 DEF LinesOf
  <2>8. Loaded(g, t) = k
    <3>1. PICK i \in LinesOf(f, t) : \A j \in LinesOf(f, t) : j <= i BY <1>4, LoadedLast
    <3>2. i \in DOMAIN f BY DEF LinesOf
    <3>3. g[i].key = k BY <1>4, <2>3, <3>2, LineIs
    <3> QED BY <2>6, <2>7, <3>1, <3>3, LoadedLast
  <2>9. ASSUME NEW u, u # t PROVE Loaded(g, u) = Loaded(f, u)
    <3>1. CASE LinesOf(f, u) = {} BY <2>6, <2>7, <3>1, LoadedLast
    <3>2. CASE LinesOf(f, u) # {}
      <4>1. PICK i \in LinesOf(f, u) : \A j \in LinesOf(f, u) : j <= i BY <3>2, LoadedLast
      <4>2. i \in DOMAIN f /\ i \notin LinesOf(f, t) BY <2>9 DEF LinesOf
      <4>3. g[i] = f[i] BY <2>3, <4>2
      <4>4. Loaded(f, u) = f[i].key BY <4>1, LoadedLast
      <4>5. Loaded(g, u) = g[i].key BY <2>6, <2>7, <4>1, LoadedLast
      <4> QED BY <4>3, <4>4, <4>5
    <3> QED BY <3>1, <3>2
  <2> QED BY <2>5, <2>8, <2>9 DEF g
<1>5. CASE k # Absent /\ LinesOf(f, t) = {}
  <2> DEFINE n == Len(f) + 1
  <2>1. g = Append(f, KeyLine(t, k)) BY <1>5 DEF Updated, LinesOf
  <2>2. KeyLine(t, k) \in LegacyLine BY <1>5, LineIs
  <2> HIDE DEF g
  <2>3. /\ g \in Seq(LegacyLine) /\ DOMAIN g = 1 .. n /\ g[n] = KeyLine(t, k)
        /\ \A i \in DOMAIN f : g[i] = f[i]
    BY <1>1, <2>1, <2>2
  <2>4. \A i \in 1 .. n : i = n \/ i \in DOMAIN f BY <1>1
  <2>5. n \in 1 .. n /\ n \notin DOMAIN f /\ \A i \in DOMAIN f : i \in 1 .. n /\ i <= n BY <1>1
  <2> HIDE DEF n
  <2>6. WholeFile(g)
    <3>1. \A i \in DOMAIN g : g[i] # BadLine BY <1>2, <1>5, <2>3, <2>4, LineIs
    <3> QED BY <2>3, <3>1 DEF WholeFile, Range
  <2>7. n \in LinesOf(g, t) /\ \A i \in LinesOf(g, t) : i <= n
    <3>1. n \in LinesOf(g, t) BY <1>5, <2>3, <2>5, LineIs DEF LinesOf
    <3>2. \A i \in LinesOf(g, t) : i = n BY <1>5, <2>3, <2>4 DEF LinesOf
    <3>3. n <= n BY <1>1 DEF n
    <3> QED BY <3>1, <3>2, <3>3
  <2>8. Loaded(g, t) = k BY <1>5, <2>3, <2>6, <2>7, LineIs, LoadedLast
  <2>9. ASSUME NEW u, u # t PROVE Loaded(g, u) = Loaded(f, u)
    <3>1. \A i : i \in LinesOf(g, u) <=> i \in LinesOf(f, u)
      <4>1. ASSUME NEW i \in DOMAIN f PROVE i \in LinesOf(g, u) <=> i \in LinesOf(f, u)
        BY <2>3, <2>5 DEF LinesOf
      <4>2. n \notin LinesOf(g, u) BY <1>5, <2>3, <2>9, LineIs DEF LinesOf
      <4> QED BY <2>3, <2>4, <4>1, <4>2 DEF LinesOf
    <3>2. LinesOf(g, u) = LinesOf(f, u) BY <3>1
    <3>3. CASE LinesOf(f, u) = {} BY <2>6, <3>2, <3>3, LoadedLast
    <3>4. CASE LinesOf(f, u) # {}
      <4>1. PICK i \in LinesOf(f, u) : \A j \in LinesOf(f, u) : j <= i BY <3>4, LoadedLast
      <4>2. i \in DOMAIN f BY DEF LinesOf
      <4>3. g[i] = f[i] BY <2>3, <4>2
      <4>4. Loaded(f, u) = f[i].key BY <4>1, LoadedLast
      <4>5. Loaded(g, u) = g[i].key BY <2>6, <3>2, <4>1, LoadedLast
      <4> QED BY <4>3, <4>4, <4>5
    <3> QED BY <3>3, <3>4
  <2> QED BY <2>3, <2>8, <2>9 DEF g
<1> QED BY <1>3, <1>4, <1>5

\* Two files with the same lines of a target give it the same key.
LEMMA LoadedSame ==
  ASSUME NEW f, WholeFile(f), NEW g, WholeFile(g), NEW t,
         LinesOf(g, t) = LinesOf(f, t), \A i \in LinesOf(f, t) : g[i] = f[i]
  PROVE  Loaded(g, t) = Loaded(f, t)
<1>1. CASE LinesOf(f, t) = {} BY <1>1, LoadedLast
<1>2. CASE LinesOf(f, t) # {}
  <2>1. PICK i \in LinesOf(f, t) : \A j \in LinesOf(f, t) : j <= i BY <1>2, LoadedLast
  <2>2. Loaded(f, t) = f[i].key BY <2>1, LoadedLast
  <2>3. Loaded(g, t) = g[i].key BY <2>1, LoadedLast
  <2> QED BY <2>1, <2>2, <2>3
<1> QED BY <1>1, <1>2

\* set_encrypt_topic_setting leaves what is loaded for who is neither a channel nor
\* a bracketed nickname in the file nor what follows the brackets of one.
LEMMA RewrittenLoads ==
  ASSUME NEW f, WholeFile(f)
  PROVE  /\ Rewritten(f) \in Seq(LegacyLine)
         /\ \A t : t \notin ChangesHands(f) => Loaded(Rewritten(f), t) = Loaded(f, t)
<1> DEFINE lost(l) == l.is = "key" /\ (l.target \in Channels
                                       \/ (l.target \in Tagged /\ Bare[l.target] = Absent))
           keep == {i \in DOMAIN f : ~lost(f[i])}
           kept == LinesAt(f, keep)
           g == Rewritten(f)
<1>1. g = [i \in DOMAIN kept |-> Reread(kept[i])] BY DEF Rewritten
<1>2. f \in Seq(LegacyLine) /\ Len(f) \in Nat /\ DOMAIN f = 1 .. Len(f) BY DEF WholeFile
<1>3. \A i \in DOMAIN f : f[i] \in LegacyLine /\ f[i] # BadLine BY <1>2 DEF WholeFile, Range
<1>4. \A i \in DOMAIN f : /\ f[i].is = "key" /\ f[i].key \in ManualKeys
                          /\ f[i].target \in Clients \cup Channels \cup Tagged
  BY <1>3, LineIs
<1>5. \A i \in keep : i \in DOMAIN f /\ f[i].target \notin Channels
                      /\ (f[i].target \in Tagged => Bare[f[i].target] \in Clients)
  BY <1>4, LegacyAssumption
<1>6. \A t : t \notin ChangesHands(f) => \A i \in LinesOf(f, t) : i \in keep
  BY <1>4 DEF LinesOf, ChangesHands
<1>7. keep \in SUBSET (DOMAIN f) OBVIOUS
<1>8. \A i \in keep : f[i].target \in Tagged =>
        f[i].target \in ChangesHands(f) /\ Bare[f[i].target] \in ChangesHands(f)
  BY <1>4 DEF ChangesHands
<1> HIDE DEF lost, keep, g
<1>9. /\ kept \in Seq(LegacyLine)
      /\ \A t : t \notin ChangesHands(f) => Loaded(kept, t) = Loaded(f, t)
  <2>1. ASSUME NEW t, t \notin ChangesHands(f) PROVE LinesOf(f, t) \subseteq keep BY <1>6, <2>1
  <2> QED BY <1>7, <2>1, LoadedKept
<1>10. \A i \in DOMAIN kept : \E j \in keep : kept[i] = f[j]
  <2>1. PICK from \in [1 .. Len(kept) -> keep] : \A k \in 1 .. Len(kept) : kept[k] = f[from[k]]
    BY <1>2, <1>7, LinesKept
  <2> HIDE DEF kept
  <2>2. DOMAIN kept = 1 .. Len(kept) BY <1>9
  <2> QED BY <2>1, <2>2
<1> HIDE DEF kept
<1>11. \A i \in DOMAIN kept :
         /\ kept[i] \in LegacyLine /\ kept[i] # BadLine /\ kept[i].is = "key"
         /\ kept[i].key \in ManualKeys
         /\ kept[i].target \in Tagged =>
              /\ Bare[kept[i].target] \in Clients
              /\ kept[i].target \in ChangesHands(f) /\ Bare[kept[i].target] \in ChangesHands(f)
  BY <1>3, <1>4, <1>5, <1>8, <1>10
<1>12. \A i \in DOMAIN kept :
         IF kept[i].target \in Tagged THEN g[i] = KeyLine(Bare[kept[i].target], kept[i].key)
         ELSE g[i] = kept[i]
  BY <1>1, <1>11 DEF Reread
<1>13. DOMAIN g = DOMAIN kept /\ \A i \in DOMAIN kept : g[i] \in LegacyLine /\ g[i] # BadLine
  BY <1>1, <1>11, <1>12, LineIs
<1>14. g \in Seq(LegacyLine)
  <2>1. Len(kept) \in Nat /\ DOMAIN kept = 1 .. Len(kept) BY <1>9
  <2>2. g \in [1 .. Len(kept) -> LegacyLine] BY <1>1, <1>13, <2>1
  <2> QED BY <2>1, <2>2
<1>15. WholeFile(g) /\ WholeFile(kept)
  BY <1>9, <1>11, <1>13, <1>14 DEF WholeFile, Range
<1>16. ASSUME NEW t, t \notin ChangesHands(f) PROVE Loaded(g, t) = Loaded(f, t)
  <2>1. ASSUME NEW i \in DOMAIN kept
        PROVE  /\ i \in LinesOf(g, t) <=> i \in LinesOf(kept, t)
               /\ i \in LinesOf(kept, t) => g[i] = kept[i]
    <3>1. CASE kept[i].target \in Tagged
      <4> DEFINE b == Bare[kept[i].target]
      <4>1. b \in Clients /\ b # t /\ kept[i].target # t BY <1>11, <1>16, <3>1
      <4>2. g[i] = KeyLine(b, kept[i].key) BY <1>12, <3>1
      <4> HIDE DEF b
      <4>3. g[i].target = b BY <1>11, <4>1, <4>2, LineIs
      <4> QED BY <4>1, <4>3 DEF LinesOf
    <3>2. CASE kept[i].target \notin Tagged BY <1>12, <1>13, <3>2 DEF LinesOf
    <3> QED BY <3>1, <3>2
  <2>2. LinesOf(g, t) = LinesOf(kept, t) /\ \A i \in LinesOf(kept, t) : g[i] = kept[i]
    BY <1>13, <2>1 DEF LinesOf
  <2>3. Loaded(g, t) = Loaded(kept, t) BY <1>15, <2>2, LoadedSame
  <2> QED BY <1>9, <1>16, <2>3
<1> QED BY <1>14, <1>16 DEF g

-----------------------------------------------------------------------------
(* Legacy: the keys in the file.                                            *)

\* What clients hold.
KeysShape ==
  /\ keys = [c \in Clients |-> keys[c]]
  /\ \A c \in Clients : keys[c] = [t \in Targets(c) |-> keys[c][t]]

HoldingShape ==
  /\ KeysShape
  /\ file \in [Clients -> Seq(LegacyLine)]
  /\ apart = [c \in Clients |-> apart[c]]

SavedInv == HoldingShape /\ SavedKeysReload

\* There are two clients.
LEMMA PeerIs ==
  \A c \in Clients :
    /\ Peer(c) \in Clients /\ Peer(c) # c /\ Peer(Peer(c)) = c
    /\ \A d \in Clients : d = c \/ d = Peer(c)
<1>1. PICK a, b \in Clients : a # b /\ Clients = {a, b} BY LegacyAssumption
<1>2. Peer(a) = b /\ Peer(b) = a BY <1>1 DEF Peer
<1> QED BY <1>1, <1>2

\* What is said of the next state target by target is said of all of it.
LEMMA ReloadNext ==
  ASSUME \A d \in Clients : \A t \in Targets(d) :
             t \notin apart'[d] => keys'[d][t] = Loaded(file'[d], t)
  PROVE  SavedKeysReload'
BY DEF SavedKeysReload, Targets, Peer, Loaded

\* So is what is said of their shape.
LEMMA KeysShapeNext ==
  ASSUME keys' = [d \in Clients |-> keys'[d]],
         \A d \in Clients : keys'[d] = [t \in Targets(d) |-> keys'[d][t]]
  PROVE  KeysShape'
BY DEF KeysShape, Targets, Peer

\* A key that is set or computed leaves the keys functions of the targets.
LEMMA KeyChanged ==
  ASSUME KeysShape, NEW c \in Clients, NEW t, NEW k, keys' = [keys EXCEPT ![c][t] = k]
  PROVE  KeysShape'
<1>1. keys' = [d \in Clients |-> keys'[d]] BY DEF KeysShape
<1>2. ASSUME NEW d \in Clients PROVE keys'[d] = [u \in Targets(d) |-> keys'[d][u]]
  <2>1. CASE d = c BY <2>1 DEF KeysShape
  <2>2. CASE d # c BY <2>2 DEF KeysShape
  <2> QED BY <2>1, <2>2
<1> QED BY <1>1, <1>2, KeysShapeNext

\* So does a file that is loaded, or cannot be.
LEMMA KeysLoaded ==
  ASSUME KeysShape, NEW c \in Clients,
         \/ keys' = [keys EXCEPT ![c] = LoadedKeys(c, file[c])]
         \/ keys' = [keys EXCEPT ![c] = NoKeys(c)]
  PROVE  KeysShape'
<1>1. keys' = [d \in Clients |-> keys'[d]] BY DEF KeysShape
<1>2. ASSUME NEW d \in Clients PROVE keys'[d] = [u \in Targets(d) |-> keys'[d][u]]
  <2>1. CASE d = c BY <2>1 DEF KeysShape, LoadedKeys, NoKeys
  <2>2. CASE d # c BY <2>2 DEF KeysShape
  <2> QED BY <2>1, <2>2
<1> QED BY <1>1, <1>2, KeysShapeNext

\* So does a step that touches no key.
LEMMA KeysKept ==
  ASSUME KeysShape, keys' = keys
  PROVE  KeysShape'
BY DEF KeysShape, Targets, Peer

\* A file that may be rewritten is one that is read.
LEMMA FileIsWhole ==
  ASSUME HoldingShape, NEW c \in Clients, BadLine \notin Range(file[c])
  PROVE  WholeFile(file[c])
BY DEF HoldingShape, WholeFile

\* One target's key changes and the file is written, or is not, or in part.
LEMMA WrittenKeeps ==
  ASSUME SavedInv, NEW c \in Clients, NEW f, NEW after, NEW failed,
         WriteFile(c, f, after, failed),
         WholeFile(file[c]) => f \in Seq(LegacyLine),
         keys' = [keys EXCEPT ![c] = keys'[c]],
         keys'[c] = [t \in Targets(c) |-> keys'[c][t]],
         \A t \in Targets(c) : t \notin failed => keys'[c][t] = keys[c][t],
         WholeFile(file[c]) =>
             \A t \in Targets(c) : t \notin after => keys'[c][t] = Loaded(f, t)
  PROVE  SavedInv'
<1> USE DEF SavedInv, HoldingShape, KeysShape
<1>1. \A d \in Clients \ {c} : keys'[d] = keys[d] OBVIOUS
<1>2. keys' = [d \in Clients |-> keys'[d]]
      /\ \A d \in Clients : keys'[d] = [t \in Targets(d) |-> keys'[d][t]]
  OBVIOUS
<1>3. ASSUME file' \in [Clients -> Seq(LegacyLine)], apart' = [d \in Clients |-> apart'[d]],
             \A d \in Clients \ {c} : file'[d] = file[d] /\ apart'[d] = apart[d],
             \A t \in Targets(c) : t \notin apart'[c] => keys'[c][t] = Loaded(file'[c], t)
      PROVE  SavedInv'
  <2> HIDE DEF KeysShape
  <2>1. HoldingShape' BY <1>2, <1>3, KeysShapeNext
  <2>2. ASSUME NEW d \in Clients, NEW t \in Targets(d), t \notin apart'[d]
        PROVE  keys'[d][t] = Loaded(file'[d], t)
    <3>1. CASE d = c BY <1>3, <2>2, <3>1
    <3>2. CASE d # c
      <4>1. keys'[d] = keys[d] /\ file'[d] = file[d] /\ apart'[d] = apart[d]
        BY <1>1, <1>3, <3>2
      <4> QED BY <2>2, <4>1 DEF SavedKeysReload
    <3> QED BY <3>1, <3>2
  <2> HIDE DEF HoldingShape
  <2>3. SavedKeysReload' BY <2>2, ReloadNext
  <2> QED BY <2>1, <2>3
<1>4. CASE /\ BadLine \notin Range(file[c])
           /\ file' = [file EXCEPT ![c] = f] /\ apart' = [apart EXCEPT ![c] = after]
  <2>1. WholeFile(file[c]) BY <1>4, FileIsWhole
  <2>2. file'[c] = f /\ apart'[c] = after /\ f \in Seq(LegacyLine) BY <1>4, <2>1
  <2>3. file' \in [Clients -> Seq(LegacyLine)] /\ apart' = [d \in Clients |-> apart'[d]]
    BY <1>4, <2>2
  <2>4. \A d \in Clients \ {c} : file'[d] = file[d] /\ apart'[d] = apart[d] BY <1>4
  <2> QED BY <1>3, <2>1, <2>2, <2>3, <2>4
<1>5. CASE file' = file /\ apart' = [apart EXCEPT ![c] = apart[c] \cup failed]
  <2>1. file'[c] = file[c] /\ apart'[c] = apart[c] \cup failed BY <1>5
  <2>2. \A t \in Targets(c) : t \notin apart'[c] => keys'[c][t] = Loaded(file'[c], t)
    BY <2>1 DEF SavedKeysReload
  <2>3. file' \in [Clients -> Seq(LegacyLine)] /\ apart' = [d \in Clients |-> apart'[d]]
    BY <1>5
  <2>4. \A d \in Clients \ {c} : file'[d] = file[d] /\ apart'[d] = apart[d] BY <1>5
  <2> QED BY <1>3, <2>2, <2>3, <2>4
<1>6. ASSUME NEW n \in 0 .. (Len(f) - 1), BadLine \notin Range(file[c]),
             file' = [file EXCEPT ![c] = SubSeq(f, 1, n)],
             apart' = [apart EXCEPT ![c] = Targets(c)]
      PROVE  SavedInv'
  <2>1. f \in Seq(LegacyLine) /\ Len(f) \in Nat BY <1>6, FileIsWhole
  <2>2. SubSeq(f, 1, n) \in Seq(LegacyLine) BY <2>1
  <2>3. file' \in [Clients -> Seq(LegacyLine)] /\ apart' = [d \in Clients |-> apart'[d]]
    BY <1>6, <2>2
  <2>4. \A d \in Clients \ {c} : file'[d] = file[d] /\ apart'[d] = apart[d] BY <1>6
  <2>5. apart'[c] = Targets(c) BY <1>6
  <2> QED BY <1>3, <2>3, <2>4, <2>5
<1> QED BY <1>4, <1>5, <1>6 DEF WriteFile

\* set_legacy_key and remove_legacy_key.
LEMMA EditKeeps ==
  ASSUME SavedInv, NEW c \in Clients, NEW t \in Targets(c), NEW k \in ManualKeys \cup {Absent},
         keys' = [keys EXCEPT ![c][t] = k],
         WriteFile(c, Updated(file[c], t, k), apart[c] \ {t}, {t})
  PROVE  SavedInv'
<1> DEFINE f == Updated(file[c], t, k)
<1>1. t \in Clients \cup Channels \cup Tagged BY PeerIs DEF Targets
<1>2. ASSUME WholeFile(file[c])
      PROVE  /\ f \in Seq(LegacyLine) /\ Loaded(f, t) = k
             /\ \A u : u # t => Loaded(f, u) = Loaded(file[c], u)
  BY <1>1, <1>2, UpdatedLoads
<1>3. /\ keys' = [keys EXCEPT ![c] = keys'[c]]
      /\ keys'[c] = [u \in Targets(c) |-> keys'[c][u]]
      /\ keys'[c][t] = k /\ \A u \in Targets(c) : u # t => keys'[c][u] = keys[c][u]
  BY DEF SavedInv, HoldingShape, KeysShape
<1> HIDE DEF f
<1>4. ASSUME WholeFile(file[c]), NEW u \in Targets(c), u \notin apart[c] \ {t}
      PROVE  keys'[c][u] = Loaded(f, u)
  <2>1. CASE u = t BY <1>2, <1>3, <1>4, <2>1
  <2>2. CASE u # t
    <3>1. keys[c][u] = Loaded(file[c], u) BY <1>4, <2>2 DEF SavedInv, SavedKeysReload
    <3> QED BY <1>2, <1>3, <1>4, <2>2, <3>1
  <2> QED BY <2>1, <2>2
<1>5. WriteFile(c, f, apart[c] \ {t}, {t}) BY DEF f
<1>6. \A u \in Targets(c) : u \notin {t} => keys'[c][u] = keys[c][u] BY <1>3
<1> QED BY <1>2, <1>3, <1>4, <1>5, <1>6, WrittenKeeps

\* set_encrypt_topic_setting.
LEMMA TopicKeeps ==
  ASSUME SavedInv, NEW c \in Clients, SetTopicSetting(c)
  PROVE  SavedInv'
<1> DEFINE f == Rewritten(file[c])
           after == apart[c] \cup (ChangesHands(file[c]) \cap Targets(c))
<1>1. WriteFile(c, f, after, {}) /\ keys' = keys BY DEF SetTopicSetting
<1>2. ASSUME WholeFile(file[c])
      PROVE  /\ f \in Seq(LegacyLine)
             /\ \A t : t \notin ChangesHands(file[c]) => Loaded(f, t) = Loaded(file[c], t)
  BY <1>2, RewrittenLoads
<1> HIDE DEF f
<1>3. ASSUME WholeFile(file[c]), NEW t \in Targets(c), t \notin after
      PROVE  keys'[c][t] = Loaded(f, t)
  BY <1>1, <1>2, <1>3 DEF SavedInv, SavedKeysReload
<1>4. /\ keys' = [keys EXCEPT ![c] = keys'[c]]
      /\ keys'[c] = [t \in Targets(c) |-> keys'[c][t]]
      /\ \A t \in Targets(c) : keys'[c][t] = keys[c][t]
  BY <1>1 DEF SavedInv, HoldingShape, KeysShape
<1> QED BY <1>1, <1>2, <1>3, <1>4, WrittenKeeps

\* ComputeSecret, and the steps that leave keys and file.
LEMMA SecretKeeps ==
  ASSUME SavedInv, NEW c \in Clients, file' = file,
         \/ \E mine, theirs : StoreSecret(c, mine, theirs)
         \/ keys' = keys /\ apart' = apart
  PROVE  SavedInv'
<1> USE DEF SavedInv, HoldingShape, KeysShape
<1>1. ASSUME NEW k, keys' = [keys EXCEPT ![c][Peer(c)] = k],
             apart' = [apart EXCEPT ![c] = apart[c] \cup {Peer(c)}]
      PROVE  SavedInv'
  <2>1. HoldingShape'
    <3>1. apart' = [d \in Clients |-> apart'[d]] BY <1>1
    <3> HIDE DEF KeysShape
    <3> QED BY <1>1, <3>1, KeyChanged
  <2>2. ASSUME NEW d \in Clients, NEW t \in Targets(d), t \notin apart'[d]
        PROVE  keys'[d][t] = Loaded(file'[d], t)
    <3>1. t \notin apart[d] /\ keys'[d][t] = keys[d][t]
      <4>1. CASE d = c BY <1>1, <2>2, <4>1
      <4>2. CASE d # c BY <1>1, <2>2, <4>2
      <4> QED BY <4>1, <4>2
    <3>2. file'[d] = file[d] OBVIOUS
    <3> QED BY <2>2, <3>1, <3>2 DEF SavedKeysReload
  <2> HIDE DEF HoldingShape
  <2>3. SavedKeysReload' BY <2>2, ReloadNext
  <2> QED BY <2>1, <2>3
<1>2. CASE keys' = keys /\ apart' = apart
  <2>1. HoldingShape'
    <3> HIDE DEF KeysShape
    <3> QED BY <1>2, KeysKept
  <2>2. ASSUME NEW d \in Clients, NEW t \in Targets(d), t \notin apart'[d]
        PROVE  keys'[d][t] = Loaded(file'[d], t)
    <3>1. file'[d] = file[d] OBVIOUS
    <3> QED BY <1>2, <2>2, <3>1 DEF SavedKeysReload
  <2> HIDE DEF HoldingShape
  <2>3. SavedKeysReload' BY <2>2, ReloadNext
  <2> QED BY <2>1, <2>3
<1> QED BY <1>1, <1>2 DEF StoreSecret

\* load_legacy_config, which may fail.
LEMMA LoadKeeps ==
  ASSUME SavedInv, NEW c \in Clients, LoadLegacyConfig(c)
  PROVE  SavedInv'
<1> USE DEF SavedInv, HoldingShape, KeysShape
<1>1. /\ file' = file
      /\ \/ /\ keys' = [keys EXCEPT ![c] = LoadedKeys(c, file[c])]
            /\ apart' = [apart EXCEPT ![c] = {}]
         \/ /\ keys' = [keys EXCEPT ![c] = NoKeys(c)]
            /\ apart' = [apart EXCEPT ![c] = Targets(c)]
  BY DEF LoadLegacyConfig
<1>2. HoldingShape'
  <2>1. apart' = [d \in Clients |-> apart'[d]] BY <1>1
  <2>2. KeysShape'
    <3> HIDE DEF KeysShape
    <3> QED BY <1>1, KeysLoaded
  <2> HIDE DEF KeysShape
  <2> QED BY <1>1, <2>1, <2>2
<1>3. ASSUME NEW d \in Clients, NEW t \in Targets(d), t \notin apart'[d]
      PROVE  keys'[d][t] = Loaded(file'[d], t)
  <2>1. file'[d] = file[d] BY <1>1
  <2>2. CASE d = c BY <1>1, <1>3, <2>1, <2>2 DEF LoadedKeys
  <2>3. CASE d # c BY <1>1, <1>3, <2>1, <2>3 DEF SavedKeysReload
  <2> QED BY <2>2, <2>3
<1> HIDE DEF HoldingShape
<1>4. SavedKeysReload' BY <1>3, ReloadNext
<1> QED BY <1>2, <1>4

\* What memory holds for a target whose last change was saved is what the file
\* gives: in every reachable state.
THEOREM SavedInvariant == LegacySpec => []SavedInv
<1>1. LegacyInit => SavedInv
  <2> SUFFICES ASSUME LegacyInit PROVE SavedInv OBVIOUS
  <2>1. PICK unread \in SUBSET {c \in Clients : file[c] # <<>>} :
          /\ keys = [c \in Clients |-> IF c \in unread THEN NoKeys(c) ELSE LoadedKeys(c, file[c])]
          /\ apart = [c \in Clients |-> IF c \in unread THEN Targets(c) ELSE {}]
    BY DEF LegacyInit
  <2>2. HoldingShape
    BY <2>1, LegacyAssumption DEF LegacyInit, HoldingShape, KeysShape, LoadedKeys, NoKeys
  <2>3. SavedKeysReload BY <2>1 DEF SavedKeysReload, LoadedKeys
  <2> QED BY <2>2, <2>3 DEF SavedInv
<1>2. SavedInv /\ [LegacyNext]_legacyVars => SavedInv'
  <2> SUFFICES ASSUME SavedInv, [LegacyNext]_legacyVars PROVE SavedInv' OBVIOUS
  <2>1. ASSUME NEW c \in Editors, NEW t \in Targets(c), NEW k \in ManualKeys, SetKey(c, t, k)
        PROVE  SavedInv'
    BY <2>1, LegacyAssumption, EditKeeps DEF SetKey
  <2>2. ASSUME NEW c \in Editors, NEW t \in Targets(c), DelKey(c, t) PROVE SavedInv'
    BY <2>2, LegacyAssumption, EditKeeps DEF DelKey
  <2>3. ASSUME NEW c \in Editors, SetTopicSetting(c) PROVE SavedInv'
    BY <2>3, LegacyAssumption, TopicKeeps
  <2>4. ASSUME NEW c \in Clients,
               \/ StartExchange(c) \/ ReceiveInit(c) \/ ReceiveFinish(c) \/ Timeout(c)
               \/ Disconnect(c)
        PROVE  SavedInv'
    BY <2>4, SecretKeeps DEF StartExchange, ReceiveInit, ReceiveFinish, Timeout, Disconnect
  <2>5. ASSUME NEW c \in Clients, ReloadDll(c) \/ RestartMirc(c) PROVE SavedInv'
    BY <2>5, LoadKeeps DEF ReloadDll, RestartMirc
  <2>6. CASE UNCHANGED legacyVars
    <3>1. PICK c \in Clients : TRUE BY LegacyAssumption
    <3> QED BY <2>6, <3>1, SecretKeeps DEF legacyVars
  <2> QED BY <2>1, <2>2, <2>3, <2>4, <2>5, <2>6 DEF LegacyNext
<1> QED BY <1>1, <1>2, PTL DEF LegacySpec

\* Loading a client's file gives back the key of every target whose last change was
\* saved, for any channels, nicknames, keys and files written by hand, whatever was set,
\* deleted or rewritten for others and wherever a reading or a write failed or stopped.
THEOREM SavedKeysReloadHolds == LegacySpec => []SavedKeysReload
<1>1. SavedInv => SavedKeysReload BY DEF SavedInv
<1> QED BY <1>1, SavedInvariant, PTL
-----------------------------------------------------------------------------
(* Legacy: the keys two clients agree on.                                  *)
(*                                                                         *)
(* From a quiet moment on, at most one INIT and one FINISH are under way   *)
(* to a client; the last notice to it carries the key pair its peer keeps; *)
(* an INIT is there only while the sender waits for the answer, and a      *)
(* FINISH only while its receiver does.  Once a client neither waits nor   *)
(* has a notice to read, its key is made of the pairs the two of them keep.*)

Pair == Clients \X Nat
ExchangeNotice == [is : {"INIT", "FINISH"}, pub : Pair]

ExchangeTypes ==
  /\ pairs \in [Clients -> Nat]
  /\ private \in [Clients -> Pair \cup {Absent}]
  /\ dh \in [Clients -> BOOLEAN]
  /\ notices \in [Clients -> Seq(ExchangeNotice)]
  /\ settled \in BOOLEAN

ExchangeShape == ExchangeTypes /\ KeysShape

Has(q, is) == \E i \in 1 .. Len(q) : q[i].is = is
OneOfEach(q) == \A i, j \in 1 .. Len(q) : q[i].is = q[j].is => i = j
LastPub(q) == q[Len(q)].pub

\* What holds of client c with its peer p in a settled exchange.
WaitsWithPair(c) == dh[c] => private[c] # Absent
LatestPair(c, p) == notices[c] # <<>> => LastPub(notices[c]) = private[p]
KeyOfPairs(c, p) == notices[c] = <<>> /\ ~dh[c] => keys[c][p] = {private[c], private[p]}
InitAwaited(c, p) == Has(notices[c], "INIT") => dh[p] /\ ~Has(notices[p], "FINISH")
FinishAwaited(c) == Has(notices[c], "FINISH") => dh[c]

AgreeFor(c, p) ==
  /\ WaitsWithPair(c) /\ LatestPair(c, p) /\ KeyOfPairs(c, p)
  /\ OneOfEach(notices[c]) /\ InitAwaited(c, p) /\ FinishAwaited(c)

ExchangeAgrees == settled => \A c \in Clients : AgreeFor(c, Peer(c))

ExchangeInv == ExchangeShape /\ ExchangeAgrees

\* A notice behind the others is the last; there is one of its kind if there was none.
LEMMA Pushed ==
  ASSUME NEW q \in Seq(ExchangeNotice), NEW n \in ExchangeNotice
  PROVE  /\ Append(q, n) \in Seq(ExchangeNotice) /\ Append(q, n) # <<>>
         /\ LastPub(Append(q, n)) = n.pub
         /\ \A is : Has(Append(q, n), is) <=> Has(q, is) \/ n.is = is
         /\ OneOfEach(q) /\ ~Has(q, n.is) => OneOfEach(Append(q, n))
<1> DEFINE a == Append(q, n)
<1>1. /\ a \in Seq(ExchangeNotice) /\ Len(q) \in Nat /\ Len(a) = Len(q) + 1
      /\ a[Len(q) + 1] = n /\ \A i \in 1 .. Len(q) : a[i] = q[i]
  OBVIOUS
<1>2. a # <<>> BY <1>1
<1>3. LastPub(a) = n.pub BY <1>1 DEF LastPub
<1> HIDE DEF a
<1>4. \A i : i \in 1 .. Len(a) <=> i \in 1 .. Len(q) \/ i = Len(q) + 1 BY <1>1
<1>5. \A i \in 1 .. Len(q) : i # Len(q) + 1 BY <1>1
<1>6. \A is : Has(a, is) <=> Has(q, is) \/ n.is = is BY <1>1, <1>4 DEF Has
<1>7. OneOfEach(q) /\ ~Has(q, n.is) => OneOfEach(a)
  BY <1>1, <1>4 DEF Has, OneOfEach
<1> QED BY <1>1, <1>2, <1>3, <1>6, <1>7 DEF a

\* Once the first notice is taken, those behind it are left.
LEMMA Popped ==
  ASSUME NEW q \in Seq(ExchangeNotice), q # <<>>
  PROVE  /\ Tail(q) \in Seq(ExchangeNotice) /\ Head(q) \in ExchangeNotice
         /\ Has(q, Head(q).is)
         /\ Tail(q) # <<>> => LastPub(Tail(q)) = LastPub(q)
         /\ Tail(q) = <<>> => Head(q).pub = LastPub(q)
         /\ \A is : Has(Tail(q), is) => Has(q, is)
         /\ OneOfEach(q) => OneOfEach(Tail(q)) /\ ~Has(Tail(q), Head(q).is)
<1> DEFINE s == Tail(q)
<1>1. /\ s \in Seq(ExchangeNotice) /\ Len(q) \in Nat \ {0} /\ Len(s) = Len(q) - 1
      /\ Head(q) = q[1] /\ q[1] \in ExchangeNotice /\ \A i \in 1 .. Len(s) : s[i] = q[i + 1]
  OBVIOUS
<1>2. s # <<>> => Len(s) \in 1 .. Len(s) /\ Len(s) + 1 = Len(q) BY <1>1
<1>3. s = <<>> => Len(q) = 1 BY <1>1
<1> HIDE DEF s
<1>4. s # <<>> => LastPub(s) = LastPub(q) BY <1>1, <1>2 DEF LastPub
<1>5. s = <<>> => Head(q).pub = LastPub(q) BY <1>1, <1>3 DEF LastPub
<1>6. /\ 1 \in 1 .. Len(q)
      /\ \A i \in 1 .. Len(s) : i + 1 \in 1 .. Len(q) /\ i + 1 # 1
      /\ \A i, j \in 1 .. Len(s) : i + 1 = j + 1 => i = j
  BY <1>1
<1>7. Has(q, Head(q).is) BY <1>1, <1>6 DEF Has
<1>8. \A is : Has(s, is) => Has(q, is) BY <1>1, <1>6 DEF Has
<1>9. ASSUME OneOfEach(q) PROVE OneOfEach(s) /\ ~Has(s, Head(q).is)
  <2>1. OneOfEach(s) BY <1>1, <1>6, <1>9 DEF OneOfEach
  <2>2. ~Has(s, Head(q).is) BY <1>1, <1>6, <1>9 DEF OneOfEach, Has
  <2> QED BY <2>1, <2>2
<1> QED BY <1>1, <1>4, <1>5, <1>7, <1>8, <1>9 DEF s

\* There is no notice in an empty queue.
LEMMA NoneUnderWay == OneOfEach(<<>>) /\ \A is : ~Has(<<>>, is)
<1>1. Len(<<>>) = 0 OBVIOUS
<1>2. \A i : i \notin 1 .. 0 OBVIOUS
<1> QED BY <1>1, <1>2 DEF OneOfEach, Has

\* Two clients agree when each does with its peer.
LEMMA BothAgree ==
  ASSUME NEW c \in Clients, AgreeFor(c, Peer(c))', AgreeFor(Peer(c), c)'
  PROVE  ExchangeAgrees'
BY PeerIs DEF ExchangeAgrees

\* A client that starts an exchange waits with a new pair, which its peer will read.
LEMMA StartAgrees ==
  ASSUME ExchangeInv, NEW c \in Clients, StartExchange(c)
  PROVE  ExchangeInv'
<1> DEFINE p == Peer(c)
           n == Notice("INIT", NewPair(c))
<1>1. p \in Clients /\ p # c /\ Peer(p) = c BY PeerIs
<1>2. NewPair(c) \in Pair /\ NewPair(c) # Absent /\ n \in ExchangeNotice
      /\ n.is = "INIT" /\ n.pub = NewPair(c)
  BY LegacyAssumption DEF ExchangeInv, ExchangeShape, ExchangeTypes, NewPair, Notice, Pair, ExchangeNotice
<1>3. /\ notices[p] \in Seq(ExchangeNotice) /\ notices[c] \in Seq(ExchangeNotice)
      /\ private[p] \in Pair \cup {Absent}
  BY <1>1 DEF ExchangeInv, ExchangeShape, ExchangeTypes, KeysShape
<1> HIDE DEF p
<1>4. /\ dh' = [dh EXCEPT ![c] = TRUE] /\ private' = [private EXCEPT ![c] = NewPair(c)]
      /\ pairs' = [pairs EXCEPT ![c] = pairs[c] + 1]
      /\ notices' = [notices EXCEPT ![p] = Append(notices[p], n)]
      /\ settled' = (Quiet \/ (settled /\ ~dh[c])) /\ keys' = keys
  BY DEF StartExchange, GenerateKeyPair, p
<1> HIDE DEF n
<1>5. Append(notices[p], n) \in Seq(ExchangeNotice) BY <1>2, <1>3, Pushed
<1>6. ExchangeShape'
  <2>1. ExchangeTypes' BY <1>1, <1>2, <1>4, <1>5 DEF ExchangeInv, ExchangeShape, ExchangeTypes
  <2>2. KeysShape' BY <1>4, KeysKept DEF ExchangeInv, ExchangeShape, ExchangeTypes
  <2> QED BY <2>1, <2>2 DEF ExchangeShape
<1>7. /\ dh'[c] = TRUE /\ dh'[p] = dh[p] /\ private'[c] = NewPair(c) /\ private'[p] = private[p]
      /\ notices'[p] = Append(notices[p], n) /\ notices'[c] = notices[c]
      /\ keys'[p][c] = keys[p][c]
  BY <1>1, <1>4 DEF ExchangeInv, ExchangeShape, ExchangeTypes, KeysShape
<1>8. /\ notices'[p] # <<>> /\ LastPub(notices'[p]) = NewPair(c)
      /\ Has(notices'[p], "FINISH") => Has(notices[p], "FINISH")
      /\ OneOfEach(notices[p]) /\ ~Has(notices[p], "INIT") => OneOfEach(notices'[p])
  BY <1>2, <1>3, <1>7, Pushed
<1>9. ASSUME settled' PROVE AgreeFor(c, p)' /\ AgreeFor(p, c)'
  <2>1. CASE Quiet
    <3>1. notices[c] = <<>> /\ notices[p] = <<>> /\ ~dh[p] BY <1>1, <2>1 DEF Quiet
    <3> QED BY <1>2, <1>7, <1>8, <3>1, NoneUnderWay
        DEF AgreeFor, WaitsWithPair, LatestPair, KeyOfPairs, InitAwaited, FinishAwaited
  <2>2. CASE settled /\ ~dh[c]
    <3>1. AgreeFor(c, p) /\ AgreeFor(p, c) BY <1>1, <2>2 DEF ExchangeInv, ExchangeAgrees, p
    <3> QED BY <1>2, <1>7, <1>8, <2>2, <3>1
        DEF AgreeFor, WaitsWithPair, LatestPair, KeyOfPairs, InitAwaited, FinishAwaited
  <2> QED BY <1>4, <1>9, <2>1, <2>2
<1>10. ASSUME settled' PROVE ExchangeAgrees' BY <1>9, <1>10, BothAgree DEF p
<1>11. ~settled' => ExchangeAgrees' BY DEF ExchangeAgrees
<1> QED BY <1>6, <1>10, <1>11 DEF ExchangeInv

\* A client that answers takes the sender's pair and keeps a new one, which the
\* sender, who waits for it, will read.
LEMMA AnswerAgrees ==
  ASSUME ExchangeInv, NEW c \in Clients, ReceiveInit(c)
  PROVE  ExchangeInv'
<1> DEFINE p == Peer(c)
           mine == NewPair(c)
           theirs == Head(notices[c]).pub
           n == Notice("FINISH", mine)
<1>1. p \in Clients /\ p # c /\ Peer(p) = c /\ p \in Targets(c) BY PeerIs DEF Targets
<1>2. mine \in Pair /\ mine # Absent /\ n \in ExchangeNotice
      /\ n.is = "FINISH" /\ n.pub = mine
  BY LegacyAssumption DEF ExchangeInv, ExchangeShape, ExchangeTypes, NewPair, Notice, Pair, ExchangeNotice
<1>3. /\ notices[p] \in Seq(ExchangeNotice) /\ notices[c] \in Seq(ExchangeNotice)
      /\ notices[c] # <<>> /\ Head(notices[c]).is = "INIT"
  BY <1>1 DEF ExchangeInv, ExchangeShape, ExchangeTypes, ReceiveInit, Arrived
<1> HIDE DEF p, mine, theirs
<1>4. /\ private' = [private EXCEPT ![c] = mine]
      /\ pairs' = [pairs EXCEPT ![c] = pairs[c] + 1]
      /\ notices' = [notices EXCEPT ![c] = Tail(notices[c]), ![p] = Append(notices[p], n)]
      /\ keys' = [keys EXCEPT ![c][p] = {mine, theirs}]
      /\ dh' = dh /\ settled' = settled
  BY <1>1 DEF ReceiveInit, GenerateKeyPair, StoreSecret, ExchangeInv, ExchangeShape,
              p, mine, theirs
<1> HIDE DEF n
<1>5. /\ Append(notices[p], n) \in Seq(ExchangeNotice)
      /\ Tail(notices[c]) \in Seq(ExchangeNotice)
  BY <1>2, <1>3, Pushed, Popped
<1>6. ExchangeShape'
  <2>1. /\ pairs' \in [Clients -> Nat] /\ private' \in [Clients -> Pair \cup {Absent}]
        /\ dh' \in [Clients -> BOOLEAN] /\ settled' \in BOOLEAN
    BY <1>2, <1>4 DEF ExchangeInv, ExchangeShape, ExchangeTypes
  <2>2. notices' \in [Clients -> Seq(ExchangeNotice)]
    BY <1>1, <1>4, <1>5 DEF ExchangeInv, ExchangeShape, ExchangeTypes
  <2>3. KeysShape' BY <1>4, KeyChanged DEF ExchangeInv, ExchangeShape, ExchangeTypes
  <2> QED BY <2>1, <2>2, <2>3 DEF ExchangeShape, ExchangeTypes
<1>7. /\ dh'[c] = dh[c] /\ dh'[p] = dh[p] /\ private'[c] = mine /\ private'[p] = private[p]
      /\ notices'[p] = Append(notices[p], n) /\ notices'[c] = Tail(notices[c])
  BY <1>1, <1>4 DEF ExchangeInv, ExchangeShape, ExchangeTypes, KeysShape
<1>8. keys'[c][p] = {mine, theirs} /\ keys'[p][c] = keys[p][c]
  BY <1>1, <1>4 DEF ExchangeInv, ExchangeShape, ExchangeTypes, KeysShape
<1>9. /\ notices'[p] # <<>> /\ LastPub(notices'[p]) = mine
      /\ Has(notices'[p], "INIT") => Has(notices[p], "INIT")
      /\ OneOfEach(notices[p]) /\ ~Has(notices[p], "FINISH") => OneOfEach(notices'[p])
  BY <1>2, <1>3, <1>7, Pushed
<1>10. /\ Has(notices[c], "INIT")
       /\ notices'[c] # <<>> => LastPub(notices'[c]) = LastPub(notices[c])
       /\ notices'[c] = <<>> => theirs = LastPub(notices[c])
       /\ \A is : Has(notices'[c], is) => Has(notices[c], is)
       /\ OneOfEach(notices[c]) => OneOfEach(notices'[c]) /\ ~Has(notices'[c], "INIT")
  <2>1. Head(notices[c]).pub = theirs BY DEF theirs
  <2> QED BY <1>3, <1>7, <2>1, Popped
<1>11. ASSUME settled' PROVE AgreeFor(c, p)' /\ AgreeFor(p, c)'
  <2>1. AgreeFor(c, p) /\ AgreeFor(p, c)
    BY <1>1, <1>4, <1>11 DEF ExchangeInv, ExchangeAgrees, p
  <2>2. /\ dh[p] /\ ~Has(notices[p], "FINISH") /\ LastPub(notices[c]) = private[p]
        /\ OneOfEach(notices[c]) /\ OneOfEach(notices[p])
    BY <1>3, <1>10, <2>1 DEF AgreeFor, InitAwaited, LatestPair
  <2>3. AgreeFor(c, p)'
    BY <1>2, <1>7, <1>8, <1>10, <2>1, <2>2
    DEF AgreeFor, WaitsWithPair, LatestPair, KeyOfPairs, InitAwaited, FinishAwaited
  <2>4. AgreeFor(p, c)'
    BY <1>7, <1>8, <1>9, <1>10, <2>1, <2>2
    DEF AgreeFor, WaitsWithPair, LatestPair, KeyOfPairs, InitAwaited, FinishAwaited
  <2> QED BY <2>3, <2>4
<1>12. ASSUME settled' PROVE ExchangeAgrees' BY <1>11, <1>12, BothAgree DEF p
<1>13. ~settled' => ExchangeAgrees' BY DEF ExchangeAgrees
<1> QED BY <1>6, <1>12, <1>13 DEF ExchangeInv

\* A client that reads the answer waits no more and takes the sender's pair.
LEMMA FinishAgrees ==
  ASSUME ExchangeInv, NEW c \in Clients, ReceiveFinish(c)
  PROVE  ExchangeInv'
<1> DEFINE p == Peer(c)
           theirs == Head(notices[c]).pub
<1>1. p \in Clients /\ p # c /\ Peer(p) = c /\ p \in Targets(c) BY PeerIs DEF Targets
<1>2. /\ notices[c] \in Seq(ExchangeNotice)
      /\ notices[c] # <<>> /\ Head(notices[c]).is = "FINISH"
  BY <1>1 DEF ExchangeInv, ExchangeShape, ExchangeTypes, ReceiveFinish, Arrived
<1> HIDE DEF p, theirs
<1>3. /\ private' = private /\ pairs' = pairs /\ settled' = settled
      /\ notices' = [notices EXCEPT ![c] = Tail(notices[c])]
      /\ dh' = [dh EXCEPT ![c] = FALSE]
      /\ IF dh[c] /\ private[c] # Absent
         THEN keys' = [keys EXCEPT ![c][p] = {private[c], theirs}]
         ELSE keys' = keys
  BY DEF ReceiveFinish, StoreSecret, p, theirs
<1>4. Tail(notices[c]) \in Seq(ExchangeNotice) BY <1>2, Popped
<1>5. ExchangeShape'
  <2>1. ExchangeTypes' BY <1>3, <1>4 DEF ExchangeInv, ExchangeShape, ExchangeTypes
  <2>2. KeysShape' BY <1>3, KeyChanged, KeysKept DEF ExchangeInv, ExchangeShape, ExchangeTypes
  <2> QED BY <2>1, <2>2 DEF ExchangeShape
<1>6. /\ dh'[c] = FALSE /\ dh'[p] = dh[p] /\ private'[c] = private[c]
      /\ private'[p] = private[p]
      /\ notices'[p] = notices[p] /\ notices'[c] = Tail(notices[c])
  BY <1>1, <1>3 DEF ExchangeInv, ExchangeShape, ExchangeTypes, KeysShape
<1>7. /\ dh[c] /\ private[c] # Absent => keys'[c][p] = {private[c], theirs}
      /\ keys'[p][c] = keys[p][c]
  BY <1>1, <1>3 DEF ExchangeInv, ExchangeShape, ExchangeTypes, KeysShape
<1>8. /\ Has(notices[c], "FINISH")
      /\ notices'[c] # <<>> => LastPub(notices'[c]) = LastPub(notices[c])
      /\ notices'[c] = <<>> => theirs = LastPub(notices[c])
      /\ \A is : Has(notices'[c], is) => Has(notices[c], is)
      /\ OneOfEach(notices[c]) => OneOfEach(notices'[c]) /\ ~Has(notices'[c], "FINISH")
  <2>1. Head(notices[c]).pub = theirs BY DEF theirs
  <2> QED BY <1>2, <1>6, <2>1, Popped
<1>9. ASSUME settled' PROVE AgreeFor(c, p)' /\ AgreeFor(p, c)'
  <2>1. AgreeFor(c, p) /\ AgreeFor(p, c)
    BY <1>1, <1>3, <1>9 DEF ExchangeInv, ExchangeAgrees, p
  <2>2. /\ dh[c] /\ private[c] # Absent /\ LastPub(notices[c]) = private[p]
        /\ OneOfEach(notices[c]) /\ ~Has(notices[p], "INIT")
    BY <1>2, <1>8, <2>1 DEF AgreeFor, FinishAwaited, WaitsWithPair, InitAwaited, LatestPair
  <2>3. AgreeFor(c, p)'
    BY <1>6, <1>7, <1>8, <2>1, <2>2
    DEF AgreeFor, WaitsWithPair, LatestPair, KeyOfPairs, InitAwaited, FinishAwaited
  <2>4. AgreeFor(p, c)'
    BY <1>6, <1>7, <1>8, <2>1, <2>2
    DEF AgreeFor, WaitsWithPair, LatestPair, KeyOfPairs, InitAwaited, FinishAwaited
  <2> QED BY <2>3, <2>4
<1>10. ASSUME settled' PROVE ExchangeAgrees' BY <1>9, <1>10, BothAgree DEF p
<1>11. ~settled' => ExchangeAgrees' BY DEF ExchangeAgrees
<1> QED BY <1>5, <1>10, <1>11 DEF ExchangeInv

\* The user changes one key, which leaves the exchange alone unless it is the peer's.
LEMMA EditAgrees ==
  ASSUME ExchangeInv, NEW c \in Clients, NEW t \in Targets(c), NEW k,
         keys' = [keys EXCEPT ![c][t] = k], Disturbed(c, t), UNCHANGED local
  PROVE  ExchangeInv'
<1> USE DEF local
<1>1. KeysShape' BY KeyChanged DEF ExchangeInv, ExchangeShape, ExchangeTypes
<1>2. ExchangeTypes' BY DEF ExchangeInv, ExchangeShape, ExchangeTypes, Disturbed
<1>3. ExchangeShape' BY <1>1, <1>2 DEF ExchangeShape
<1>4. ASSUME settled' PROVE ExchangeAgrees'
  <2>1. settled /\ t # Peer(c) BY <1>4 DEF Disturbed
  <2>2. ASSUME NEW d \in Clients PROVE AgreeFor(d, Peer(d))'
    <3>1. Peer(d) \in Targets(d) BY DEF Targets
    <3>2. keys'[d][Peer(d)] = keys[d][Peer(d)] BY <2>1, <3>1 DEF ExchangeInv, ExchangeShape, ExchangeTypes
    <3>3. AgreeFor(d, Peer(d)) BY <2>1 DEF ExchangeInv, ExchangeAgrees
    <3>4. /\ notices'[d] = notices[d] /\ notices'[Peer(d)] = notices[Peer(d)]
          /\ dh'[d] = dh[d] /\ dh'[Peer(d)] = dh[Peer(d)]
          /\ private'[d] = private[d] /\ private'[Peer(d)] = private[Peer(d)]
      OBVIOUS
    <3> QED BY <3>2, <3>3, <3>4
        DEF AgreeFor, WaitsWithPair, LatestPair, KeyOfPairs, InitAwaited, FinishAwaited
  <2> QED BY <2>2 DEF ExchangeAgrees, Peer
<1>5. ~settled' => ExchangeAgrees' BY DEF ExchangeAgrees
<1> QED BY <1>3, <1>4, <1>5 DEF ExchangeInv

\* What the exchange does not use may change.
LEMMA LeftAlone ==
  ASSUME ExchangeInv, UNCHANGED <<keys, settled>>, UNCHANGED local
  PROVE  ExchangeInv'
<1> USE DEF local
<1>1. ExchangeTypes' BY DEF ExchangeInv, ExchangeShape, ExchangeTypes
<1>2. KeysShape' BY KeysKept DEF ExchangeInv, ExchangeShape
<1>3. ASSUME settled' PROVE ExchangeAgrees'
  <2>1. ASSUME NEW d \in Clients PROVE AgreeFor(d, Peer(d))'
    BY <1>3 DEF ExchangeInv, ExchangeAgrees, AgreeFor, WaitsWithPair, LatestPair, KeyOfPairs,
                InitAwaited, FinishAwaited
  <2> QED BY <2>1 DEF ExchangeAgrees, Peer
<1>4. ~settled' => ExchangeAgrees' BY DEF ExchangeAgrees
<1> QED BY <1>1, <1>2, <1>3, <1>4 DEF ExchangeInv, ExchangeShape

\* Such a step leaves the notices to a client as they are or takes them all.
LEMMA LostNotices ==
  ASSUME ExchangeTypes, NEW c \in Clients,
         Timeout(c) \/ ReloadDll(c) \/ RestartMirc(c) \/ Disconnect(c)
  PROVE  /\ notices' = [d \in Clients |-> notices'[d]]
         /\ \A d \in Clients : notices'[d] \in {<<>>, notices[d]}
<1>1. notices = [d \in Clients |-> notices[d]] BY DEF ExchangeTypes
<1>2. CASE Disconnect(c)
  <2>1. PICK arrives \in BOOLEAN :
          notices' = [d \in Clients |-> IF d = c \/ ~arrives THEN <<>> ELSE notices[d]]
    BY <1>2 DEF Disconnect
  <2> QED BY <2>1
<1>3. CASE Timeout(c) \/ ReloadDll(c) \/ RestartMirc(c)
  <2>1. notices' = notices \/ notices' = [notices EXCEPT ![c] = <<>>]
    BY <1>3 DEF Timeout, ReloadDll, RestartMirc
  <2> QED BY <1>1, <2>1
<1> QED BY <1>2, <1>3

\* A timeout, a disconnect, a reload or a restart, after which nothing is promised.
LEMMA DisturbedAgrees ==
  ASSUME ExchangeInv, NEW c \in Clients,
         Timeout(c) \/ ReloadDll(c) \/ RestartMirc(c) \/ Disconnect(c)
  PROVE  ExchangeInv'
<1>1. /\ pairs' = pairs /\ settled' = FALSE
      /\ private' = private \/ private' = [private EXCEPT ![c] = Absent]
      /\ dh' = dh \/ dh' = [dh EXCEPT ![c] = FALSE]
      /\ \/ keys' = keys
         \/ keys' = [keys EXCEPT ![c] = LoadedKeys(c, file[c])]
         \/ keys' = [keys EXCEPT ![c] = NoKeys(c)]
  BY DEF Timeout, ReloadDll, RestartMirc, LoadLegacyConfig, Disconnect
<1>2. KeysShape' BY <1>1, KeysLoaded, KeysKept DEF ExchangeInv, ExchangeShape, ExchangeTypes
<1>3. /\ pairs' \in [Clients -> Nat] /\ dh' \in [Clients -> BOOLEAN] /\ settled' \in BOOLEAN
      /\ private' \in [Clients -> Pair \cup {Absent}]
  BY <1>1 DEF ExchangeInv, ExchangeShape, ExchangeTypes, KeysShape
<1>4. notices' \in [Clients -> Seq(ExchangeNotice)]
  <2>1. <<>> \in Seq(ExchangeNotice) OBVIOUS
  <2>2. notices \in [Clients -> Seq(ExchangeNotice)] BY DEF ExchangeInv, ExchangeShape, ExchangeTypes
  <2>3. /\ notices' = [d \in Clients |-> notices'[d]]
        /\ \A d \in Clients : notices'[d] \in {<<>>, notices[d]}
    BY LostNotices DEF ExchangeInv, ExchangeShape
  <2> QED BY <2>1, <2>2, <2>3
<1>5. ExchangeShape' BY <1>2, <1>3, <1>4 DEF ExchangeShape, ExchangeTypes
<1>6. ExchangeAgrees' BY <1>1 DEF ExchangeAgrees
<1> QED BY <1>5, <1>6 DEF ExchangeInv

\* In an exchange that nobody disturbs, whoever neither waits nor has a notice to
\* read has the key of the two pairs that are kept: in every reachable state.
THEOREM ExchangeInvariant == LegacySpec => []ExchangeInv
<1>1. LegacyInit => ExchangeInv
  <2> SUFFICES ASSUME LegacyInit PROVE ExchangeInv OBVIOUS
  <2>1. <<>> \in Seq(ExchangeNotice) OBVIOUS
  <2>2. ExchangeTypes BY <2>1 DEF LegacyInit, ExchangeTypes
  <2>3. KeysShape BY DEF LegacyInit, KeysShape, LoadedKeys, NoKeys
  <2>4. ExchangeAgrees BY DEF LegacyInit, ExchangeAgrees
  <2> QED BY <2>2, <2>3, <2>4 DEF ExchangeInv, ExchangeShape
<1>2. ExchangeInv /\ [LegacyNext]_legacyVars => ExchangeInv'
  <2> SUFFICES ASSUME ExchangeInv, [LegacyNext]_legacyVars PROVE ExchangeInv' OBVIOUS
  <2>1. ASSUME NEW c \in Editors, NEW t \in Targets(c), NEW k \in ManualKeys, SetKey(c, t, k)
        PROVE  ExchangeInv'
    BY <2>1, LegacyAssumption, EditAgrees DEF SetKey
  <2>2. ASSUME NEW c \in Editors, NEW t \in Targets(c), DelKey(c, t) PROVE ExchangeInv'
    BY <2>2, LegacyAssumption, EditAgrees DEF DelKey
  <2>3. ASSUME UNCHANGED <<keys, settled>>, UNCHANGED local PROVE ExchangeInv'
    BY <2>3, LeftAlone
  <2>4. ASSUME NEW c \in Editors, SetTopicSetting(c) PROVE ExchangeInv'
    BY <2>3, <2>4 DEF SetTopicSetting
  <2>5. ASSUME NEW c \in Clients, StartExchange(c) PROVE ExchangeInv' BY <2>5, StartAgrees
  <2>6. ASSUME NEW c \in Clients, ReceiveInit(c) PROVE ExchangeInv' BY <2>6, AnswerAgrees
  <2>7. ASSUME NEW c \in Clients, ReceiveFinish(c) PROVE ExchangeInv' BY <2>7, FinishAgrees
  <2>8. ASSUME NEW c \in Clients, Timeout(c) \/ ReloadDll(c) \/ RestartMirc(c) \/ Disconnect(c)
        PROVE  ExchangeInv'
    BY <2>8, DisturbedAgrees
  <2>9. CASE UNCHANGED legacyVars BY <2>3, <2>9 DEF legacyVars, local
  <2> QED BY <2>1, <2>2, <2>4, <2>5, <2>6, <2>7, <2>8, <2>9 DEF LegacyNext
<1> QED BY <1>1, <1>2, PTL DEF LegacySpec

\* When an exchange that started in a quiet moment and was not disturbed is over,
\* both clients hold the same key, for any keys, channels and number of exchanges,
\* however their two starts and the notices interleave.
THEOREM QuietClientsAgreeHolds == LegacySpec => []QuietClientsAgree
<1>1. ExchangeInv => QuietClientsAgree
  <2> SUFFICES ASSUME ExchangeInv, settled, Quiet, NEW c \in Clients
               PROVE  keys[c][Peer(c)] = keys[Peer(c)][c]
    BY DEF QuietClientsAgree
  <2>1. Peer(c) \in Clients /\ Peer(Peer(c)) = c BY PeerIs
  <2>2. AgreeFor(c, Peer(c)) /\ AgreeFor(Peer(c), c)
    BY <2>1 DEF ExchangeInv, ExchangeAgrees
  <2> QED BY <2>1, <2>2 DEF AgreeFor, KeyOfPairs, Quiet
<1> QED BY <1>1, ExchangeInvariant, PTL

-----------------------------------------------------------------------------
(* Legacy: types.                                                          *)

\* Pair p is one of those that were generated when each client had made this many.
MadeBy(made, p) == p \in Pair /\ p[2] \in 1 .. made[p[1]]
KeyBy(made, k) == k \in ManualKeys \cup {Absent} \/ \A p \in k : MadeBy(made, p)

ApartTargets == \A c \in Clients : apart[c] \subseteq Targets(c)
PrivateMade == \A c \in Clients : private[c] = Absent \/ MadeBy(pairs, private[c])
NoticesMade == \A c \in Clients : \A i \in 1 .. Len(notices[c]) : MadeBy(pairs, notices[c][i].pub)
KeysMade == \A c \in Clients : \A t \in Targets(c) : KeyBy(pairs, keys[c][t])

MadeInv == ApartTargets /\ PrivateMade /\ NoticesMade /\ KeysMade /\ starts \in 0 .. MaxStarts

\* What was generated stays so when clients generate more.
LEMMA MadeStays ==
  ASSUME NEW m \in [Clients -> Nat], NEW n \in [Clients -> Nat],
         \A c \in Clients : m[c] <= n[c]
  PROVE  /\ \A p : MadeBy(m, p) => MadeBy(n, p)
         /\ \A k : KeyBy(m, k) => KeyBy(n, k)
<1>1. ASSUME NEW p, MadeBy(m, p) PROVE MadeBy(n, p)
  <2>1. p[1] \in Clients /\ p[2] \in Nat /\ p[2] \in 1 .. m[p[1]] BY <1>1 DEF MadeBy, Pair
  <2>2. m[p[1]] \in Nat /\ n[p[1]] \in Nat /\ m[p[1]] <= n[p[1]] BY <2>1
  <2> QED BY <1>1, <2>1, <2>2 DEF MadeBy
<1> QED BY <1>1 DEF KeyBy

\* The pair that a client generates.
LEMMA PairGenerated ==
  ASSUME ExchangeTypes, NEW c \in Clients, pairs' = [pairs EXCEPT ![c] = pairs[c] + 1]
  PROVE  /\ pairs' \in [Clients -> Nat] /\ \A d \in Clients : pairs[d] <= pairs'[d]
         /\ MadeBy(pairs', NewPair(c))
<1>1. pairs \in [Clients -> Nat] BY DEF ExchangeTypes
<1>2. pairs' \in [Clients -> Nat] /\ pairs'[c] = pairs[c] + 1 BY <1>1
<1>3. ASSUME NEW d \in Clients PROVE pairs[d] <= pairs'[d]
  <2>1. pairs[d] \in Nat BY <1>1
  <2> QED BY <1>1, <2>1
<1>4. /\ NewPair(c) \in Pair /\ NewPair(c)[1] = c /\ NewPair(c)[2] = pairs[c] + 1
      /\ pairs[c] \in Nat
  BY <1>1 DEF NewPair, Pair
<1>5. NewPair(c)[2] \in 1 .. pairs'[c] BY <1>2, <1>4
<1> QED BY <1>2, <1>3, <1>4, <1>5 DEF MadeBy

\* A notice joins others whose pairs were generated, or the first of them goes.
LEMMA PushedMade ==
  ASSUME NEW q \in Seq(ExchangeNotice), NEW n \in ExchangeNotice, NEW made,
         \A i \in 1 .. Len(q) : MadeBy(made, q[i].pub), MadeBy(made, n.pub)
  PROVE  \A i \in 1 .. Len(Append(q, n)) : MadeBy(made, Append(q, n)[i].pub)
<1>1. /\ Len(q) \in Nat /\ Len(Append(q, n)) = Len(q) + 1 /\ Append(q, n)[Len(q) + 1] = n
      /\ \A i \in 1 .. Len(q) : Append(q, n)[i] = q[i]
  OBVIOUS
<1>2. \A i : i \in 1 .. Len(Append(q, n)) <=> i \in 1 .. Len(q) \/ i = Len(q) + 1 BY <1>1
<1> QED BY <1>1, <1>2

\* The first of them was generated like the others.
LEMMA PoppedMade ==
  ASSUME NEW q \in Seq(ExchangeNotice), q # <<>>, NEW made,
         \A i \in 1 .. Len(q) : MadeBy(made, q[i].pub)
  PROVE  /\ MadeBy(made, Head(q).pub)
         /\ \A i \in 1 .. Len(Tail(q)) : MadeBy(made, Tail(q)[i].pub)
<1>1. /\ Len(q) \in Nat \ {0} /\ Head(q) = q[1] /\ 1 \in 1 .. Len(q)
      /\ \A i \in 1 .. Len(Tail(q)) : Tail(q)[i] = q[i + 1] /\ i + 1 \in 1 .. Len(q)
  OBVIOUS
<1> QED BY <1>1

\* What a file gives is a key written by hand, or none.
LEMMA LoadedByHand ==
  ASSUME NEW f \in Seq(LegacyLine), NEW t
  PROVE  Loaded(f, t) \in ManualKeys \cup {Absent}
<1>1. CASE BadLine \in Range(f) BY <1>1 DEF Loaded
<1>2. CASE BadLine \notin Range(f)
  <2>1. WholeFile(f) BY <1>2 DEF WholeFile
  <2>2. ASSUME NEW i \in LinesOf(f, t) PROVE f[i].key \in ManualKeys
    <3>1. f[i] \in LegacyLine /\ f[i].is = "key" BY DEF LinesOf
    <3> QED BY <3>1 DEF LegacyLine, KeyLine, BadLine
  <2> QED BY <2>1, <2>2, LoadedLast
<1> QED BY <1>1, <1>2

\* A write of the file leaves apart targets only.
LEMMA WriteUnsaved ==
  ASSUME HoldingShape, ApartTargets, NEW c \in Clients, NEW f, NEW after, NEW failed,
         WriteFile(c, f, after, failed), after \subseteq Targets(c), failed \subseteq Targets(c)
  PROVE  ApartTargets'
<1>1. apart = [d \in Clients |-> apart[d]] BY DEF HoldingShape
<1>2. ASSUME NEW d \in Clients PROVE apart'[d] \subseteq Targets(d)
  BY <1>1 DEF WriteFile, ApartTargets
<1> QED BY <1>2 DEF ApartTargets, Targets, Peer

\* A key changes, or none, while the pairs stay or grow.
LEMMA KeyMadeNext ==
  ASSUME KeysShape, KeysMade, NEW c \in Clients, NEW t, NEW k, KeyBy(pairs', k),
         keys' = keys \/ keys' = [keys EXCEPT ![c][t] = k],
         \A j : KeyBy(pairs, j) => KeyBy(pairs', j)
  PROVE  KeysMade'
<1>1. ASSUME NEW d \in Clients, NEW u \in Targets(d) PROVE KeyBy(pairs', keys'[d][u])
  <2>1. keys'[d][u] = keys[d][u] \/ keys'[d][u] = k BY DEF KeysShape
  <2> QED BY <2>1 DEF KeysMade
<1> QED BY <1>1 DEF KeysMade, Targets, Peer

\* A step that neither generates a pair nor sends a notice.
LEMMA PairsMadeKept ==
  ASSUME PrivateMade, NoticesMade, UNCHANGED <<pairs, private, notices>>
  PROVE  PrivateMade' /\ NoticesMade'
BY DEF PrivateMade, NoticesMade

\* The user's edits, and steps that leave all of it.
LEMMA EditMade ==
  ASSUME MadeInv, SavedInv, ExchangeInv, NEW c \in Clients, NEW t \in Targets(c),
         NEW k \in ManualKeys \cup {Absent}, NEW f, NEW after, NEW failed,
         keys' = keys \/ keys' = [keys EXCEPT ![c][t] = k],
         WriteFile(c, f, after, failed), after \subseteq Targets(c), failed \subseteq Targets(c),
         UNCHANGED local
  PROVE  MadeInv'
<1>1. KeysShape /\ HoldingShape /\ ApartTargets /\ KeysMade /\ PrivateMade /\ NoticesMade
  BY DEF MadeInv, SavedInv, HoldingShape
<1>2. pairs' = pairs /\ private' = private /\ notices' = notices /\ starts' = starts BY DEF local
<1>3. ApartTargets' BY <1>1, WriteUnsaved
<1>4. PrivateMade' /\ NoticesMade' BY <1>1, <1>2, PairsMadeKept
<1>5. KeyBy(pairs', k) /\ \A j : KeyBy(pairs, j) => KeyBy(pairs', j) BY <1>2 DEF KeyBy
<1>6. KeysMade' BY <1>1, <1>5, KeyMadeNext
<1> QED BY <1>2, <1>3, <1>4, <1>6 DEF MadeInv

\* fish10_keyx.
LEMMA StartMade ==
  ASSUME MadeInv, ExchangeInv, NEW c \in Clients, StartExchange(c)
  PROVE  MadeInv'
<1> DEFINE p == Peer(c)
           n == Notice("INIT", NewPair(c))
<1>1. ExchangeTypes /\ KeysShape BY DEF ExchangeInv, ExchangeShape
<1>2. p \in Clients /\ p # c BY PeerIs
<1>3. n \in ExchangeNotice /\ n.pub = NewPair(c)
  BY <1>1 DEF ExchangeTypes, NewPair, Notice, Pair, ExchangeNotice
<1> HIDE DEF p, n
<1>4. /\ private' = [private EXCEPT ![c] = NewPair(c)]
      /\ pairs' = [pairs EXCEPT ![c] = pairs[c] + 1]
      /\ notices' = [notices EXCEPT ![p] = Append(notices[p], n)]
      /\ keys' = keys /\ apart' = apart
      /\ starts < MaxStarts /\ starts' = starts + 1
  BY DEF StartExchange, GenerateKeyPair, p, n
<1>5. pairs \in [Clients -> Nat] /\ pairs' \in [Clients -> Nat]
      /\ (\A d \in Clients : pairs[d] <= pairs'[d]) /\ MadeBy(pairs', NewPair(c))
  BY <1>1, <1>4, PairGenerated DEF ExchangeTypes
<1>6. /\ \A q : MadeBy(pairs, q) => MadeBy(pairs', q)
      /\ \A k : KeyBy(pairs, k) => KeyBy(pairs', k)
  BY <1>5, MadeStays
<1>7. PrivateMade' BY <1>1, <1>4, <1>5, <1>6 DEF MadeInv, PrivateMade, ExchangeTypes
<1>8. NoticesMade'
  <2>1. ASSUME NEW d \in Clients, NEW i \in 1 .. Len(notices'[d])
        PROVE  MadeBy(pairs', notices'[d][i].pub)
    <3>1. notices[p] \in Seq(ExchangeNotice) /\ \A e \in Clients : e # p => notices'[e] = notices[e]
      BY <1>1, <1>2, <1>4 DEF ExchangeTypes
    <3>2. notices'[p] = Append(notices[p], n) BY <1>1, <1>2, <1>4 DEF ExchangeTypes
    <3>3. CASE d = p BY <1>3, <1>5, <1>6, <2>1, <3>1, <3>2, <3>3, PushedMade DEF MadeInv, NoticesMade
    <3>4. CASE d # p BY <1>6, <2>1, <3>1, <3>4 DEF MadeInv, NoticesMade
    <3> QED BY <3>3, <3>4
  <2> QED BY <2>1 DEF NoticesMade
<1>9. KeysMade'
  <2>1. ASSUME NEW d \in Clients, NEW u \in Targets(d) PROVE KeyBy(pairs', keys'[d][u])
    BY <1>4, <1>6 DEF MadeInv, KeysMade
  <2> QED BY <2>1 DEF KeysMade, Targets, Peer
<1>10. ApartTargets' BY <1>4 DEF MadeInv, ApartTargets, Targets, Peer
<1>11. starts' \in 0 .. MaxStarts
  <2>1. starts \in 0 .. MaxStarts /\ MaxStarts \in Nat BY LegacyAssumption DEF MadeInv
  <2> QED BY <1>4, <2>1
<1> QED BY <1>7, <1>8, <1>9, <1>10, <1>11 DEF MadeInv

\* DH1080_INIT is answered.
LEMMA AnswerMade ==
  ASSUME MadeInv, SavedInv, ExchangeInv, NEW c \in Clients, ReceiveInit(c)
  PROVE  MadeInv'
<1> DEFINE p == Peer(c)
           n == Notice("FINISH", NewPair(c))
           theirs == Head(notices[c]).pub
<1>1. ExchangeTypes /\ KeysShape BY DEF ExchangeInv, ExchangeShape
<1>2. p \in Clients /\ p # c /\ p \in Targets(c) BY PeerIs DEF Targets
<1>3. n \in ExchangeNotice /\ n.pub = NewPair(c)
  BY <1>1 DEF ExchangeTypes, NewPair, Notice, Pair, ExchangeNotice
<1> HIDE DEF p, n
<1>4. /\ private' = [private EXCEPT ![c] = NewPair(c)]
      /\ pairs' = [pairs EXCEPT ![c] = pairs[c] + 1]
      /\ notices' = [notices EXCEPT ![c] = Tail(notices[c]), ![p] = Append(notices[p], n)]
      /\ keys' = [keys EXCEPT ![c][p] = {NewPair(c), theirs}]
      /\ apart' = [apart EXCEPT ![c] = apart[c] \cup {p}]
      /\ starts' = starts /\ notices[c] # <<>>
  BY <1>1, <1>2 DEF ExchangeTypes, ReceiveInit, Arrived, GenerateKeyPair, StoreSecret, p, n
<1>5. pairs \in [Clients -> Nat] /\ pairs' \in [Clients -> Nat]
      /\ (\A d \in Clients : pairs[d] <= pairs'[d]) /\ MadeBy(pairs', NewPair(c))
  BY <1>1, <1>4, PairGenerated DEF ExchangeTypes
<1>6. /\ \A q : MadeBy(pairs, q) => MadeBy(pairs', q)
      /\ \A k : KeyBy(pairs, k) => KeyBy(pairs', k)
  BY <1>5, MadeStays
<1>7. PrivateMade' BY <1>1, <1>4, <1>5, <1>6 DEF MadeInv, PrivateMade, ExchangeTypes
<1>8. notices[c] \in Seq(ExchangeNotice) /\ notices[p] \in Seq(ExchangeNotice)
  BY <1>1, <1>2 DEF ExchangeTypes
<1>9. /\ MadeBy(pairs', theirs)
      /\ \A i \in 1 .. Len(Tail(notices[c])) : MadeBy(pairs', Tail(notices[c])[i].pub)
  BY <1>4, <1>6, <1>8, PoppedMade DEF MadeInv, NoticesMade
<1>10. \A i \in 1 .. Len(Append(notices[p], n)) : MadeBy(pairs', Append(notices[p], n)[i].pub)
  BY <1>2, <1>3, <1>5, <1>6, <1>8, PushedMade DEF MadeInv, NoticesMade
<1>11. NoticesMade'
  <2>1. notices'[c] = Tail(notices[c]) /\ notices'[p] = Append(notices[p], n)
    BY <1>1, <1>2, <1>4 DEF ExchangeTypes
  <2>2. \A d \in Clients : d = c \/ d = p BY PeerIs DEF p
  <2>3. ASSUME NEW d \in Clients, NEW i \in 1 .. Len(notices'[d])
        PROVE  MadeBy(pairs', notices'[d][i].pub)
    BY <1>9, <1>10, <2>1, <2>2
  <2> QED BY <2>3 DEF NoticesMade
<1>12. KeysMade'
  <2>1. KeyBy(pairs', {NewPair(c), theirs}) BY <1>5, <1>9 DEF KeyBy
  <2> QED BY <1>1, <1>4, <1>6, <2>1, KeyMadeNext DEF MadeInv
<1>13. ApartTargets'
  <2>1. ASSUME NEW d \in Clients PROVE apart'[d] \subseteq Targets(d)
    <3>1. apart'[d] = IF d = c THEN apart[c] \cup {p} ELSE apart[d]
      BY <1>4 DEF SavedInv, HoldingShape
    <3> QED BY <1>2, <3>1 DEF MadeInv, ApartTargets
  <2> QED BY <2>1 DEF ApartTargets, Targets, Peer
<1> QED BY <1>4, <1>7, <1>11, <1>12, <1>13 DEF MadeInv

\* DH1080_FINISH is read.
LEMMA FinishMade ==
  ASSUME MadeInv, SavedInv, ExchangeInv, NEW c \in Clients, ReceiveFinish(c)
  PROVE  MadeInv'
<1> DEFINE p == Peer(c)
           theirs == Head(notices[c]).pub
           k == {private[c], theirs}
<1>1. ExchangeTypes /\ KeysShape BY DEF ExchangeInv, ExchangeShape
<1>2. p \in Clients /\ p # c /\ p \in Targets(c) BY PeerIs DEF Targets
<1> HIDE DEF p, theirs
<1>3. /\ private' = private /\ pairs' = pairs /\ starts' = starts
      /\ notices' = [notices EXCEPT ![c] = Tail(notices[c])] /\ notices[c] # <<>>
  BY DEF ReceiveFinish, Arrived
<1>4. \/ keys' = keys /\ apart' = apart
      \/ /\ private[c] # Absent /\ keys' = [keys EXCEPT ![c][p] = k]
         /\ apart' = [apart EXCEPT ![c] = apart[c] \cup {p}]
  BY DEF ReceiveFinish, StoreSecret, p, theirs
<1>5. notices[c] \in Seq(ExchangeNotice) BY <1>1 DEF ExchangeTypes
<1>6. /\ MadeBy(pairs, theirs)
      /\ \A i \in 1 .. Len(Tail(notices[c])) : MadeBy(pairs, Tail(notices[c])[i].pub)
  BY <1>3, <1>5, PoppedMade DEF MadeInv, NoticesMade, theirs
<1>7. PrivateMade' BY <1>3 DEF MadeInv, PrivateMade
<1>8. NoticesMade'
  <2>1. notices'[c] = Tail(notices[c]) /\ \A d \in Clients : d # c => notices'[d] = notices[d]
    BY <1>1, <1>3 DEF ExchangeTypes
  <2>2. ASSUME NEW d \in Clients, NEW i \in 1 .. Len(notices'[d])
        PROVE  MadeBy(pairs', notices'[d][i].pub)
    <3>1. CASE d = c BY <1>3, <1>6, <2>1, <2>2, <3>1
    <3>2. CASE d # c BY <1>3, <2>1, <2>2, <3>2 DEF MadeInv, NoticesMade
    <3> QED BY <3>1, <3>2
  <2> QED BY <2>2 DEF NoticesMade
<1>9. KeysMade'
  <2>1. CASE keys' = keys
    <3>1. KeyBy(pairs', Absent) BY DEF KeyBy
    <3> QED BY <1>1, <1>3, <2>1, <3>1, KeyMadeNext DEF MadeInv
  <2>2. CASE private[c] # Absent /\ keys' = [keys EXCEPT ![c][p] = k]
    <3>1. MadeBy(pairs, private[c]) BY <2>2 DEF MadeInv, PrivateMade
    <3>2. KeyBy(pairs', k) BY <1>3, <1>6, <3>1 DEF KeyBy
    <3> HIDE DEF k
    <3> QED BY <1>1, <1>3, <2>2, <3>2, KeyMadeNext DEF MadeInv
  <2> QED BY <1>4, <2>1, <2>2
<1>10. ApartTargets'
  <2>1. ASSUME NEW d \in Clients PROVE apart'[d] \subseteq Targets(d)
    <3>1. apart'[d] = apart[d] \/ (d = c /\ apart'[d] = apart[d] \cup {p})
      BY <1>4 DEF SavedInv, HoldingShape
    <3> QED BY <1>2, <3>1 DEF MadeInv, ApartTargets
  <2> QED BY <2>1 DEF ApartTargets, Targets, Peer
<1> QED BY <1>3, <1>7, <1>8, <1>9, <1>10 DEF MadeInv

\* Timeouts leave all of it; what is loaded was written by hand.
LEMMA DisturbedMade ==
  ASSUME MadeInv, SavedInv, ExchangeInv, NEW c \in Clients,
         Timeout(c) \/ ReloadDll(c) \/ RestartMirc(c) \/ Disconnect(c)
  PROVE  MadeInv'
<1>1. /\ pairs' = pairs /\ starts' = starts
      /\ private' = private \/ private' = [private EXCEPT ![c] = Absent]
      /\ \/ keys' = keys
         \/ keys' = [keys EXCEPT ![c] = LoadedKeys(c, file[c])]
         \/ keys' = [keys EXCEPT ![c] = NoKeys(c)]
      /\ \/ apart' = apart
         \/ apart' = [apart EXCEPT ![c] = {}]
         \/ apart' = [apart EXCEPT ![c] = Targets(c)]
  BY DEF Timeout, ReloadDll, RestartMirc, LoadLegacyConfig, Disconnect
<1>2. PrivateMade' BY <1>1 DEF MadeInv, PrivateMade, ExchangeInv, ExchangeShape, ExchangeTypes
<1>3. NoticesMade'
  <2>1. ASSUME NEW d \in Clients, NEW i \in 1 .. Len(notices'[d])
        PROVE  MadeBy(pairs', notices'[d][i].pub)
    <3>1. notices'[d] = notices[d] \/ notices'[d] = <<>>
      BY LostNotices DEF ExchangeInv, ExchangeShape
    <3>2. notices'[d] = notices[d]
      <4>1. Len(<<>>) = 0 /\ \A j : j \notin 1 .. 0 OBVIOUS
      <4> QED BY <2>1, <3>1, <4>1
    <3> QED BY <1>1, <2>1, <3>2 DEF MadeInv, NoticesMade
  <2> QED BY <2>1 DEF NoticesMade
<1>4. KeysMade'
  <2>1. ASSUME NEW d \in Clients, NEW u \in Targets(d) PROVE KeyBy(pairs', keys'[d][u])
    <3>1. keys'[d][u] \in {keys[d][u], Loaded(file[d], u), Absent}
      BY <1>1 DEF ExchangeInv, ExchangeShape, KeysShape, LoadedKeys, NoKeys
    <3>2. KeyBy(pairs, keys[d][u]) BY DEF MadeInv, KeysMade
    <3>3. Loaded(file[d], u) \in ManualKeys \cup {Absent}
      BY LoadedByHand DEF SavedInv, HoldingShape
    <3> QED BY <1>1, <3>1, <3>2, <3>3 DEF KeyBy
  <2> QED BY <2>1 DEF KeysMade, Targets, Peer
<1>5. ApartTargets'
  <2>1. ASSUME NEW d \in Clients PROVE apart'[d] \subseteq Targets(d)
    BY <1>1 DEF MadeInv, ApartTargets, SavedInv, HoldingShape
  <2> QED BY <2>1 DEF ApartTargets, Targets, Peer
<1> QED BY <1>1, <1>2, <1>3, <1>4, <1>5 DEF MadeInv

\* Every pair that a client keeps, sends or makes a key of was generated.
LEMMA MadeInvariant == LegacySpec => []MadeInv
<1>1. LegacyInit => MadeInv
  <2> SUFFICES ASSUME LegacyInit PROVE MadeInv OBVIOUS
  <2>1. ApartTargets /\ PrivateMade
    BY DEF LegacyInit, ApartTargets, PrivateMade
  <2>2. NoticesMade
    <3>1. Len(<<>>) = 0 /\ \A j : j \notin 1 .. 0 OBVIOUS
    <3> QED BY <3>1 DEF LegacyInit, NoticesMade
  <2>3. KeysMade
    <3>1. ASSUME NEW d \in Clients, NEW u \in Targets(d) PROVE KeyBy(pairs, keys[d][u])
      <4>1. file[d] \in Seq(LegacyLine) BY LegacyAssumption DEF LegacyInit
      <4>2. keys[d][u] \in {Loaded(file[d], u), Absent} BY DEF LegacyInit, LoadedKeys, NoKeys
      <4> QED BY <4>1, <4>2, LoadedByHand DEF KeyBy
    <3> QED BY <3>1 DEF KeysMade
  <2>4. starts \in 0 .. MaxStarts BY LegacyAssumption DEF LegacyInit
  <2> QED BY <2>1, <2>2, <2>3, <2>4 DEF MadeInv
<1>2. MadeInv /\ SavedInv /\ ExchangeInv /\ [LegacyNext]_legacyVars => MadeInv'
  <2> SUFFICES ASSUME MadeInv, SavedInv, ExchangeInv, [LegacyNext]_legacyVars
               PROVE  MadeInv'
    OBVIOUS
  <2>1. \A c \in Clients : apart[c] \subseteq Targets(c) BY DEF MadeInv, ApartTargets
  <2>2. ASSUME NEW c \in Editors, NEW t \in Targets(c), NEW k \in ManualKeys, SetKey(c, t, k)
        PROVE  MadeInv'
    <3>1. apart[c] \ {t} \subseteq Targets(c) /\ {t} \subseteq Targets(c)
      BY <2>1, LegacyAssumption
    <3>2. /\ c \in Clients /\ k \in ManualKeys \cup {Absent}
          /\ keys' = keys \/ keys' = [keys EXCEPT ![c][t] = k]
          /\ WriteFile(c, Updated(file[c], t, k), apart[c] \ {t}, {t}) /\ UNCHANGED local
      BY <2>2, LegacyAssumption DEF SetKey
    <3> QED BY <3>1, <3>2, EditMade
  <2>3. ASSUME NEW c \in Editors, NEW t \in Targets(c), DelKey(c, t) PROVE MadeInv'
    <3>1. apart[c] \ {t} \subseteq Targets(c) /\ {t} \subseteq Targets(c)
      BY <2>1, LegacyAssumption
    <3>2. /\ c \in Clients /\ Absent \in ManualKeys \cup {Absent}
          /\ keys' = keys \/ keys' = [keys EXCEPT ![c][t] = Absent]
          /\ WriteFile(c, Updated(file[c], t, Absent), apart[c] \ {t}, {t}) /\ UNCHANGED local
      BY <2>3, LegacyAssumption DEF DelKey
    <3> QED BY <3>1, <3>2, EditMade
  <2>4. ASSUME NEW c \in Editors, SetTopicSetting(c) PROVE MadeInv'
    <3>1. /\ apart[c] \cup (ChangesHands(file[c]) \cap Targets(c)) \subseteq Targets(c)
          /\ {} \subseteq Targets(c) /\ Peer(c) \in Targets(c)
      BY <2>1, LegacyAssumption DEF Targets
    <3> QED BY <2>4, <3>1, LegacyAssumption, EditMade DEF SetTopicSetting
  <2>5. ASSUME NEW c \in Clients, StartExchange(c) PROVE MadeInv' BY <2>5, StartMade
  <2>6. ASSUME NEW c \in Clients, ReceiveInit(c) PROVE MadeInv' BY <2>6, AnswerMade
  <2>7. ASSUME NEW c \in Clients, ReceiveFinish(c) PROVE MadeInv' BY <2>7, FinishMade
  <2>8. ASSUME NEW c \in Clients, Timeout(c) \/ ReloadDll(c) \/ RestartMirc(c) \/ Disconnect(c)
        PROVE  MadeInv'
    BY <2>8, DisturbedMade
  <2>9. CASE UNCHANGED legacyVars
    BY <2>9 DEF legacyVars, MadeInv, ApartTargets, PrivateMade, NoticesMade, KeysMade,
                Targets, Peer
  <2> QED BY <2>2, <2>3, <2>4, <2>5, <2>6, <2>7, <2>8, <2>9 DEF LegacyNext
<1> QED BY <1>1, <1>2, SavedInvariant, ExchangeInvariant, PTL DEF LegacySpec

\* Each client's exchange has lost its timer or not.
AdriftOK == adrift \in [Clients -> BOOLEAN]

LEMMA AdriftInvariant == LegacySpec => []AdriftOK
<1>1. LegacyInit => AdriftOK BY DEF LegacyInit, AdriftOK
<1>2. AdriftOK /\ ExchangeInv /\ [LegacyNext]_legacyVars => AdriftOK'
  <2> SUFFICES ASSUME AdriftOK, ExchangeInv, [LegacyNext]_legacyVars PROVE AdriftOK' OBVIOUS
  <2>1. ASSUME adrift' = adrift PROVE AdriftOK' BY <2>1 DEF AdriftOK
  <2>2. ASSUME NEW c \in Clients, NEW b \in BOOLEAN, adrift' = [adrift EXCEPT ![c] = b]
        PROVE  AdriftOK'
    BY <2>2 DEF AdriftOK
  <2>3. ASSUME NEW c \in Clients, StartExchange(c) \/ ReceiveFinish(c) \/ RestartMirc(c)
        PROVE  AdriftOK'
    <3>1. adrift' = [adrift EXCEPT ![c] = FALSE]
      BY <2>3 DEF StartExchange, ReceiveFinish, RestartMirc
    <3> QED BY <2>2, <3>1
  <2>4. ASSUME NEW c \in Clients, Disconnect(c) PROVE AdriftOK'
    <3>1. dh[c] \in BOOLEAN BY DEF ExchangeInv, ExchangeShape, ExchangeTypes
    <3>2. adrift' = [adrift EXCEPT ![c] = dh[c]] BY <2>4 DEF Disconnect
    <3> QED BY <2>2, <3>1, <3>2
  <2>5. ASSUME NEW c \in Clients, ReceiveInit(c) \/ Timeout(c) \/ ReloadDll(c) PROVE AdriftOK'
    BY <2>1, <2>5 DEF ReceiveInit, Timeout, ReloadDll
  <2>6. ASSUME NEW c \in Clients, NEW t, NEW k,
               SetKey(c, t, k) \/ DelKey(c, t) \/ SetTopicSetting(c)
        PROVE  AdriftOK'
    BY <2>1, <2>6 DEF SetKey, DelKey, SetTopicSetting, local
  <2>7. CASE UNCHANGED legacyVars BY <2>1, <2>7 DEF legacyVars
  <2> QED BY <2>3, <2>4, <2>5, <2>6, <2>7, LegacyAssumption DEF LegacyNext
<1> QED BY <1>1, <1>2, ExchangeInvariant, PTL DEF LegacySpec

\* Every state of Legacy is well typed, for any channels, keys, files and bound: a
\* key is one given by hand, none, or a secret over pairs that were generated.
THEOREM LegacyTypeCorrect == LegacySpec => []LegacyTypeOK
<1>1. MadeInv /\ SavedInv /\ ExchangeInv /\ AdriftOK => LegacyTypeOK
  <2> SUFFICES ASSUME MadeInv, SavedInv, ExchangeInv, AdriftOK PROVE LegacyTypeOK OBVIOUS
  <2>1. ExchangeTypes /\ KeysShape /\ HoldingShape BY DEF SavedInv, ExchangeInv, ExchangeShape
  <2>2. ASSUME NEW c \in Clients
        PROVE  /\ DOMAIN keys[c] = Targets(c)
               /\ \A t \in Targets(c) : KeyBy(pairs, keys[c][t])
               /\ private[c] = Absent \/ MadeBy(pairs, private[c])
               /\ apart[c] \subseteq Targets(c)
    BY <2>1 DEF KeysShape, MadeInv, KeysMade, PrivateMade, ApartTargets
  <2>3. ASSUME NEW c \in Clients, NEW i \in DOMAIN notices[c]
        PROVE  notices[c][i].is \in {"INIT", "FINISH"} /\ MadeBy(pairs, notices[c][i].pub)
    <3>1. notices[c] \in Seq(ExchangeNotice) BY <2>1 DEF ExchangeTypes
    <3>2. i \in 1 .. Len(notices[c]) BY <2>3, <3>1
    <3>3. notices[c][i] \in ExchangeNotice BY <3>1, <3>2
    <3> QED BY <3>2, <3>3 DEF MadeInv, NoticesMade, ExchangeNotice
  <2>4. ASSUME NEW c \in Clients, NEW i \in DOMAIN file[c]
        PROVE  \/ file[c][i] = BadLine
               \/ /\ file[c][i].target \in Clients \cup Channels \cup Tagged
                  /\ file[c][i].key \in ManualKeys
    <3>1. file[c] \in Seq(LegacyLine) BY <2>1 DEF HoldingShape
    <3>2. file[c][i] \in LegacyLine BY <2>4, <3>1
    <3> QED BY <3>2 DEF LegacyLine, KeyLine
  <2>5. /\ pairs \in [Clients -> Nat] /\ dh \in [Clients -> BOOLEAN]
        /\ adrift \in [Clients -> BOOLEAN]
        /\ starts \in 0 .. MaxStarts /\ settled \in BOOLEAN
    BY <2>1 DEF ExchangeTypes, MadeInv, AdriftOK
  <2> QED BY <2>2, <2>3, <2>4, <2>5 DEF LegacyTypeOK, KeyBy, MadeBy, Pair
<1> QED BY <1>1, MadeInvariant, SavedInvariant, ExchangeInvariant, AdriftInvariant, PTL
=============================================================================
