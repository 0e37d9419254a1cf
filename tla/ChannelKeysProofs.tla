-------------------------- MODULE ChannelKeysProofs --------------------------
(***************************************************************************)
(* Proofs about ChannelKeys for any clients, channels and keys.            *)
(*                                                                         *)
(* The invariant of one client relates its channel key, its ratchet state  *)
(* and its pending call (Own); what is in flight comes from a coordinator  *)
(* and goes to somebody else (Traffic).  With one coordinator the key a    *)
(* member will hold changes only when that coordinator sends a notice,     *)
(* which is what convergence and readability rest on (Heard).              *)
(***************************************************************************)
EXTENDS ChannelKeys, WellFoundedInduction, TLAPS

\* A pending call is about the channel key just set, and a ratchet state has a
\* channel key beside it.
Own ==
    \A c \in Clients :
        /\ call[c].at # "idle" => channelKey[c] = call[c].key
        /\ call[c].at = "init" => c \in channel.coordinators
        /\ ratchet[c] # NoKey => channelKey[c] # NoKey

\* Only coordinators send keys, and nobody sends himself anything.
Traffic ==
    /\ \A c, d \in Clients : \A i \in DOMAIN link[<<c, d>>] :
          IsKey(link[<<c, d>>][i]) => c \in channel.coordinators
    /\ \A c \in Clients : link[<<c, c>>] = <<>> /\ c \notin group[c]

\* What the only coordinator sends can be read with the key that the notices
\* before it leave behind.
Heard ==
    \A c, d \in Clients : channel.coordinators = {c} =>
        \A i \in DOMAIN link[<<c, d>>] :
            LET item == link[<<c, d>>][i]
            IN  item.kind = "msg" /\ item.agreed => Expected(c, d, i - 1) = item.key

\* c sends each d of ds the item x[d].
Sends(c, ds, x) ==
    link' = [p \in Clients \X Clients |->
                IF p[1] = c /\ p[2] \in ds THEN Append(link[p], x[p[2]]) ELSE link[p]]

KeysInv == TypeOK /\ Own /\ Traffic /\ Heard /\ GroupConverges

-----------------------------------------------------------------------------
(* The last key among some items.                                          *)

\* Every set of natural numbers that is not empty has a least element.
LEMMA Smallest ==
  ASSUME NEW T \in SUBSET Nat, T # {}
  PROVE  \E x \in T : \A y \in T : x <= y
<1> DEFINE R == {p \in Nat \X Nat : p[1] < p[2]}
<1>1. OpToRel(<, Nat) = R
  BY DEF OpToRel
<1>2. IsWellFoundedOn(R, Nat)
  BY <1>1, NatLessThanWellFounded
<1> HIDE DEF R
<1>3. PICK x \in T : \A y \in T : ~(<<y, x>> \in R)
  BY <1>2, WFMin
<1>4. \A y \in T : ~(y < x)
  BY <1>3 DEF R
<1> QED
  BY <1>4

\* A set of positions that is not empty has a last one, Max.
LEMMA LastPosition ==
  ASSUME NEW n \in Nat, NEW S \in SUBSET (1..n), S # {}
  PROVE  Max(S) \in S /\ \A y \in S : Max(S) >= y
<1> DEFINE T == {n - i : i \in S}
<1>1. \A i \in S : i \in Int /\ n - i \in Nat /\ n - i \in T
  OBVIOUS
<1>2. T \in SUBSET Nat
  BY <1>1
<1>3. T # {}
  BY <1>1
<1> HIDE DEF T
<1>4. PICK t \in T : \A y \in T : t <= y
  BY <1>2, <1>3, Smallest
<1>5. PICK x \in S : t = n - x
  BY DEF T
<1>6. \A y \in S : x >= y
  BY <1>1, <1>4, <1>5
<1> QED
  BY <1>6 DEF Max

\* It is the only one.
LEMMA LastPositionIs ==
  ASSUME NEW n \in Nat, NEW S \in SUBSET (1..n), NEW m \in S, \A y \in S : m >= y
  PROVE  Max(S) = m
<1>1. Max(S) \in S /\ Max(S) >= m /\ m >= Max(S)
  BY LastPosition
<1>2. \A i, j \in S : i >= j /\ j >= i => i = j
  OBVIOUS
<1> QED
  BY <1>1, <1>2

\* Nothing taken, nothing changed.
LEMMA HeldFirst == ASSUME NEW s, NEW k PROVE HeldAfter(s, 0, k) = k
  BY DEF HeldAfter

\* Without a key among them the items change nothing.
LEMMA HeldSame ==
  ASSUME NEW s, NEW n \in Nat, NEW k, \A i \in 1..n : ~IsKey(s[i])
  PROVE  HeldAfter(s, n, k) = k
  BY DEF HeldAfter

\* What is appended changes what is held after it and nothing before.
LEMMA HeldAppend ==
  ASSUME NEW s \in Seq(Item), NEW x \in Item, NEW k
  PROVE  /\ \A n \in 0..Len(s) : HeldAfter(Append(s, x), n, k) = HeldAfter(s, n, k)
         /\ HeldAfter(Append(s, x), Len(s) + 1, k) =
              IF IsKey(x) THEN x.key ELSE HeldAfter(s, Len(s), k)
<1> DEFINE a == Append(s, x)
           ks(q, n) == {i \in 1..n : IsKey(q[i])}
<1>1. /\ \A i \in 1..Len(s) : a[i] = s[i]
      /\ a[Len(s) + 1] = x /\ Len(s) \in Nat
  OBVIOUS
<1> HIDE DEF a
<1>2. ASSUME NEW n \in 0..Len(s) PROVE HeldAfter(a, n, k) = HeldAfter(s, n, k)
  <2>1. ks(a, n) = ks(s, n)
    BY <1>1
  <2>2. ASSUME ks(s, n) # {} PROVE Max(ks(s, n)) \in 1..n
    <3>1. n \in Nat /\ ks(s, n) \in SUBSET (1..n)
      OBVIOUS
    <3> QED
      BY <2>2, <3>1, LastPosition
  <2>3. 1..n \subseteq 1..Len(s)
    BY <1>1
  <2> QED
    BY <1>1, <2>1, <2>2, <2>3 DEF HeldAfter
<1>3. CASE IsKey(x)
  <2>1. Max(ks(a, Len(s) + 1)) = Len(s) + 1
    <3>1. /\ Len(s) + 1 \in Nat /\ ks(a, Len(s) + 1) \in SUBSET (1..(Len(s) + 1))
          /\ Len(s) + 1 \in ks(a, Len(s) + 1)
          /\ \A y \in ks(a, Len(s) + 1) : Len(s) + 1 >= y
      BY <1>1, <1>3
    <3> QED
      BY <3>1, LastPositionIs
  <2>2. ks(a, Len(s) + 1) # {}
    BY <1>1, <1>3
  <2> QED
    BY <1>1, <1>2, <1>3, <2>1, <2>2 DEF HeldAfter, a
<1>4. CASE ~IsKey(x)
  <2>1. ks(a, Len(s) + 1) = ks(a, Len(s))
    BY <1>1, <1>4
  <2>2. HeldAfter(a, Len(s) + 1, k) = HeldAfter(a, Len(s), k)
    BY <2>1 DEF HeldAfter
  <2> QED
    BY <1>1, <1>2, <1>4, <2>2 DEF a
<1> QED
  BY <1>2, <1>3, <1>4 DEF a

\* Taking the first item first leads to the same key.
LEMMA HeldTail ==
  ASSUME NEW s \in Seq(Item), s # <<>>, NEW n \in 1..Len(s), NEW k
  PROVE  HeldAfter(Tail(s), n - 1, IF IsKey(Head(s)) THEN Head(s).key ELSE k)
           = HeldAfter(s, n, k)
<1> DEFINE u == Tail(s)
           ks(q, j) == {i \in 1..j : IsKey(q[i])}
<1>1. /\ \A i \in 1..(Len(s) - 1) : u[i] = s[i + 1]
      /\ Head(s) = s[1] /\ Len(s) \in Nat /\ n \in Nat /\ n - 1 \in Nat /\ n - 1 <= Len(s) - 1
  OBVIOUS
<1> HIDE DEF u
<1>2. \A i \in 1..(n - 1) : i \in ks(u, n - 1) <=> i + 1 \in ks(s, n)
  BY <1>1
<1>3. CASE ks(u, n - 1) = {}
  <2>1. ks(s, n) = IF IsKey(s[1]) THEN {1} ELSE {}
    <3>1. ASSUME NEW y \in ks(s, n) PROVE y = 1
      <4>1. y # 1 => y - 1 \in 1..(n - 1) /\ y = (y - 1) + 1
        BY <1>1
      <4> QED
        BY <1>2, <1>3, <4>1
    <3> QED
      BY <1>1, <3>1
  <2>2. ASSUME IsKey(s[1]) PROVE Max(ks(s, n)) = 1
    <3>1. 1 \in ks(s, n) /\ \A y \in ks(s, n) : 1 >= y
      BY <2>1, <2>2
    <3> QED
      BY <1>1, <3>1, LastPositionIs
  <2> QED
    BY <1>1, <1>3, <2>1, <2>2 DEF HeldAfter, u
<1>4. CASE ks(u, n - 1) # {}
  <2> DEFINE m == Max(ks(u, n - 1))
  <2>1. m \in ks(u, n - 1) /\ \A y \in ks(u, n - 1) : m >= y
    BY <1>1, <1>4, LastPosition
  <2>2. m + 1 \in ks(s, n)
    BY <1>2, <2>1
  <2>3. ASSUME NEW y \in ks(s, n) PROVE m + 1 >= y
    <3>1. CASE y = 1
      BY <2>1, <3>1
    <3>2. CASE y # 1
      <4>1. y - 1 \in 1..(n - 1) /\ y = (y - 1) + 1
        BY <1>1, <3>2
      <4>2. y - 1 \in ks(u, n - 1)
        BY <1>2, <4>1
      <4> QED
        BY <1>1, <2>1, <4>2
    <3> QED
      BY <3>1, <3>2
  <2> HIDE DEF m
  <2>4. Max(ks(s, n)) = m + 1
    BY <1>1, <2>2, <2>3, LastPositionIs
  <2>5. s[m + 1] = u[m]
    BY <1>1, <2>1
  <2> QED
    BY <1>1, <1>4, <2>2, <2>4, <2>5 DEF HeldAfter, u, m
<1> QED
  BY <1>3, <1>4

-----------------------------------------------------------------------------
(* Types, pending calls and traffic.                                       *)

\* The members of the channel, and its coordinators, are clients.
LEMMA MembersAreClients ==
  ASSUME TypeOK
  PROVE  /\ Members \subseteq Clients /\ channel.coordinators \subseteq Clients
         /\ channel.manual \subseteq ManualKeys /\ channel.maxLink \in Nat
         /\ NoKey \notin Keys /\ NoKey \notin ManualKeys
  BY ChannelAssumption DEF TypeOK, Members

\* A pending call has a key, and InitChannelKey the members it was given.
LEMMA PendingCall ==
  ASSUME TypeOK, NEW c \in Clients, call[c].at # "idle"
  PROVE  call[c].key \in Keys /\ (call[c].at = "init" => call[c].members \subseteq Clients)
  BY DEF TypeOK, Calls, Idle

\* What is in flight, and what is a notice among it.
LEMMA InFlight ==
  ASSUME TypeOK, NEW c \in Clients, NEW d \in Clients
  PROVE  /\ link[<<c, d>>] \in Seq(Item)
         /\ \A i \in DOMAIN link[<<c, d>>] : link[<<c, d>>][i] \in Item
  BY DEF TypeOK

\* A notice in flight carries one of the keys InitChannelKey draws.
LEMMA NoticeKey == ASSUME NEW item \in Item, IsKey(item) PROVE item.key \in Keys
  BY DEF Item, IsKey

\* Init_ratchet_state keeps the ratchet states within their type.
LEMMA RatchetType ==
  ASSUME TypeOK, NEW c \in Clients, NEW k \in Keys, RatchetInit(c, k)
  PROVE  ratchet' \in [Clients -> Keys \cup {NoKey}]
  BY DEF TypeOK, RatchetInit

\* Sending one item to some clients for whom there is room keeps the links
\* within their type.
LEMMA SendType ==
  ASSUME TypeOK, NEW c \in Clients, NEW ds \in SUBSET Clients, Room(c, ds),
         NEW x \in [ds -> Item],
         Sends(c, ds, x),
         UNCHANGED channel
  PROVE  /\ link' \in [Clients \X Clients -> Seq(Item)]
         /\ \A p \in Clients \X Clients : Len(link'[p]) <= channel'.maxLink
<1> USE DEF Sends
<1>1. ASSUME NEW p \in Clients \X Clients
      PROVE  link'[p] \in Seq(Item) /\ Len(link'[p]) <= channel'.maxLink
  <2>1. link[p] \in Seq(Item) /\ Len(link[p]) <= channel.maxLink /\ channel.maxLink \in Nat
    BY MembersAreClients DEF TypeOK
  <2>2. CASE p[1] = c /\ p[2] \in ds
    <3>1. p = <<c, p[2]>>
      BY <2>2
    <3>2. Len(link[p]) < channel.maxLink
      BY <2>2, <3>1 DEF Room
    <3> QED
      BY <2>1, <2>2, <3>2
  <2>3. CASE ~(p[1] = c /\ p[2] \in ds)
    BY <2>1, <2>3
  <2> QED
    BY <2>2, <2>3
<1> QED
  BY <1>1

\* So does taking the first item.
LEMMA ArriveType ==
  ASSUME TypeOK, NEW c \in Clients, NEW d \in Clients, NEW kind, Arrives(c, d, kind),
         UNCHANGED channel
  PROVE  /\ link' \in [Clients \X Clients -> Seq(Item)]
         /\ \A p \in Clients \X Clients : Len(link'[p]) <= channel'.maxLink
         /\ Head(link[<<c, d>>]) \in Item
<1>1. link[<<c, d>>] \in Seq(Item) /\ link[<<c, d>>] # <<>>
  BY InFlight DEF Arrives
<1>2. /\ Head(link[<<c, d>>]) \in Item /\ Tail(link[<<c, d>>]) \in Seq(Item)
      /\ Len(Tail(link[<<c, d>>])) = Len(link[<<c, d>>]) - 1
      /\ Len(link[<<c, d>>]) \in Nat
  BY <1>1
<1>3. link' = [link EXCEPT ![<<c, d>>] = Tail(link[<<c, d>>])]
  BY DEF Arrives
<1>4. channel.maxLink \in Nat
  BY MembersAreClients
<1> QED
  BY <1>2, <1>3, <1>4 DEF TypeOK

\* FiSH11_InitChannelKey sends the key of its call to other members, who become
\* the group.
LEMMA DistributeSends ==
  ASSUME TypeOK, NEW c \in Clients, Distribute(c)
  PROVE  \E ds \in SUBSET Clients : \E x \in [ds -> Item] :
           /\ ds \subseteq call[c].members \ {c} /\ Room(c, ds)
           /\ \A d \in ds : IsKey(x[d]) /\ x[d].key = call[c].key
           /\ Sends(c, ds, x)
           /\ group' = [group EXCEPT ![c] = ds]
<1>1. PICK ds \in Reached(call[c].members \ {c}) :
        /\ Room(c, ds)
        /\ link' = [p \in Clients \X Clients |->
                       IF p[1] = c /\ p[2] \in ds
                       THEN Append(link[p], [kind |-> "key", key |-> call[c].key])
                       ELSE link[p]]
        /\ group' = [group EXCEPT ![c] = ds]
  BY DEF Distribute
<1> DEFINE n == [kind |-> "key", key |-> call[c].key]
           x == [d \in ds |-> n]
<1>2. call[c].key \in Keys /\ ds \in SUBSET Clients /\ ds \subseteq call[c].members \ {c}
  BY <1>1, PendingCall DEF Distribute, Reached
<1>3. n \in Item /\ IsKey(n)
  BY <1>2 DEF Item, IsKey
<1>4. x \in [ds -> Item]
  BY <1>3
<1>5. Sends(c, ds, x)
  BY <1>1 DEF Sends
<1> HIDE DEF n
<1>6. \A d \in ds : IsKey(x[d]) /\ x[d].key = call[c].key
  BY <1>3 DEF n
<1> QED
  BY <1>1, <1>2, <1>4, <1>5, <1>6

\* The messages go to the other members; one that the addressee was bound to be
\* able to read carries the key expected of him.
LEMMA EncryptSends ==
  ASSUME TypeOK, NEW c \in Clients, Encrypt(c)
  PROVE  \E ds \in SUBSET Clients : \E x \in [ds -> Item] :
           /\ ds = Members \ {c} /\ Room(c, ds)
           /\ \A d \in ds : x[d].kind = "msg"
           /\ \A d \in ds : x[d].agreed => Expects(c, d) = x[d].key
           /\ Sends(c, ds, x)
<1> DEFINE ds == Members \ {c}
           k == ActiveKey(c)
           msg(d) == [kind |-> "msg", key |-> k,
                      agreed |-> manual[d] = NoKey /\ Expects(c, d) = k]
           x == [d \in ds |-> msg(d)]
<1>1. ds \in SUBSET Clients /\ Room(c, ds)
  BY MembersAreClients DEF Encrypt
<1>2. k \in AllKeys
  BY DEF Encrypt, ActiveKey, AllKeys, TypeOK
<1> HIDE DEF k
<1>3. \A d \in ds : msg(d) \in Item
  BY <1>2 DEF Item
<1>4. x \in [ds -> Item]
  BY <1>3
<1>5. Sends(c, ds, x)
  BY DEF Encrypt, Sends, k
<1> QED
  BY <1>1, <1>4, <1>5

\* Every step keeps the variables within their types.
LEMMA TypeStep == ASSUME TypeOK, [Next]_vars PROVE TypeOK'
<1> USE MembersAreClients, ChannelAssumption
<1>1. ASSUME NEW c \in Members, NEW members \in SUBSET Members, InitChannelKey(c, members)
      PROVE  TypeOK'
  <2>1. ASSUME NEW k \in Keys PROVE [at |-> "init", key |-> k, members |-> members] \in Calls
    BY DEF Calls
  <2> QED
    BY <1>1, <2>1 DEF InitChannelKey, TypeOK
<1>2. ASSUME NEW c \in Members, Distribute(c) PROVE TypeOK'
  <2>1. call[c].key \in Keys
    BY <1>2, PendingCall DEF Distribute
  <2>2. ratchet' \in [Clients -> Keys \cup {NoKey}]
    BY <1>2, <2>1, RatchetType DEF Distribute
  <2>3. /\ link' \in [Clients \X Clients -> Seq(Item)]
        /\ \A p \in Clients \X Clients : Len(link'[p]) <= channel'.maxLink
    <3>1. UNCHANGED channel
      BY <1>2 DEF Distribute
    <3> QED
      BY <1>2, <3>1, DistributeSends, SendType
  <2>4. group' \in [Clients -> SUBSET Clients]
    BY <1>2, DistributeSends DEF TypeOK
  <2>5. Idle \in Calls
    BY DEF Calls
  <2> QED
    BY <1>2, <2>2, <2>3, <2>4, <2>5 DEF Distribute, TypeOK
<1>3. ASSUME NEW c \in Members, DistributeFails(c) \/ FinishProcess(c) PROVE TypeOK'
  <2>1. call[c].key \in Keys
    BY <1>3, PendingCall DEF DistributeFails, FinishProcess
  <2>2. ratchet' \in [Clients -> Keys \cup {NoKey}]
    BY <1>3, <2>1, RatchetType DEF DistributeFails, FinishProcess
  <2>3. Idle \in Calls
    BY DEF Calls
  <2> QED
    BY <1>3, <2>2, <2>3 DEF DistributeFails, FinishProcess, TypeOK
<1>4. ASSUME NEW c \in Members, Encrypt(c) PROVE TypeOK'
  <2>1. UNCHANGED channel
    BY <1>4 DEF Encrypt
  <2>2. /\ link' \in [Clients \X Clients -> Seq(Item)]
        /\ \A p \in Clients \X Clients : Len(link'[p]) <= channel'.maxLink
    BY <1>4, <2>1, EncryptSends, SendType
  <2> QED
    BY <1>4, <2>2 DEF Encrypt, TypeOK
<1>5. ASSUME NEW c \in Members, NEW k \in ManualKeys \cup {NoKey}, SetManual(c, k) PROVE TypeOK'
  BY <1>5 DEF SetManual, TypeOK
<1>6. ASSUME NEW c \in Members, RemoveRatchet(c) PROVE TypeOK'
  BY <1>6 DEF RemoveRatchet, TypeOK
<1>7. ASSUME NEW c \in Members, Restart(c) PROVE TypeOK'
  <2>1. Idle \in Calls /\ <<>> \in Seq(Item) /\ Len(<<>>) = 0
    BY DEF Calls
  <2> QED
    BY <1>7, <2>1 DEF Restart, TypeOK
<1>8. ASSUME NEW c \in Members, NEW d \in Members, ProcessChannelKey(c, d) PROVE TypeOK'
  <2> DEFINE item == Head(link[<<c, d>>])
  <2>1. /\ link' \in [Clients \X Clients -> Seq(Item)]
        /\ \A p \in Clients \X Clients : Len(link'[p]) <= channel'.maxLink
        /\ item \in Item
    BY <1>8, ArriveType DEF ProcessChannelKey
  <2>2. item.key \in Keys
    BY <1>8, <2>1, NoticeKey DEF ProcessChannelKey, Arrives, IsKey
  <2>3. [at |-> "process", key |-> item.key] \in Calls
    BY <2>2 DEF Calls
  <2> QED
    BY <1>8, <2>1, <2>2, <2>3 DEF ProcessChannelKey, TypeOK
<1>9. ASSUME NEW c \in Members, NEW d \in Members, RejectChannelKey(c, d) \/ Decrypt(c, d)
      PROVE  TypeOK'
  <2>1. /\ link' \in [Clients \X Clients -> Seq(Item)]
        /\ \A p \in Clients \X Clients : Len(link'[p]) <= channel'.maxLink
    BY <1>9, ArriveType DEF RejectChannelKey, Decrypt
  <2> QED
    BY <1>9, <2>1 DEF RejectChannelKey, Decrypt, TypeOK
<1>10. CASE UNCHANGED vars
  BY <1>10 DEF vars, TypeOK
<1> QED
  BY <1>1, <1>2, <1>3, <1>4, <1>5, <1>6, <1>7, <1>8, <1>9, <1>10
  DEF Next, Finish, Deliver, SetManualChannelKey, RemoveManualChannelKey

-----------------------------------------------------------------------------
(* The invariant of one client, and of what is in flight.                  *)

\* Completing a call leaves the ratchet state beside the key just set.
LEMMA OwnFinish ==
  ASSUME TypeOK, Own, NEW c \in Clients, call[c].at # "idle", RatchetInit(c, call[c].key),
         call' = [call EXCEPT ![c] = Idle], UNCHANGED <<channel, channelKey>>
  PROVE  Own'
<1>1. call[c].key # NoKey /\ channelKey[c] = call[c].key
  BY PendingCall, MembersAreClients DEF Own
<1> QED
  BY <1>1 DEF Own, TypeOK, RatchetInit, Idle

\* Every step keeps what a client has in agreement.
LEMMA OwnStep == ASSUME TypeOK, Own, [Next]_vars PROVE Own'
<1> USE MembersAreClients
<1>1. ASSUME NEW c \in Members, NEW members \in SUBSET Members, InitChannelKey(c, members)
      PROVE  Own'
  BY <1>1 DEF InitChannelKey, Own, TypeOK, Idle
<1>2. ASSUME NEW c \in Members, Finish(c) PROVE Own'
  <2>1. /\ c \in Clients /\ call[c].at # "idle" /\ RatchetInit(c, call[c].key)
        /\ call' = [call EXCEPT ![c] = Idle] /\ UNCHANGED <<channel, channelKey>>
    BY <1>2 DEF Finish, Distribute, DistributeFails, FinishProcess
  <2> QED
    BY <2>1, OwnFinish
<1>3. ASSUME NEW c \in Members, Encrypt(c) \/ RemoveRatchet(c) PROVE Own'
  BY <1>3 DEF Encrypt, RemoveRatchet, Own, TypeOK
<1>4. ASSUME NEW c \in Members, NEW k, SetManual(c, k) PROVE Own'
  BY <1>4 DEF SetManual, Own
<1>5. ASSUME NEW c \in Members, Restart(c) PROVE Own'
  BY <1>5 DEF Restart, Own, TypeOK, Idle
<1>6. ASSUME NEW c \in Members, NEW d \in Members, ProcessChannelKey(c, d) PROVE Own'
  <2>1. Head(link[<<c, d>>]).key \in Keys
    BY <1>6, ArriveType, NoticeKey DEF ProcessChannelKey, Arrives, IsKey
  <2> QED
    BY <1>6, <2>1 DEF ProcessChannelKey, Own, TypeOK
<1>7. ASSUME NEW c \in Members, NEW d \in Members, RejectChannelKey(c, d) \/ Decrypt(c, d)
      PROVE  Own'
  BY <1>7 DEF RejectChannelKey, Decrypt, Own
<1>8. CASE UNCHANGED vars
  BY <1>8 DEF vars, Own
<1> QED
  BY <1>1, <1>2, <1>3, <1>4, <1>5, <1>6, <1>7, <1>8
  DEF Next, Deliver, SetManualChannelKey, RemoveManualChannelKey

\* One item more: what is sent to others, keys by a coordinator only.
LEMMA TrafficSend ==
  ASSUME TypeOK, Traffic, NEW c \in Clients, NEW ds \in SUBSET Clients, c \notin ds,
         NEW x \in [ds -> Item], \A d \in ds : IsKey(x[d]) => c \in channel.coordinators,
         Sends(c, ds, x),
         UNCHANGED channel, \A d \in Clients : d \notin group'[d]
  PROVE  Traffic'
<1> USE DEF Sends
<1>1. ASSUME NEW e \in Clients, NEW d \in Clients, NEW i \in DOMAIN link'[<<e, d>>],
             IsKey(link'[<<e, d>>][i])
      PROVE  e \in channel.coordinators
  <2>1. link[<<e, d>>] \in Seq(Item)
    BY InFlight
  <2>2. CASE e = c /\ d \in ds
    <3>1. link'[<<e, d>>] = Append(link[<<e, d>>], x[d])
      BY <2>2
    <3>2. link'[<<e, d>>][i] = x[d] \/ (i \in DOMAIN link[<<e, d>>] /\ link'[<<e, d>>][i] = link[<<e, d>>][i])
      BY <1>1, <2>1, <3>1
    <3> QED
      BY <1>1, <2>2, <3>2 DEF Traffic
  <2>3. CASE ~(e = c /\ d \in ds)
    <3>1. link'[<<e, d>>] = link[<<e, d>>]
      BY <2>3
    <3> QED
      BY <1>1, <3>1 DEF Traffic
  <2> QED
    BY <2>2, <2>3
<1>2. ASSUME NEW e \in Clients PROVE link'[<<e, e>>] = <<>>
  BY DEF Traffic
<1> QED
  BY <1>1, <1>2 DEF Traffic

\* One item less.
LEMMA TrafficArrive ==
  ASSUME TypeOK, Traffic, NEW c \in Clients, NEW d \in Clients, NEW kind,
         Arrives(c, d, kind), UNCHANGED <<channel, group>>
  PROVE  /\ Traffic' /\ c # d
         /\ IsKey(Head(link[<<c, d>>])) => c \in channel.coordinators
<1>1. link[<<c, d>>] \in Seq(Item) /\ link[<<c, d>>] # <<>>
  BY InFlight DEF Arrives
<1>2. c # d
  BY <1>1 DEF Traffic
<1>3. /\ Head(link[<<c, d>>]) = link[<<c, d>>][1] /\ 1 \in DOMAIN link[<<c, d>>]
      /\ \A i \in DOMAIN Tail(link[<<c, d>>]) :
            i + 1 \in DOMAIN link[<<c, d>>] /\ Tail(link[<<c, d>>])[i] = link[<<c, d>>][i + 1]
  BY <1>1
<1>4. link' = [link EXCEPT ![<<c, d>>] = Tail(link[<<c, d>>])]
  BY DEF Arrives
<1>5. ASSUME NEW e \in Clients, NEW f \in Clients, NEW i \in DOMAIN link'[<<e, f>>],
             IsKey(link'[<<e, f>>][i])
      PROVE  e \in channel.coordinators
  <2>1. CASE e = c /\ f = d
    <3>1. link'[<<e, f>>] = Tail(link[<<c, d>>])
      BY <1>4, <2>1 DEF TypeOK
    <3> QED
      BY <1>3, <1>5, <2>1, <3>1 DEF Traffic
  <2>2. CASE ~(e = c /\ f = d)
    <3>1. link'[<<e, f>>] = link[<<e, f>>]
      BY <1>4, <2>2 DEF TypeOK
    <3> QED
      BY <1>5, <3>1 DEF Traffic
  <2> QED
    BY <2>1, <2>2
<1>6. ASSUME NEW e \in Clients PROVE link'[<<e, e>>] = <<>>
  BY <1>2, <1>4 DEF Traffic, TypeOK
<1> QED
  BY <1>2, <1>3, <1>5, <1>6 DEF Traffic

\* Every step keeps keys flowing from coordinators to others only.
LEMMA TrafficStep == ASSUME TypeOK, Own, Traffic, [Next]_vars PROVE Traffic'
<1> USE MembersAreClients
<1>1. ASSUME NEW c \in Members, NEW members \in SUBSET Members, InitChannelKey(c, members)
      PROVE  Traffic'
  BY <1>1 DEF InitChannelKey, Traffic, TypeOK
<1>2. ASSUME NEW c \in Members, Distribute(c) PROVE Traffic'
  <2>1. c \in channel.coordinators /\ UNCHANGED channel
    BY <1>2 DEF Own, Distribute
  <2>2. PICK ds \in SUBSET Clients : \E x \in [ds -> Item] :
          /\ ds \subseteq call[c].members \ {c}
          /\ Sends(c, ds, x)
          /\ group' = [group EXCEPT ![c] = ds]
    BY <1>2, DistributeSends
  <2>3. PICK x \in [ds -> Item] : Sends(c, ds, x)
    BY <2>2
  <2>4. c \notin ds
    BY <2>2
  <2>5. \A d \in Clients : d \notin group'[d]
    BY <2>2, <2>4 DEF Traffic, TypeOK
  <2> QED
    BY <2>1, <2>3, <2>4, <2>5, TrafficSend
<1>3. ASSUME NEW c \in Members, DistributeFails(c) \/ FinishProcess(c) PROVE Traffic'
  BY <1>3 DEF DistributeFails, FinishProcess, Traffic
<1>4. ASSUME NEW c \in Members, Encrypt(c) PROVE Traffic'
  <2>1. UNCHANGED channel /\ \A d \in Clients : d \notin group'[d]
    BY <1>4 DEF Encrypt, Traffic
  <2>2. PICK ds \in SUBSET Clients : \E x \in [ds -> Item] :
          /\ ds = Members \ {c} /\ \A d \in ds : x[d].kind = "msg"
          /\ Sends(c, ds, x)
    BY <1>4, EncryptSends
  <2>3. PICK x \in [ds -> Item] :
          /\ \A d \in ds : x[d].kind = "msg"
          /\ Sends(c, ds, x)
    BY <2>2
  <2>4. c \notin ds /\ \A d \in ds : ~IsKey(x[d])
    BY <2>2, <2>3 DEF IsKey
  <2> QED
    BY <2>1, <2>3, <2>4, TrafficSend
<1>5. ASSUME NEW c \in Members, NEW k, SetManual(c, k) \/ RemoveRatchet(c) PROVE Traffic'
  BY <1>5 DEF SetManual, RemoveRatchet, Traffic
<1>6. ASSUME NEW c \in Members, Restart(c) PROVE Traffic'
  BY <1>6 DEF Restart, Traffic, TypeOK
<1>7. ASSUME NEW c \in Members, NEW d \in Members, Deliver(c, d) PROVE Traffic'
  BY <1>7, TrafficArrive DEF Deliver, ProcessChannelKey, RejectChannelKey, Decrypt
<1>8. CASE UNCHANGED vars
  BY <1>8 DEF vars, Traffic
<1> QED
  BY <1>1, <1>2, <1>3, <1>4, <1>5, <1>6, <1>7, <1>8
  DEF Next, Finish, SetManualChannelKey, RemoveManualChannelKey

-----------------------------------------------------------------------------
(* What a member will hold.                                                *)

\* The two statements about one coordinator c and one client d.
HeardOn(c, d) ==
    \A i \in DOMAIN link[<<c, d>>] :
        link[<<c, d>>][i].kind = "msg" /\ link[<<c, d>>][i].agreed
        => Expected(c, d, i - 1) = link[<<c, d>>][i].key

ConvergesOn(c, d) == d \in group[c] /\ Accepts(d, c) => Expects(c, d) = channelKey[c]

\* What they add up to.
LEMMA OnPairs ==
  /\ Heard <=> \A c, d \in Clients : channel.coordinators = {c} => HeardOn(c, d)
  /\ TypeOK => (GroupConverges <=>
                   \A c, d \in Clients : channel.coordinators = {c} => ConvergesOn(c, d))
<1>1. Heard <=> \A c, d \in Clients : channel.coordinators = {c} => HeardOn(c, d)
  BY DEF Heard, HeardOn
<1>2. ASSUME TypeOK
      PROVE  GroupConverges <=>
               \A c, d \in Clients : channel.coordinators = {c} => ConvergesOn(c, d)
  BY <1>2, MembersAreClients DEF GroupConverges, ConvergesOn, TypeOK
<1> QED
  BY <1>1, <1>2

\* Sending d an item changes what he will hold only if it is a notice he accepts.
LEMMA ExpectedSent ==
  ASSUME TypeOK, NEW c \in Clients, NEW d \in Clients, NEW x \in Item,
         link'[<<c, d>>] = Append(link[<<c, d>>], x), UNCHANGED <<channel, channelKey>>
  PROVE  /\ \A n \in 0..Len(link[<<c, d>>]) : Expected(c, d, n)' = Expected(c, d, n)
         /\ Expects(c, d)' = IF Accepts(d, c) /\ IsKey(x) THEN x.key ELSE Expects(c, d)
<1>1. link[<<c, d>>] \in Seq(Item)
  BY InFlight
<1>2. Len(Append(link[<<c, d>>], x)) = Len(link[<<c, d>>]) + 1
  BY <1>1
<1>3. Accepts(d, c)' <=> Accepts(d, c)
  BY DEF Accepts
<1>4. /\ \A n \in 0..Len(link[<<c, d>>]) :
           HeldAfter(link'[<<c, d>>], n, channelKey[d]) = HeldAfter(link[<<c, d>>], n, channelKey[d])
      /\ HeldAfter(link'[<<c, d>>], Len(link[<<c, d>>]) + 1, channelKey[d]) =
           IF IsKey(x) THEN x.key ELSE HeldAfter(link[<<c, d>>], Len(link[<<c, d>>]), channelKey[d])
  BY <1>1, HeldAppend
<1> QED
  BY <1>2, <1>3, <1>4 DEF Expected, Expects

\* An item that d handles as he should changes nothing of what he will hold.
LEMMA ExpectedArrived ==
  ASSUME TypeOK, NEW c \in Clients, NEW d \in Clients, NEW kind, Arrives(c, d, kind),
         UNCHANGED channel,
         Accepts(d, c) => channelKey'[d] = IF IsKey(Head(link[<<c, d>>]))
                                           THEN Head(link[<<c, d>>]).key ELSE channelKey[d],
         ~Accepts(d, c) => channelKey'[d] = channelKey[d]
  PROVE  /\ \A n \in 1..Len(link[<<c, d>>]) : Expected(c, d, n - 1)' = Expected(c, d, n)
         /\ Expects(c, d)' = Expects(c, d)
<1> DEFINE s == link[<<c, d>>]
<1>1. s \in Seq(Item) /\ s # <<>> /\ Len(s) \in Nat
  BY InFlight DEF Arrives
<1>2. link'[<<c, d>>] = Tail(s)
  BY DEF Arrives, TypeOK
<1>3. Len(Tail(s)) = Len(s) - 1 /\ Len(s) \in 1..Len(s)
  BY <1>1
<1>4. Accepts(d, c)' <=> Accepts(d, c)
  BY DEF Accepts
<1> HIDE DEF s
<1>5. ASSUME NEW n \in 1..Len(s) PROVE Expected(c, d, n - 1)' = Expected(c, d, n)
  <2>1. CASE Accepts(d, c)
    <3>1. HeldAfter(Tail(s), n - 1, channelKey'[d]) = HeldAfter(s, n, channelKey[d])
      BY <1>1, <2>1, HeldTail DEF s
    <3> QED
      BY <1>2, <1>4, <2>1, <3>1 DEF Expected, s
  <2>2. CASE ~Accepts(d, c)
    BY <1>4, <2>2 DEF Expected
  <2> QED
    BY <2>1, <2>2
<1>6. PICK n \in 1..Len(s) : n = Len(s)
  BY <1>3
<1>7. Expects(c, d)' = Expected(c, d, n - 1)'
  BY <1>2, <1>3, <1>6 DEF Expects
<1>8. Expects(c, d)' = Expected(c, d, n)
  BY <1>5, <1>7
<1> QED
  BY <1>5, <1>6, <1>8 DEF Expects, s

\* A step that leaves a link and the keys at its ends alone leaves both
\* statements about it.
LEMMA Undisturbed ==
  ASSUME NEW c, NEW d, link'[<<c, d>>] = link[<<c, d>>], channelKey'[d] = channelKey[d],
         UNCHANGED channel
  PROVE  /\ HeardOn(c, d) => HeardOn(c, d)'
         /\ ConvergesOn(c, d) /\ channelKey'[c] = channelKey[c] /\ group'[c] \subseteq group[c]
              => ConvergesOn(c, d)'
  BY DEF HeardOn, ConvergesOn, Expected, Expects, Accepts

\* Sending keeps them: a message is marked by what is expected when it is sent, and
\* a notice carries the channel key of its sender.
LEMMA PairsSend ==
  ASSUME TypeOK, Traffic, NEW c \in Clients, NEW ds \in SUBSET Clients, c \notin ds,
         NEW x \in [ds -> Item], Sends(c, ds, x), UNCHANGED <<channel, channelKey>>,
         \A d \in ds : x[d].kind = "msg" /\ x[d].agreed => Expects(c, d) = x[d].key,
         NEW e \in Clients, NEW f \in Clients, HeardOn(e, f), ConvergesOn(e, f),
         \/ group' = group /\ \A d \in ds : ~IsKey(x[d])
         \/ /\ group'[c] = ds /\ \A d \in Clients \ {c} : group'[d] = group[d]
            /\ \A d \in ds : IsKey(x[d]) /\ x[d].key = channelKey[c]
  PROVE  HeardOn(e, f)' /\ ConvergesOn(e, f)'
<1>1. CASE e = c /\ f \in ds
  <2>1. link[<<c, f>>] \in Seq(Item) /\ x[f] \in Item
    BY <1>1, InFlight
  <2>2. link'[<<c, f>>] = Append(link[<<c, f>>], x[f])
    BY <1>1 DEF Sends
  <2>3. /\ \A n \in 0..Len(link[<<c, f>>]) : Expected(c, f, n)' = Expected(c, f, n)
        /\ Expects(c, f)' = IF Accepts(f, c) /\ IsKey(x[f]) THEN x[f].key ELSE Expects(c, f)
    BY <1>1, <2>1, <2>2, ExpectedSent
  <2>4. ASSUME NEW i \in DOMAIN link'[<<c, f>>], link'[<<c, f>>][i].kind = "msg",
               link'[<<c, f>>][i].agreed
        PROVE  Expected(c, f, i - 1)' = link'[<<c, f>>][i].key
    <3>1. CASE i = Len(link[<<c, f>>]) + 1
      <4>1. link'[<<c, f>>][i] = x[f] /\ i - 1 = Len(link[<<c, f>>])
        BY <2>1, <2>2, <3>1
      <4>2. PICK n \in 0..Len(link[<<c, f>>]) : n = i - 1 /\ n = Len(link[<<c, f>>])
        BY <2>1, <4>1
      <4>3. Expected(c, f, n)' = Expected(c, f, n)
        BY <2>3
      <4>4. Expected(c, f, i - 1)' = Expects(c, f)
        BY <4>2, <4>3 DEF Expects
      <4> QED
        BY <1>1, <2>4, <4>1, <4>4
    <3>2. CASE i # Len(link[<<c, f>>]) + 1
      <4>1. i \in DOMAIN link[<<c, f>>] /\ link'[<<c, f>>][i] = link[<<c, f>>][i]
        BY <2>1, <2>2, <3>2
      <4>2. Expected(c, f, i - 1)' = Expected(c, f, i - 1)
        BY <2>1, <2>3, <4>1
      <4> QED
        BY <1>1, <2>4, <4>1, <4>2 DEF HeardOn
    <3> QED
      BY <3>1, <3>2
  <2>5. HeardOn(c, f)'
    BY <2>4 DEF HeardOn
  <2>6. ConvergesOn(c, f)'
    BY <1>1, <2>3 DEF ConvergesOn, Accepts
  <2> QED
    BY <1>1, <2>5, <2>6
<1>2. CASE ~(e = c /\ f \in ds)
  <2>1. link'[<<e, f>>] = link[<<e, f>>]
    BY <1>2 DEF Sends
  <2>2. HeardOn(e, f)' /\ (group'[e] \subseteq group[e] => ConvergesOn(e, f)')
    BY <2>1, Undisturbed
  <2>3. group'[e] \subseteq group[e] \/ (e = c /\ f \notin group'[e])
    BY <1>2
  <2> QED
    BY <2>2, <2>3 DEF ConvergesOn
<1> QED
  BY <1>1, <1>2

\* Handling an item keeps them: only the notices of the coordinator change keys.
LEMMA PairsArrive ==
  ASSUME TypeOK, Traffic, NEW c \in Clients, NEW d \in Clients, NEW kind, Arrives(c, d, kind),
         UNCHANGED <<channel, group>>,
         IF IsKey(Head(link[<<c, d>>])) /\ Accepts(d, c)
         THEN channelKey' = [channelKey EXCEPT ![d] = Head(link[<<c, d>>]).key]
         ELSE UNCHANGED channelKey,
         NEW e \in Clients, NEW f \in Clients, channel.coordinators = {e},
         HeardOn(e, f), ConvergesOn(e, f)
  PROVE  HeardOn(e, f)' /\ ConvergesOn(e, f)'
<1>1. c # d /\ (IsKey(Head(link[<<c, d>>])) => c = e)
  BY TrafficArrive
<1>2. channelKey'[e] = channelKey[e]
  BY <1>1 DEF TypeOK
<1>3. CASE e = c /\ f = d
  <2>1. link[<<c, d>>] \in Seq(Item) /\ link[<<c, d>>] # <<>>
    BY InFlight DEF Arrives
  <2>2. link'[<<c, d>>] = Tail(link[<<c, d>>])
    BY DEF Arrives, TypeOK
  <2>3. /\ \A n \in 1..Len(link[<<c, d>>]) : Expected(c, d, n - 1)' = Expected(c, d, n)
        /\ Expects(c, d)' = Expects(c, d)
    BY ExpectedArrived DEF TypeOK
  <2>4. ASSUME NEW i \in DOMAIN link'[<<c, d>>]
        PROVE  /\ link'[<<c, d>>][i] = link[<<c, d>>][i + 1]
               /\ i + 1 \in DOMAIN link[<<c, d>>]
               /\ Expected(c, d, i - 1)' = Expected(c, d, (i + 1) - 1)
    <3>1. /\ i \in 1..Len(link[<<c, d>>]) /\ (i + 1) - 1 = i
          /\ link'[<<c, d>>][i] = link[<<c, d>>][i + 1] /\ i + 1 \in DOMAIN link[<<c, d>>]
      BY <2>1, <2>2
    <3> QED
      BY <2>3, <3>1
  <2>5. HeardOn(c, d)'
    BY <1>3, <2>4 DEF HeardOn
  <2>6. ConvergesOn(c, d)'
    BY <1>2, <1>3, <2>3 DEF ConvergesOn, Accepts
  <2> QED
    BY <1>3, <2>5, <2>6
<1>4. CASE ~(e = c /\ f = d)
  <2>1. link'[<<e, f>>] = link[<<e, f>>]
    BY <1>4 DEF Arrives, TypeOK
  <2>2. channelKey'[f] = channelKey[f]
    BY <1>1, <1>4 DEF TypeOK
  <2> QED
    BY <1>2, <2>1, <2>2, Undisturbed
<1> QED
  BY <1>3, <1>4

\* Every step keeps both statements.
LEMMA PairsStep ==
  ASSUME TypeOK, Own, Traffic, [Next]_vars,
         NEW e \in Clients, NEW f \in Clients, channel.coordinators = {e},
         HeardOn(e, f), ConvergesOn(e, f)
  PROVE  HeardOn(e, f)' /\ ConvergesOn(e, f)'
<1> USE MembersAreClients
<1>1. ASSUME NEW c \in Members, NEW members \in SUBSET Members, InitChannelKey(c, members)
      PROVE  HeardOn(e, f)' /\ ConvergesOn(e, f)'
  <2>1. c = e /\ group'[e] = {}
    BY <1>1 DEF InitChannelKey, TypeOK
  <2>2. CASE f = e
    <3>1. link'[<<e, f>>] = <<>>
      BY <1>1, <2>2 DEF InitChannelKey, Traffic
    <3> QED
      BY <2>1, <3>1 DEF HeardOn, ConvergesOn
  <2>3. CASE f # e
    <3>1. /\ link'[<<e, f>>] = link[<<e, f>>] /\ channelKey'[f] = channelKey[f]
          /\ UNCHANGED channel
      BY <1>1, <2>1, <2>3 DEF InitChannelKey, TypeOK
    <3> QED
      BY <2>1, <3>1, Undisturbed DEF ConvergesOn
  <2> QED
    BY <2>2, <2>3
<1>2. ASSUME NEW c \in Members, Distribute(c) PROVE HeardOn(e, f)' /\ ConvergesOn(e, f)'
  <2>1. UNCHANGED <<channel, channelKey>> /\ channelKey[c] = call[c].key
    BY <1>2 DEF Own, Distribute
  <2>2. PICK ds \in SUBSET Clients : \E x \in [ds -> Item] :
          /\ ds \subseteq call[c].members \ {c} /\ Room(c, ds)
          /\ \A d \in ds : IsKey(x[d]) /\ x[d].key = call[c].key
          /\ Sends(c, ds, x)
          /\ group' = [group EXCEPT ![c] = ds]
    BY <1>2, DistributeSends
  <2>3. PICK x \in [ds -> Item] :
          /\ \A d \in ds : IsKey(x[d]) /\ x[d].key = call[c].key
          /\ Sends(c, ds, x)
    BY <2>2
  <2>4. group'[c] = ds /\ \A d \in Clients \ {c} : group'[d] = group[d]
    BY <2>2 DEF TypeOK
  <2>5. \A d \in ds : x[d].kind = "msg" /\ x[d].agreed => Expects(c, d) = x[d].key
    BY <2>3 DEF IsKey
  <2>6. \A d \in ds : IsKey(x[d]) /\ x[d].key = channelKey[c]
    BY <2>1, <2>3
  <2>7. c \in Clients /\ c \notin ds
    BY <2>2
  <2> QED
    BY <2>1, <2>3, <2>4, <2>5, <2>6, <2>7, PairsSend
<1>3. ASSUME NEW c \in Members, Encrypt(c) PROVE HeardOn(e, f)' /\ ConvergesOn(e, f)'
  <2>1. UNCHANGED <<channel, channelKey>> /\ group' = group
    BY <1>3 DEF Encrypt
  <2>2. PICK ds \in SUBSET Clients : \E x \in [ds -> Item] :
          /\ ds = Members \ {c} /\ Room(c, ds)
          /\ \A d \in ds : x[d].kind = "msg"
          /\ \A d \in ds : x[d].agreed => Expects(c, d) = x[d].key
          /\ Sends(c, ds, x)
    BY <1>3, EncryptSends
  <2>3. PICK x \in [ds -> Item] :
          /\ \A d \in ds : x[d].kind = "msg"
          /\ \A d \in ds : x[d].agreed => Expects(c, d) = x[d].key
          /\ Sends(c, ds, x)
    BY <2>2
  <2>4. /\ \A d \in ds : x[d].kind = "msg" /\ x[d].agreed => Expects(c, d) = x[d].key
        /\ \A d \in ds : ~IsKey(x[d])
    BY <2>3 DEF IsKey
  <2>5. c \in Clients /\ c \notin ds
    BY <2>2
  <2> QED
    BY <2>1, <2>3, <2>4, <2>5, PairsSend
<1>4. ASSUME UNCHANGED <<channel, channelKey, link, group>>
      PROVE  HeardOn(e, f)' /\ ConvergesOn(e, f)'
  BY <1>4, Undisturbed
<1>5. ASSUME NEW c \in Members, Restart(c) PROVE HeardOn(e, f)' /\ ConvergesOn(e, f)'
  <2>1. CASE c \in {e, f}
    <3>1. link'[<<e, f>>] = <<>>
      BY <1>5, <2>1 DEF Restart
    <3>2. f \notin group'[e]
      BY <1>5, <2>1 DEF Restart
    <3> QED
      BY <3>1, <3>2 DEF HeardOn, ConvergesOn
  <2>2. CASE c \notin {e, f}
    <3>1. /\ link'[<<e, f>>] = link[<<e, f>>] /\ channelKey'[f] = channelKey[f]
          /\ channelKey'[e] = channelKey[e] /\ group'[e] \subseteq group[e]
          /\ UNCHANGED channel
      BY <1>5, <2>2 DEF Restart, TypeOK
    <3> QED
      BY <3>1, Undisturbed
  <2> QED
    BY <2>1, <2>2
<1>6. ASSUME NEW c \in Members, NEW d \in Members, ProcessChannelKey(c, d)
      PROVE  HeardOn(e, f)' /\ ConvergesOn(e, f)'
  <2>1. /\ IsKey(Head(link[<<c, d>>])) /\ Accepts(d, c) /\ Arrives(c, d, "key")
        /\ channelKey' = [channelKey EXCEPT ![d] = Head(link[<<c, d>>]).key]
        /\ UNCHANGED <<channel, group>>
    BY <1>6 DEF ProcessChannelKey, Arrives, IsKey
  <2> QED
    BY <2>1, PairsArrive
<1>7. ASSUME NEW c \in Members, NEW d \in Members, RejectChannelKey(c, d)
      PROVE  HeardOn(e, f)' /\ ConvergesOn(e, f)'
  <2>1. /\ ~Accepts(d, c) /\ Arrives(c, d, "key")
        /\ UNCHANGED channelKey /\ UNCHANGED <<channel, group>>
    BY <1>7 DEF RejectChannelKey
  <2> QED
    BY <2>1, PairsArrive
<1>8. ASSUME NEW c \in Members, NEW d \in Members, Decrypt(c, d)
      PROVE  HeardOn(e, f)' /\ ConvergesOn(e, f)'
  <2>1. /\ ~IsKey(Head(link[<<c, d>>])) /\ Arrives(c, d, "msg")
        /\ UNCHANGED channelKey /\ UNCHANGED <<channel, group>>
    BY <1>8 DEF Decrypt, Arrives, IsKey
  <2> QED
    BY <2>1, PairsArrive
<1> QED
  BY <1>1, <1>2, <1>3, <1>4, <1>5, <1>6, <1>7, <1>8
  DEF Next, Finish, Deliver, DistributeFails, FinishProcess, SetManualChannelKey,
      RemoveManualChannelKey, SetManual, RemoveRatchet, vars

-----------------------------------------------------------------------------
(* The invariant and the properties.                                       *)

\* The initial states satisfy the invariant.
LEMMA KeysInvInit == ASSUME Init PROVE KeysInv
<1>1. TypeOK
  <2>1. manual \in [Clients -> ManualKeys \cup {NoKey}]
    BY ChannelAssumption DEF Init
  <2>2. Idle \in Calls /\ channel.maxLink \in Nat
    BY ChannelAssumption DEF Init, Calls
  <2> QED
    BY <2>1, <2>2 DEF Init, TypeOK
<1>2. Own
  BY DEF Init, Own, Idle
<1>3. Traffic
  BY DEF Init, Traffic
<1>4. Heard
  BY DEF Init, Heard
<1>5. GroupConverges
  BY <1>1, MembersAreClients DEF Init, GroupConverges
<1> QED
  BY <1>1, <1>2, <1>3, <1>4, <1>5 DEF KeysInv

\* Every step keeps the invariant.
LEMMA KeysInvStep == ASSUME KeysInv, [Next]_vars PROVE KeysInv'
<1> USE DEF KeysInv
<1>1. TypeOK' /\ Own' /\ Traffic'
  BY TypeStep, OwnStep, TrafficStep
<1>2. UNCHANGED channel
  BY DEF Next, Finish, Deliver, InitChannelKey, Distribute, DistributeFails, FinishProcess,
         Encrypt, SetManualChannelKey, RemoveManualChannelKey, SetManual, RemoveRatchet,
         Restart, ProcessChannelKey, RejectChannelKey, Decrypt, vars
<1>3. \A c, d \in Clients : channel.coordinators = {c} => HeardOn(c, d)' /\ ConvergesOn(c, d)'
  BY OnPairs, PairsStep
<1>4. Heard'
  BY <1>2, <1>3 DEF Heard, HeardOn
<1>5. \A c \in channel.coordinators : c \in Clients /\ group'[c] \subseteq Clients
  BY <1>1, MembersAreClients DEF TypeOK
<1>6. GroupConverges'
  BY <1>2, <1>3, <1>5 DEF GroupConverges, ConvergesOn
<1> QED
  BY <1>1, <1>4, <1>6

\* The invariant holds of every state, for any clients, channels and keys.
THEOREM KeysInvariant == Spec => []KeysInv
  BY KeysInvInit, KeysInvStep, PTL DEF Spec

\* TypeOK for any constants: no link overflows, and only random keys become
\* channel keys.
THEOREM TypeCorrect == Spec => []TypeOK
<1>1. KeysInv => TypeOK
  BY DEF KeysInv
<1> QED
  BY <1>1, KeysInvariant, PTL

\* GroupConverges for any number of clients, any room in the answers and any
\* traffic: re-keying leads every member that is told to the coordinator's key.
THEOREM GroupConvergesHolds == Spec => []GroupConverges
<1>1. KeysInv => GroupConverges
  BY DEF KeysInv
<1> QED
  BY <1>1, KeysInvariant, PTL

\* CoordinatorHeard for any number of clients, keys and messages in flight.
THEOREM CoordinatorHeardHolds == Spec => []CoordinatorHeard
<1>1. KeysInv => CoordinatorHeard
  BY MembersAreClients DEF KeysInv, Heard, CoordinatorHeard
<1> QED
  BY <1>1, KeysInvariant, PTL

\* A ratchet state exists only beside a channel key, so has_channel_key always
\* takes DecryptMsg and the engine away from their ratchet branches, which are left
\* out of the model.
RatchetUnreached == \A c \in Clients : ratchet[c] # NoKey => channelKey[c] # NoKey

\* That holds for any constants.
LEMMA RatchetUnreachedHolds == Spec => []RatchetUnreached
<1>1. KeysInv => RatchetUnreached
  BY DEF KeysInv, Own, RatchetUnreached
<1> QED
  BY <1>1, KeysInvariant, PTL
=============================================================================
