------------------------- MODULE KeyExchangeProofs -------------------------
(***************************************************************************)
(* Proofs about KeyExchange for any clients and bounds.                    *)
(*                                                                         *)
(* The invariant rests on three facts.  A client's secrets were made with  *)
(* the keypair it holds, in memory and in its file (Owned).  The notices   *)
(* it has in flight carry that keypair's public key (Current).  While a    *)
(* FINISH of it is in flight, a secret it holds is the one the addressee   *)
(* is about to compute (Agreed).                                           *)
(***************************************************************************)
EXTENDS KeyExchange, TLAPS

\* The notices in flight from c to d.
InFlight(c, d) == {link[<<c, d>>][i] : i \in DOMAIN link[<<c, d>>]}

Own(c, m) == \A d \in Others(c) : m.keys[d] \in Secrets => <<c, m.pair>> \in m.keys[d]

Owned == \A c \in Clients : Own(c, mem[c]) /\ Own(c, saved[c])

Current ==
    \A c \in Clients : \A d \in Others(c) : \A n \in InFlight(c, d) : n.pub = mem[c].pair

Agreed ==
    \A c \in Clients : \A d \in Others(c) :
        /\ \E n \in InFlight(d, c) : n.kind = "FINISH"
        /\ mem[d].keys[c] \in Secrets
        => mem[d].keys[c] = Secret(c, mem[c].pair, d, mem[d].pair)

ExchangeInv == TypeOK /\ Owned /\ Current /\ Agreed

-----------------------------------------------------------------------------
(* Keys and sequences.                                                     *)

\* A key made with no keypair and a random key are no secrets.
LEMMA NoSecret ==
  ASSUME NEW c, NEW d, NEW q
  PROVE  Secret(c, 0, d, q) \notin Secrets /\ Random(c) \notin Secrets
<1>1. ASSUME NEW s \in Secrets, NEW x \in s PROVE x[2] # 0
  BY <1>1, ExchangeAssumption DEF Secrets, Secret
<1>2. <<c, 0>> \in Secret(c, 0, d, q) /\ <<c, 0>> \in Random(c) /\ <<c, 0>>[2] = 0
  BY DEF Secret, Random
<1> QED
  BY <1>1, <1>2

\* A shared secret does not depend on which side computes it.
LEMMA SecretSymmetric ==
  ASSUME NEW c, NEW p, NEW d, NEW q PROVE Secret(c, p, d, q) = Secret(d, q, c, p)
  BY DEF Secret

\* What is in a sequence after an append.
LEMMA InAppend ==
  ASSUME NEW S, NEW s \in Seq(S), NEW x \in S, NEW i \in DOMAIN Append(s, x)
  PROVE  Append(s, x)[i] = x \/ \E j \in DOMAIN s : Append(s, x)[i] = s[j]
  OBVIOUS

\* What is left of a queue was in it.
LEMMA InTail ==
  ASSUME NEW S, NEW s \in Seq(S), s # <<>>
  PROVE  /\ Head(s) = s[1] /\ 1 \in DOMAIN s
         /\ Tail(s) \in Seq(S)
         /\ \A i \in DOMAIN Tail(s) : \E j \in DOMAIN s : Tail(s)[i] = s[j]
  OBVIOUS

\* What is in a sequence with at most one more element behind it.
LEMMA InConcat ==
  ASSUME NEW S, NEW s \in Seq(S), NEW x \in S
  PROVE  /\ s \o <<>> = s
         /\ s \o <<x>> = Append(s, x)
  OBVIOUS
-----------------------------------------------------------------------------
(* What the calls into the DLL leave.                                      *)

\* What every call of c leaves of its configuration and its file.
Sound(c, m, file) ==
    /\ m \in Config /\ file \in Config
    /\ Own(c, m) /\ Own(c, file)
    /\ mem[c].pair # 0 => m.pair = mem[c].pair

\* get_keypair makes a keypair only for a client that has no secrets.
LEMMA Paired ==
  ASSUME TypeOK, NEW c \in Clients, NEW m \in Config, Own(c, m), WithPair(c, m).pair <= MaxPairs
  PROVE  /\ WithPair(c, m) \in Config
         /\ WithPair(c, m).pair # 0
         /\ WithPair(c, m).keys = m.keys
         /\ m.pair # 0 => WithPair(c, m) = m
         /\ Own(c, WithPair(c, m))
<1>1. CASE m.pair # 0
  BY <1>1 DEF WithPair
<1>2. CASE m.pair = 0
  <2>1. WithPair(c, m) = [m EXCEPT !.pair = made[c] + 1]
    BY <1>2 DEF WithPair
  <2>2. made[c] + 1 \in 1..MaxPairs
    BY <2>1, ExchangeAssumption DEF TypeOK, Config
  <2>3. /\ WithPair(c, m) \in Config
        /\ WithPair(c, m).pair # 0
        /\ WithPair(c, m).keys = m.keys
    BY <2>1, <2>2, ExchangeAssumption DEF Config
  <2>4. ASSUME NEW d \in Others(c) PROVE m.keys[d] \notin Secrets
    <3>1. SUFFICES ASSUME m.keys[d] \in Secrets PROVE FALSE
      OBVIOUS
    <3>2. <<c, 0>> \in m.keys[d]
      BY <1>2, <3>1 DEF Own
    <3>3. \A x \in m.keys[d] : x[2] # 0
      BY <3>1, ExchangeAssumption DEF Secrets, Secret
    <3> QED
      BY <3>2, <3>3
  <2> QED
    BY <1>2, <2>3, <2>4 DEF Own
<1> QED
  BY <1>1, <1>2

\* Storing a key keeps a configuration one.
LEMMA Keyed ==
  ASSUME NEW c \in Clients, NEW m \in Config, Own(c, m), NEW d \in Clients, NEW k \in AllKeys,
         k \in Secrets => <<c, m.pair>> \in k
  PROVE  /\ WithKey(m, d, k) \in Config
         /\ WithKey(m, d, k).pair = m.pair
         /\ WithKey(m, d, k).keys[d] = k
         /\ \A e \in Clients : e # d => WithKey(m, d, k).keys[e] = m.keys[e]
         /\ Own(c, WithKey(m, d, k))
  BY DEF WithKey, Config, Own, Others

\* FiSH11_ExchangeKey adds no secret, and returns a public key only if there
\* is a keypair.
LEMMA Exchanged ==
  ASSUME ExchangeInv, NEW c \in Clients, NEW d \in Others(c), NEW r \in ExchangeKey(c, d),
         r.mem.pair <= MaxPairs
  PROVE  /\ Sound(c, r.mem, r.saved)
         /\ (r.ok = TRUE /\ r.mem.pair # 0) \/ r.ok = FALSE
         /\ r.fault \in Nat
         /\ \A e \in Others(c) : r.mem.keys[e] \in Secrets => r.mem.keys[e] = mem[c].keys[e]
<1> DEFINE m == mem[c]
           keyed == IF m.keys[d] = NoKey THEN WithKey(m, d, Random(c)) ELSE m
           full == WithPair(c, keyed)
<1>1. m \in Config /\ saved[c] \in Config /\ Own(c, m) /\ Own(c, saved[c])
  BY DEF ExchangeInv, TypeOK, Owned
<1>2. Random(c) \in AllKeys /\ Random(c) \notin Secrets
  BY NoSecret DEF AllKeys
<1>3. /\ keyed \in Config /\ Own(c, keyed) /\ keyed.pair = m.pair
      /\ \A e \in Others(c) : keyed.keys[e] \in Secrets => keyed.keys[e] = m.keys[e]
  <2>1. CASE m.keys[d] = NoKey
    <3>1. d \in Clients /\ keyed = WithKey(m, d, Random(c))
      BY <2>1 DEF Others
    <3> HIDE DEF keyed
    <3>2. /\ keyed \in Config /\ Own(c, keyed) /\ keyed.pair = m.pair
          /\ keyed.keys[d] = Random(c)
          /\ \A e \in Clients : e # d => keyed.keys[e] = m.keys[e]
      <4> DEFINE k == Random(c)
      <4>1. k \in AllKeys /\ (k \in Secrets => <<c, m.pair>> \in k)
        BY <1>2
      <4> HIDE DEF k, m
      <4> QED
        BY <1>1, <3>1, <4>1, Keyed DEF k
    <3> QED
      BY <1>2, <3>2 DEF Others
  <2>2. CASE m.keys[d] # NoKey
    BY <1>1, <2>2
  <2> QED
    BY <2>1, <2>2
<1> DEFINE stages == <<m, keyed, full>>
           files(i) == {saved[c]} \cup {stages[j] : j \in 2..i}
           done == [mem |-> full, saved |-> full, ok |-> TRUE, fault |-> 0]
           failed(i) == {[mem |-> stages[i], saved |-> f, ok |-> FALSE, fault |-> 1] :
                            f \in files(i)}
           unsaved == {[mem |-> full, saved |-> f, ok |-> TRUE, fault |-> 1] :
                          f \in {f \in files(3) : m.keys[d] # NoKey}}
           Left == /\ r.mem \in {m, keyed, full}
                   /\ r.saved \in {saved[c], keyed} \/ (r.saved = full /\ r.mem = full)
                   /\ (r.ok = TRUE /\ r.mem = full) \/ r.ok = FALSE
                   /\ r.fault \in Nat
<1> HIDE DEF keyed
<1>4. Left
  <2>1. r = done \/ (\E i \in 1..3 : r \in failed(i)) \/ r \in unsaved
    BY DEF ExchangeKey, keyed
  <2> HIDE DEF full
  <2>2. stages[1] = m /\ stages[2] = keyed /\ stages[3] = full
    OBVIOUS
  <2> HIDE DEF stages
  <2>3. files(1) = {saved[c]} /\ files(2) = {saved[c], keyed} /\ files(3) = {saved[c], keyed, full}
    <3>1. 2..1 = {} /\ 2..2 = {2} /\ 2..3 = {2, 3}
      OBVIOUS
    <3> QED
      BY <2>2, <3>1
  <2> HIDE DEF files
  <2>4. ASSUME r \in failed(1) \/ r \in failed(2) \/ r \in failed(3) PROVE Left
    <3>1. r.mem \in {m, keyed, full} /\ r.ok = FALSE /\ r.fault = 1
      BY <2>2, <2>4
    <3>2. r.saved \in {saved[c], keyed} \/ (r.saved = full /\ r.mem = full)
      BY <2>2, <2>3, <2>4
    <3> QED
      BY <3>1, <3>2
  <2>5. ASSUME r \in unsaved PROVE Left
    BY <2>3, <2>5
  <2>6. ASSUME r = done PROVE Left
    BY <2>6
  <2>7. 1..3 = {1, 2, 3}
    OBVIOUS
  <2> HIDE DEF Left, done, failed, unsaved
  <2> QED
    BY <2>1, <2>4, <2>5, <2>6, <2>7
<1>5. r.mem = full =>
        /\ full \in Config /\ full.pair # 0 /\ full.keys = keyed.keys
        /\ keyed.pair # 0 => full = keyed
        /\ Own(c, full)
  BY <1>3, Paired DEF ExchangeInv
<1> HIDE DEF full
<1> QED
  BY <1>1, <1>3, <1>4, <1>5 DEF Sound

\* What c has after it has computed the secret it shares with d.
Computed(c, d, pub, m, q) ==
    /\ Sound(c, q.mem, q.saved)
    /\ q.fault \in Nat
    /\ q.mem.pair # 0
    /\ q.mem.keys[d] = Secret(c, q.mem.pair, d, pub)
    /\ \A e \in Others(c) : e # d => q.mem.keys[e] = m.keys[e]

\* FiSH11_ProcessPublicKey makes the secret with the keypair it leaves, and
\* touches no other key.
LEMMA Processed ==
  ASSUME ExchangeInv, NEW c \in Clients, NEW d \in Others(c), NEW pub \in 1..MaxPairs,
         NEW m, NEW file, Sound(c, m, file),
         NEW q \in ProcessPublicKey(c, d, pub, m, file), q.mem.pair <= MaxPairs
  PROVE  Computed(c, d, pub, m, q)
<1> DEFINE paired == WithPair(c, m)
           key == Secret(c, paired.pair, d, pub)
           done == WithKey(paired, d, key)
<1>1. /\ q.mem = done
      /\ q.saved \in {done, file, paired}
      /\ q.fault \in Nat
  BY DEF ProcessPublicKey
<1>2. done.pair = paired.pair
  BY DEF WithKey
<1> HIDE DEF done
<1>3. /\ paired \in Config /\ paired.pair # 0 /\ paired.keys = m.keys
      /\ m.pair # 0 => paired = m
      /\ Own(c, paired)
  BY <1>1, <1>2, Paired DEF ExchangeInv, Sound
<1>4. key \in Secrets /\ <<c, paired.pair>> \in key
  <2>1. paired.pair \in 1..MaxPairs
    BY <1>3, ExchangeAssumption DEF Config
  <2> QED
    BY <2>1 DEF Secrets, Secret, Others
<1>5. key \in AllKeys /\ d \in Clients
  BY <1>4 DEF AllKeys, Others
<1> HIDE DEF paired, key
<1>6. /\ done \in Config /\ Own(c, done)
      /\ done.keys[d] = key
      /\ \A e \in Clients : e # d => done.keys[e] = paired.keys[e]
  BY <1>3, <1>4, <1>5, Keyed DEF done
<1>7. mem[c].pair # 0 => paired.pair = mem[c].pair
  BY <1>3 DEF Sound
<1> QED
  BY <1>1, <1>2, <1>3, <1>6, <1>7 DEF Computed, Sound, Others, key

-----------------------------------------------------------------------------
(* The steps.                                                              *)

\* A notice n that c may have put on its way to d: it carries the public key
\* of c's keypair, and a FINISH is sent with the secret in place.
Announced(c, d, n) ==
    /\ n.pub = mem'[c].pair
    /\ n.kind = "FINISH" =>
          mem'[c].keys[d] = Secret(c, mem'[c].pair, d, mem[d].pair)

\* What is in flight has the type of a notice.
LEMMA Notices ==
  ASSUME TypeOK
  PROVE  \A a \in Clients : \A b \in Others(a) :
           /\ <<a, b>> \in Pairs /\ link[<<a, b>>] \in Seq(Notice)
           /\ \A n \in InFlight(a, b) : n \in Notice
<1> TAKE a \in Clients
<1> TAKE b \in Others(a)
<1>1. <<a, b>> \in Pairs
  BY DEF Pairs, Others
<1>2. link[<<a, b>>] \in Seq(Notice)
  BY <1>1 DEF TypeOK
<1> HIDE DEF Notice
<1> QED
  BY <1>1, <1>2 DEF InFlight

\* The secrets of a configuration m of c are old or made with the other
\* client's present keypair.
SecretsCurrent(c, m) ==
    \A e \in Others(c) : m.keys[e] \in Secrets =>
        m.keys[e] \in {mem[c].keys[e], Secret(c, m.pair, e, mem[e].pair)}

\* Only c puts notices on their way.
NoticesOf(c) ==
    \A a \in Clients : \A b \in Others(a) : \A n \in InFlight(a, b)' :
        n \in InFlight(a, b) \/ (a = c /\ Announced(c, b, n))

\* A step of c that leaves a sound configuration, makes a new secret only with
\* the other client's present keypair and sends only such notices.
LEMMA ClientStep ==
  ASSUME ExchangeInv, NEW c \in Clients, NEW m, NEW file, Sound(c, m, file),
         mem' = [mem EXCEPT ![c] = m], saved' = [saved EXCEPT ![c] = file],
         SecretsCurrent(c, m), NoticesOf(c)
  PROVE  Owned' /\ Current' /\ Agreed'
<1> USE DEF ExchangeInv, SecretsCurrent, NoticesOf
<1>1. /\ mem'[c] = m /\ saved'[c] = file
      /\ \A e \in Clients : e # c => mem'[e] = mem[e] /\ saved'[e] = saved[e]
  BY DEF TypeOK
<1>2. Owned'
  BY <1>1 DEF Owned, Own, Sound
<1>3. \A a \in Clients : \A b \in Others(a) : \A n \in InFlight(a, b) :
        mem[a].pair # 0 /\ mem'[a].pair = mem[a].pair
  <2> TAKE a \in Clients
  <2> TAKE b \in Others(a)
  <2> TAKE n \in InFlight(a, b)
  <2>1. n.pub = mem[a].pair
    BY DEF Current
  <2>2. n \in Notice
    BY Notices
  <2>3. mem[a].pair # 0
    BY <2>1, <2>2, ExchangeAssumption DEF Notice
  <2> QED
    BY <1>1, <2>3 DEF Sound
<1>4. Current'
  BY <1>1, <1>3 DEF Current, Announced
<1>5. ASSUME NEW a \in Clients, NEW b \in Others(a),
             NEW n \in InFlight(b, a)', n.kind = "FINISH", mem'[b].keys[a] \in Secrets
      PROVE  mem'[b].keys[a] = Secret(a, mem'[a].pair, b, mem'[b].pair)
  <2>1. a # b /\ b \in Clients /\ a \in Others(b)
    BY DEF Others
  <2>2. CASE b = c /\ Announced(c, a, n)
    BY <1>1, <1>5, <2>1, <2>2, SecretSymmetric DEF Announced
  <2>3. CASE n \in InFlight(b, a) /\ mem'[b].keys[a] = mem[b].keys[a]
    <3>1. mem[b].keys[a] = Secret(a, mem[a].pair, b, mem[b].pair)
      BY <1>5, <2>3 DEF Agreed
    <3>2. mem'[b].pair = mem[b].pair
      BY <1>3, <2>1, <2>3
    <3>3. mem[a].pair # 0
      BY <1>5, <2>3, <3>1, NoSecret
    <3>4. mem'[a].pair = mem[a].pair
      BY <1>1, <3>3 DEF Sound
    <3> QED
      BY <2>3, <3>1, <3>2, <3>4
  <2>4. CASE b = c /\ mem'[b].keys[a] = Secret(c, m.pair, a, mem[a].pair)
    BY <1>1, <2>1, <2>4, SecretSymmetric
  <2> QED
    BY <1>1, <1>5, <2>1, <2>2, <2>3, <2>4
<1>6. Agreed'
  BY <1>5 DEF Agreed
<1> QED
  BY <1>2, <1>4, <1>6

\* Sending a notice puts that one on the link and nothing else.
LEMMA Sending ==
  ASSUME TypeOK, NEW c \in Clients, NEW d \in Others(c), NEW n \in Notice,
         link' = [link EXCEPT ![<<c, d>>] = Append(@, n)]
  PROVE  /\ link' \in [Pairs -> Seq(Notice)]
         /\ \A a \in Clients : \A b \in Others(a) : \A x \in InFlight(a, b)' :
              x \in InFlight(a, b) \/ (a = c /\ b = d /\ x = n)
<1>1. <<c, d>> \in Pairs /\ link \in [Pairs -> Seq(Notice)]
  BY Notices DEF TypeOK
<1> HIDE DEF Notice, Pairs
<1>2. link' \in [Pairs -> Seq(Notice)]
  BY <1>1
<1>3. ASSUME NEW a \in Clients, NEW b \in Others(a), NEW x \in InFlight(a, b)'
      PROVE  x \in InFlight(a, b) \/ (a = c /\ b = d /\ x = n)
  <2>1. <<a, b>> \in Pairs
    BY Notices
  <2>2. CASE <<a, b>> = <<c, d>>
    <3>1. link'[<<a, b>>] = Append(link[<<a, b>>], n)
      BY <1>1, <2>2
    <3>2. PICK i \in DOMAIN Append(link[<<a, b>>], n) : x = Append(link[<<a, b>>], n)[i]
      BY <3>1 DEF InFlight
    <3>3. link[<<a, b>>] \in Seq(Notice)
      BY Notices
    <3>4. x = n \/ \E j \in DOMAIN link[<<a, b>>] : x = link[<<a, b>>][j]
      BY <3>2, <3>3, InAppend
    <3>5. a = c /\ b = d
      BY <2>2
    <3> QED
      BY <3>4, <3>5 DEF InFlight
  <2>3. CASE <<a, b>> # <<c, d>>
    BY <1>1, <2>1, <2>3 DEF InFlight
  <2> QED
    BY <2>2, <2>3
<1> QED
  BY <1>2, <1>3

\* Taking a notice of d and answering it with ns, which is one notice or none.
LEMMA Taking ==
  ASSUME TypeOK, NEW c \in Clients, NEW d \in Others(c), link[<<d, c>>] # <<>>,
         NEW n \in Notice, NEW ns, ns = <<>> \/ ns = <<n>>, Taken(d, c, ns)
  PROVE  /\ link' \in [Pairs -> Seq(Notice)]
         /\ Head(link[<<d, c>>]) \in InFlight(d, c)
         /\ \A a \in Clients : \A b \in Others(a) : \A x \in InFlight(a, b)' :
              x \in InFlight(a, b) \/ (a = c /\ b = d /\ x = n /\ ns = <<n>>)
<1>1. /\ <<c, d>> \in Pairs /\ <<d, c>> \in Pairs /\ <<c, d>> # <<d, c>>
      /\ link \in [Pairs -> Seq(Notice)]
  BY DEF TypeOK, Pairs, Others
<1> HIDE DEF Notice, Pairs
<1>2. /\ link' = [link EXCEPT ![<<d, c>>] = Tail(@), ![<<c, d>>] = @ \o ns]
      /\ link[<<c, d>>] \in Seq(Notice) /\ link[<<d, c>>] \in Seq(Notice)
  BY <1>1 DEF Taken
<1>3. /\ link'[<<c, d>>] = link[<<c, d>>] \o ns
      /\ link'[<<d, c>>] = Tail(link[<<d, c>>])
      /\ \A p \in Pairs : p # <<c, d>> /\ p # <<d, c>> => link'[p] = link[p]
  BY <1>1, <1>2
<1>4. link[<<c, d>>] \o ns = link[<<c, d>>] \/ (ns = <<n>> /\ link[<<c, d>>] \o ns = Append(link[<<c, d>>], n))
  BY <1>2, InConcat
<1>5. Tail(link[<<d, c>>]) \in Seq(Notice)
  BY <1>2, InTail
<1>6. link' \in [Pairs -> Seq(Notice)]
  <2>1. link[<<c, d>>] \o ns \in Seq(Notice)
    <3>1. Append(link[<<c, d>>], n) \in Seq(Notice)
      BY <1>2
    <3> QED
      BY <1>2, <1>4, <3>1
  <2>2. DOMAIN link' = Pairs /\ link' = [p \in Pairs |-> link'[p]]
    BY <1>1, <1>2
  <2>3. \A p \in Pairs : link'[p] \in Seq(Notice)
    BY <1>1, <1>3, <1>5, <2>1
  <2> QED
    BY <2>2, <2>3
<1>7. Head(link[<<d, c>>]) \in InFlight(d, c)
  BY <1>2, InTail DEF InFlight
<1>8. ASSUME NEW a \in Clients, NEW b \in Others(a), NEW x \in InFlight(a, b)'
      PROVE  x \in InFlight(a, b) \/ (a = c /\ b = d /\ x = n /\ ns = <<n>>)
  <2>1. <<a, b>> \in Pairs
    BY Notices
  <2>2. PICK i \in DOMAIN link'[<<a, b>>] : x = link'[<<a, b>>][i]
    BY DEF InFlight
  <2>3. CASE <<a, b>> = <<d, c>>
    <3>1. i \in DOMAIN Tail(link[<<d, c>>]) /\ x = Tail(link[<<d, c>>])[i]
      BY <1>3, <2>2, <2>3
    <3>2. \E j \in DOMAIN link[<<d, c>>] : x = link[<<d, c>>][j]
      BY <1>2, <3>1, InTail
    <3> QED
      BY <2>3, <3>2 DEF InFlight
  <2>4. CASE <<a, b>> = <<c, d>>
    <3>1. a = c /\ b = d /\ link'[<<a, b>>] = link[<<c, d>>] \o ns
      BY <1>3, <2>4
    <3>2. CASE link[<<c, d>>] \o ns = link[<<c, d>>]
      BY <2>2, <3>1, <3>2 DEF InFlight
    <3>3. CASE ns = <<n>> /\ link[<<c, d>>] \o ns = Append(link[<<c, d>>], n)
      <4>1. i \in DOMAIN Append(link[<<c, d>>], n) /\ x = Append(link[<<c, d>>], n)[i]
        BY <2>2, <3>1, <3>3
      <4>2. x = n \/ \E j \in DOMAIN link[<<c, d>>] : x = link[<<c, d>>][j]
        <5>1. link[<<c, d>>] \in Seq(Notice)
          BY <1>2
        <5> QED
          BY <4>1, <5>1, InAppend
      <4> QED
        BY <3>1, <3>3, <4>2 DEF InFlight
    <3> QED
      BY <1>4, <3>2, <3>3
  <2>5. CASE <<a, b>> # <<c, d>> /\ <<a, b>> # <<d, c>>
    BY <1>3, <2>1, <2>2, <2>5 DEF InFlight
  <2> QED
    BY <2>3, <2>4, <2>5
<1> QED
  BY <1>6, <1>7, <1>8

\* What a handler assigns after its calls keeps its type.
LEMMA CalledType ==
  ASSUME TypeOK, NEW c \in Clients, NEW m, NEW file, NEW n \in Nat,
         Sound(c, m, file), Called(c, m, file, n)
  PROVE  /\ mem' \in [Clients -> Config] /\ saved' \in [Clients -> Config]
         /\ made' \in [Clients -> 0..MaxPairs] /\ faults' \in 0..MaxFaults
<1>1. m.pair \in 0..MaxPairs
  BY DEF Sound, Config
<1>2. made' \in [Clients -> 0..MaxPairs]
  BY <1>1 DEF TypeOK, Called
<1>3. faults' \in 0..MaxFaults
  BY ExchangeAssumption DEF TypeOK, Called
<1> HIDE DEF Config
<1> QED
  BY <1>2, <1>3 DEF TypeOK, Called, Sound

\* A step that leaves configurations and links alone, or clears links.
LEMMA QuietStep ==
  ASSUME ExchangeInv, UNCHANGED mem, UNCHANGED saved,
         \A a \in Clients : \A b \in Others(a) : InFlight(a, b)' \subseteq InFlight(a, b)
  PROVE  Owned' /\ Current' /\ Agreed'
  BY DEF ExchangeInv, Owned, Own, Current, Agreed, Others

\* fish11_X25519_INIT keeps the invariant.
LEMMA StartKeeps ==
  ASSUME ExchangeInv, NEW c \in Clients, NEW d \in Others(c), StartExchange(c, d)
  PROVE  ExchangeInv'
<1>1. PICK r \in ExchangeKey(c, d) :
        /\ Called(c, r.mem, r.saved, r.fault)
        /\ Start(c, d, r.ok)
        /\ IF r.ok THEN Send(c, d, "INIT", r.mem.pair) ELSE UNCHANGED link
        /\ disturbed' = (disturbed \/ r.fault > 0)
  BY DEF StartExchange
<1>2. /\ Sound(c, r.mem, r.saved)
      /\ (r.ok = TRUE /\ r.mem.pair # 0) \/ r.ok = FALSE
      /\ r.fault \in Nat
      /\ \A e \in Others(c) : r.mem.keys[e] \in Secrets => r.mem.keys[e] = mem[c].keys[e]
  BY <1>1, Exchanged DEF Called
<1>3. /\ TypeOK /\ d \in Clients
      /\ mem' = [mem EXCEPT ![c] = r.mem] /\ saved' = [saved EXCEPT ![c] = r.saved]
  BY <1>1 DEF ExchangeInv, Called, Others
<1> DEFINE n == [kind |-> "INIT", pub |-> r.mem.pair]
<1>4. /\ link' \in [Pairs -> Seq(Notice)]
      /\ \A a \in Clients : \A b \in Others(a) : \A x \in InFlight(a, b)' :
           x \in InFlight(a, b) \/ (a = c /\ x = n)
  <2>1. CASE r.ok = TRUE
    <3>1. n \in Notice
      BY <1>2, <2>1, ExchangeAssumption DEF Sound, Config, Notice
    <3>2. link' = [link EXCEPT ![<<c, d>>] = Append(@, n)]
      BY <1>1, <2>1 DEF Send
    <3> HIDE DEF n
    <3> QED
      BY <1>3, <3>1, <3>2, Sending
  <2>2. CASE r.ok = FALSE
    <3>1. UNCHANGED link
      BY <1>1, <2>2
    <3> QED
      BY <1>3, <3>1 DEF TypeOK, InFlight
  <2> QED
    BY <1>2, <2>1, <2>2
<1>5. mem'[c] = r.mem
  BY <1>3 DEF TypeOK
<1>6. NoticesOf(c)
  BY <1>4, <1>5 DEF Announced, NoticesOf
<1>7. Owned' /\ Current' /\ Agreed'
  <2>1. SecretsCurrent(c, r.mem)
    BY <1>2 DEF SecretsCurrent
  <2> QED
    BY <1>2, <1>3, <1>6, <2>1, ClientStep
<1>8. TypeOK'
  <2>1. /\ dh' \in [Clients -> SUBSET Clients] /\ timer' \in [Clients -> SUBSET Clients]
        /\ untimed' \in [Clients -> SUBSET Clients]
    BY <1>1, <1>3 DEF Start, TypeOK
  <2>2. disturbed' \in BOOLEAN
    BY <1>1
  <2> QED
    BY <1>1, <1>2, <1>3, <1>4, <2>1, <2>2, CalledType DEF TypeOK
<1> QED
  BY <1>7, <1>8 DEF ExchangeInv

\* A notice that arrives carries the public key of its sender's keypair.
LEMMA Received ==
  ASSUME ExchangeInv, NEW c \in Clients, NEW d \in Others(c), NEW kind, Arrives(d, c, kind)
  PROVE  /\ d \in Clients /\ c \in Others(d) /\ link[<<d, c>>] # <<>>
         /\ Head(link[<<d, c>>]) \in InFlight(d, c)
         /\ Head(link[<<d, c>>]).kind = kind
         /\ Head(link[<<d, c>>]).pub \in 1..MaxPairs
         /\ Head(link[<<d, c>>]).pub = mem[d].pair
<1>1. d \in Clients /\ c \in Others(d)
  BY DEF Others
<1>2. link[<<d, c>>] # <<>> /\ Head(link[<<d, c>>]).kind = kind
  BY DEF Arrives
<1>3. link[<<d, c>>] \in Seq(Notice)
  BY <1>1, Notices DEF ExchangeInv
<1>4. Head(link[<<d, c>>]) \in InFlight(d, c)
  BY <1>2, <1>3, InTail DEF InFlight
<1>5. Head(link[<<d, c>>]) \in Notice
  BY <1>1, <1>4, Notices DEF ExchangeInv
<1>6. Head(link[<<d, c>>]).pub = mem[d].pair
  BY <1>1, <1>4 DEF ExchangeInv, Current
<1> QED
  BY <1>1, <1>2, <1>4, <1>5, <1>6 DEF Notice

\* FiSH11_ProcessPublicKey runs with as many keypairs as ExchangeKey left.
LEMMA PairedFirst ==
  ASSUME NEW c, NEW d, NEW pub, NEW m, NEW file,
         NEW q \in ProcessPublicKey(c, d, pub, m, file), q.mem.pair <= MaxPairs
  PROVE  m.pair <= MaxPairs
<1> DEFINE paired == WithPair(c, m)
<1>1. q.mem = WithKey(paired, d, Secret(c, paired.pair, d, pub))
  BY DEF ProcessPublicKey
<1>2. q.mem.pair = paired.pair
  BY <1>1 DEF WithKey
<1> QED
  BY <1>2, ExchangeAssumption DEF WithPair

\* The handler of X25519_INIT keeps the invariant.
LEMMA InitKeeps ==
  ASSUME ExchangeInv, NEW c \in Clients, NEW d \in Others(c), HandleInit(c, d)
  PROVE  ExchangeInv'
<1> DEFINE pub == Head(link[<<d, c>>]).pub
<1>1. /\ TypeOK /\ UNCHANGED <<dh, timer, untimed>>
      /\ d \in Clients /\ link[<<d, c>>] # <<>>
      /\ pub \in 1..MaxPairs /\ pub = mem[d].pair
  BY Received DEF HandleInit, ExchangeInv
<1>2. PICK r \in ExchangeKey(c, d) :
      \E q \in ProcessPublicKey(c, d, pub, r.mem, r.saved) :
        /\ Called(c, q.mem, q.saved, r.fault + q.fault)
        /\ Taken(d, c, IF Answers(c, d, r.ok)
                       THEN <<[kind |-> "FINISH", pub |-> q.mem.pair]>> ELSE <<>>)
        /\ disturbed' = (disturbed \/ r.fault + q.fault > 0)
  BY DEF HandleInit
<1> HIDE DEF pub
<1>3. PICK q \in ProcessPublicKey(c, d, pub, r.mem, r.saved) :
        /\ Called(c, q.mem, q.saved, r.fault + q.fault)
        /\ Taken(d, c, IF Answers(c, d, r.ok)
                       THEN <<[kind |-> "FINISH", pub |-> q.mem.pair]>> ELSE <<>>)
        /\ disturbed' = (disturbed \/ r.fault + q.fault > 0)
  BY <1>2
<1>4. q.mem.pair <= MaxPairs
  BY <1>3 DEF Called
<1>5. r.mem.pair <= MaxPairs
  BY <1>3, <1>4, PairedFirst
<1>6. /\ Sound(c, r.mem, r.saved)
      /\ (r.ok = TRUE /\ r.mem.pair # 0) \/ r.ok = FALSE
      /\ r.fault \in Nat
      /\ \A e \in Others(c) : r.mem.keys[e] \in Secrets => r.mem.keys[e] = mem[c].keys[e]
  BY <1>5, Exchanged
<1>7. Computed(c, d, pub, r.mem, q)
  BY <1>1, <1>4, <1>6, Processed
<1>8. /\ mem' = [mem EXCEPT ![c] = q.mem] /\ saved' = [saved EXCEPT ![c] = q.saved]
      /\ mem'[c] = q.mem
  BY <1>1, <1>3 DEF Called, TypeOK
<1> DEFINE n == [kind |-> "FINISH", pub |-> q.mem.pair]
           ns == IF Answers(c, d, r.ok) THEN <<n>> ELSE <<>>
<1>9. n \in Notice
  BY <1>7, ExchangeAssumption DEF Computed, Sound, Config, Notice
<1>10. /\ link' \in [Pairs -> Seq(Notice)]
       /\ \A a \in Clients : \A b \in Others(a) : \A x \in InFlight(a, b)' :
            x \in InFlight(a, b) \/ (a = c /\ b = d /\ x = n)
  <2>1. Taken(d, c, ns)
    BY <1>3
  <2> HIDE DEF n
  <2>2. ns = <<>> \/ ns = <<n>>
    OBVIOUS
  <2> HIDE DEF ns
  <2> QED
    BY <1>1, <1>9, <2>1, <2>2, Taking
<1>11. SecretsCurrent(c, q.mem)
  BY <1>1, <1>6, <1>7 DEF SecretsCurrent, Computed
<1>12. NoticesOf(c)
  BY <1>1, <1>7, <1>8, <1>10 DEF NoticesOf, Announced, Computed
<1>13. Owned' /\ Current' /\ Agreed'
  BY <1>7, <1>8, <1>11, <1>12, ClientStep DEF Computed
<1>14. TypeOK'
  <2>1. r.fault + q.fault \in Nat /\ disturbed' \in BOOLEAN
    BY <1>3, <1>6, <1>7 DEF Computed
  <2> QED
    BY <1>1, <1>3, <1>7, <1>10, <2>1, CalledType DEF TypeOK, Computed
<1> QED
  BY <1>13, <1>14 DEF ExchangeInv

\* The handler of X25519_FINISH keeps the invariant, and leaves the secret of
\* the keypair it found.
LEMMA FinishKeeps ==
  ASSUME ExchangeInv, NEW c \in Clients, NEW d \in Others(c), HandleFinish(c, d)
  PROVE  /\ ExchangeInv'
         /\ mem[c].pair # 0 => mem'[c].keys[d] = Secret(c, mem[c].pair, d, mem[d].pair)
<1> DEFINE n == Head(link[<<d, c>>])
           pub == n.pub
<1>1. /\ TypeOK /\ UNCHANGED <<timer, untimed>>
      /\ d \in Clients /\ link[<<d, c>>] # <<>>
      /\ n \in Notice
      /\ pub \in 1..MaxPairs /\ pub = mem[d].pair
  BY Received, Notices DEF HandleFinish, ExchangeInv
<1>2. PICK q \in ProcessPublicKey(c, d, pub, mem[c], saved[c]) :
        /\ Called(c, q.mem, q.saved, q.fault)
        /\ disturbed' = (disturbed \/ q.fault > 0)
  BY DEF HandleFinish
<1>3. dh' = [dh EXCEPT ![c] = @ \ {d}] /\ Taken(d, c, <<>>)
  BY DEF HandleFinish
<1> HIDE DEF pub, n
<1>4. Sound(c, mem[c], saved[c])
  BY DEF ExchangeInv, TypeOK, Owned, Sound
<1>5. q.mem.pair <= MaxPairs
  BY <1>2 DEF Called
<1>6. Computed(c, d, pub, mem[c], q)
  BY <1>1, <1>4, <1>5, Processed
<1>7. /\ mem' = [mem EXCEPT ![c] = q.mem] /\ saved' = [saved EXCEPT ![c] = q.saved]
      /\ mem'[c] = q.mem
  BY <1>1, <1>2 DEF Called, TypeOK
<1>8. /\ link' \in [Pairs -> Seq(Notice)]
      /\ \A a \in Clients : \A b \in Others(a) : InFlight(a, b)' \subseteq InFlight(a, b)
  <2>1. <<>> # <<n>>
    OBVIOUS
  <2> QED
    BY <1>1, <1>3, <2>1, Taking
<1>9. SecretsCurrent(c, q.mem) /\ NoticesOf(c)
  BY <1>1, <1>6, <1>8 DEF SecretsCurrent, NoticesOf, Computed
<1>10. Owned' /\ Current' /\ Agreed'
  BY <1>6, <1>7, <1>9, ClientStep DEF Computed
<1>11. TypeOK'
  <2>1. disturbed' \in BOOLEAN /\ dh' \in [Clients -> SUBSET Clients]
    BY <1>1, <1>2, <1>3 DEF TypeOK
  <2> QED
    BY <1>1, <1>2, <1>6, <1>8, <2>1, CalledType DEF TypeOK, Computed
<1> QED
  BY <1>1, <1>6, <1>7, <1>10, <1>11 DEF ExchangeInv, Computed, Sound

\* So do a late FINISH, a timeout and a lost notice.
LEMMA QuietKeeps ==
  ASSUME ExchangeInv, NEW c \in Clients, NEW d \in Others(c),
         RefuseFinish(c, d) \/ Timeout(c, d) \/ Lose(c, d)
  PROVE  ExchangeInv'
<1>1. TypeOK /\ d \in Clients /\ UNCHANGED <<mem, saved, made>>
  BY DEF ExchangeInv, Others, RefuseFinish, Timeout, Lose
<1>2. /\ link' \in [Pairs -> Seq(Notice)]
      /\ \A a \in Clients : \A b \in Others(a) : InFlight(a, b)' \subseteq InFlight(a, b)
  <2>1. CASE RefuseFinish(c, d)
    <3> DEFINE n == Head(link[<<d, c>>])
    <3>1. TypeOK /\ link[<<d, c>>] # <<>> /\ n \in Notice
      BY <1>1, <2>1, Received, Notices DEF RefuseFinish, ExchangeInv
    <3>2. Taken(d, c, <<>>)
      BY <2>1 DEF RefuseFinish
    <3> HIDE DEF n
    <3>3. <<>> # <<n>>
      OBVIOUS
    <3> QED
      BY <3>1, <3>2, <3>3, Taking
  <2>2. CASE Timeout(c, d)
    BY <1>1, <2>2 DEF Timeout, TypeOK, InFlight
  <2>3. CASE Lose(c, d)
    <3>1. <<c, d>> \in Pairs /\ link[<<c, d>>] \in Seq(Notice) /\ link \in [Pairs -> Seq(Notice)]
      BY <1>1, Notices DEF TypeOK
    <3>2. link[<<c, d>>] # <<>> /\ link' = [link EXCEPT ![<<c, d>>] = Tail(@)]
      BY <2>3 DEF Lose
    <3> HIDE DEF Pairs, Notice
    <3>3. /\ Tail(link[<<c, d>>]) \in Seq(Notice)
          /\ \A i \in DOMAIN Tail(link[<<c, d>>]) :
               \E j \in DOMAIN link[<<c, d>>] : Tail(link[<<c, d>>])[i] = link[<<c, d>>][j]
      BY <3>1, <3>2, InTail
    <3>4. link' \in [Pairs -> Seq(Notice)]
      BY <3>1, <3>2, <3>3
    <3>5. ASSUME NEW a \in Clients, NEW b \in Others(a)
          PROVE  InFlight(a, b)' \subseteq InFlight(a, b)
      <4>1. <<a, b>> \in Pairs
        BY <1>1, Notices
      <4>2. CASE <<a, b>> = <<c, d>>
        <5>1. link'[<<a, b>>] = Tail(link[<<c, d>>])
          BY <3>1, <3>2, <4>2
        <5> QED
          BY <3>3, <4>2, <5>1 DEF InFlight
      <4>3. CASE <<a, b>> # <<c, d>>
        BY <3>1, <3>2, <4>1, <4>3 DEF InFlight
      <4> QED
        BY <4>2, <4>3
    <3> QED
      BY <3>4, <3>5
  <2> QED
    BY <2>1, <2>2, <2>3
<1>3. /\ dh' \in [Clients -> SUBSET Clients] /\ timer' \in [Clients -> SUBSET Clients]
      /\ untimed' \in [Clients -> SUBSET Clients]
      /\ faults' \in 0..MaxFaults /\ disturbed' \in BOOLEAN
  <2>1. CASE RefuseFinish(c, d)
    BY <1>1, <2>1 DEF RefuseFinish, TypeOK
  <2>2. CASE Timeout(c, d)
    BY <1>1, <2>2 DEF Timeout, TypeOK
  <2>3. CASE Lose(c, d)
    BY <1>1, <2>3, ExchangeAssumption DEF Lose, TypeOK
  <2> QED
    BY <2>1, <2>2, <2>3
<1>4. Owned' /\ Current' /\ Agreed'
  BY <1>1, <1>2, QuietStep
<1> QED
  BY <1>1, <1>2, <1>3, <1>4 DEF ExchangeInv, TypeOK

\* A key set by hand is no secret, and keeps the invariant.
LEMMA SetKeyKeeps ==
  ASSUME ExchangeInv, NEW c \in Clients, NEW d \in Others(c),
         NEW k \in ManualKeys \cup {NoKey}, SetKey(c, d, k)
  PROVE  ExchangeInv'
<1> DEFINE m == WithKey(mem[c], d, k)
<1>1. TypeOK /\ d \in Clients /\ mem[c] \in Config /\ Own(c, mem[c])
  BY DEF ExchangeInv, TypeOK, Owned, Others
<1>2. k \in AllKeys /\ k \notin Secrets
  BY KeyAssumption DEF AllKeys
<1>3. /\ m \in Config /\ m.pair = mem[c].pair /\ m.keys[d] = k /\ Own(c, m)
      /\ \A e \in Clients : e # d => m.keys[e] = mem[c].keys[e]
  <2> DEFINE old == mem[c]
  <2>1. old \in Config /\ Own(c, old) /\ (k \in Secrets => <<c, old.pair>> \in k)
    BY <1>1, <1>2
  <2> HIDE DEF old
  <2>2. /\ WithKey(old, d, k) \in Config
        /\ WithKey(old, d, k).pair = old.pair
        /\ WithKey(old, d, k).keys[d] = k
        /\ \A e \in Clients : e # d => WithKey(old, d, k).keys[e] = old.keys[e]
        /\ Own(c, WithKey(old, d, k))
    BY <1>1, <1>2, <2>1, Keyed
  <2> QED
    BY <2>2 DEF old
<1>4. /\ mem' = [mem EXCEPT ![c] = m] /\ faults' \in 0..MaxFaults
      /\ saved' = [saved EXCEPT ![c] = m] \/ saved' = [saved EXCEPT ![c] = saved[c]]
      /\ disturbed' = TRUE /\ UNCHANGED <<made, dh, timer, link, untimed>>
  BY <1>1, ExchangeAssumption DEF SetKey, TypeOK
<1> HIDE DEF m
<1>5. PICK file \in {m, saved[c]} : saved' = [saved EXCEPT ![c] = file]
  BY <1>4
<1>6. SecretsCurrent(c, m) /\ NoticesOf(c) /\ Sound(c, m, file)
  <2>1. file \in Config /\ Own(c, file)
    BY <1>1, <1>3, <1>5 DEF ExchangeInv, TypeOK, Owned
  <2> QED
    BY <1>2, <1>3, <1>4, <2>1 DEF SecretsCurrent, NoticesOf, Sound, InFlight, Others
<1>7. Owned' /\ Current' /\ Agreed'
  BY <1>4, <1>5, <1>6, ClientStep
<1>8. TypeOK'
  <2> HIDE DEF Config, Notice
  <2> QED
    BY <1>1, <1>3, <1>4, <1>5, <1>6 DEF TypeOK, Sound
<1> QED
  BY <1>7, <1>8 DEF ExchangeInv

\* So does a disconnect, which takes notices from their way and touches no key.
LEMMA DisconnectKeeps ==
  ASSUME ExchangeInv, NEW c \in Clients, Disconnect(c)
  PROVE  ExchangeInv'
<1>1. TypeOK /\ UNCHANGED <<mem, saved, made, dh>> /\ disturbed' = TRUE
  BY DEF ExchangeInv, Disconnect
<1>2. PICK arrives \in BOOLEAN :
        link' = [p \in Pairs |-> IF c = p[2] \/ (c = p[1] /\ ~arrives) THEN <<>> ELSE link[p]]
  BY DEF Disconnect
<1>3. \A p \in Pairs : link'[p] \in {<<>>, link[p]}
  BY <1>2
<1>4. link' \in [Pairs -> Seq(Notice)]
  <2> HIDE DEF Pairs, Notice
  <2> QED
    BY <1>1, <1>2 DEF TypeOK
<1>5. ASSUME NEW a \in Clients, NEW b \in Others(a)
      PROVE  InFlight(a, b)' \subseteq InFlight(a, b)
  <2>1. link'[<<a, b>>] \in {<<>>, link[<<a, b>>]}
    BY <1>1, <1>3, Notices
  <2>2. CASE link'[<<a, b>>] = <<>>
    <3>1. DOMAIN link'[<<a, b>>] = {}
      BY <2>2
    <3> QED
      BY <3>1 DEF InFlight
  <2>3. CASE link'[<<a, b>>] = link[<<a, b>>]
    BY <2>3 DEF InFlight
  <2> QED
    BY <2>1, <2>2, <2>3
<1>6. Owned' /\ Current' /\ Agreed'
  BY <1>1, <1>5, QuietStep
<1>7. TypeOK'
  <2>1. /\ timer' \in [Clients -> SUBSET Clients] /\ untimed' \in [Clients -> SUBSET Clients]
        /\ faults' \in 0..MaxFaults
    BY <1>1, ExchangeAssumption DEF Disconnect, TypeOK
  <2> HIDE DEF Config, Notice
  <2> QED
    BY <1>1, <1>4, <2>1 DEF TypeOK
<1> QED
  BY <1>6, <1>7 DEF ExchangeInv

\* A restart keeps the invariant: what the file holds is sound and nothing of
\* the client or for it is in flight.
LEMMA RestartKeeps ==
  ASSUME ExchangeInv, NEW c \in Clients, Restart(c)
  PROVE  ExchangeInv'
<1>1. TypeOK /\ mem' = [mem EXCEPT ![c] = saved[c]] /\ UNCHANGED <<saved, made>>
  BY DEF ExchangeInv, Restart, Reloaded
<1>2. link' = [p \in Pairs |-> IF c \in {p[1], p[2]} THEN <<>> ELSE link[p]]
  BY DEF Restart
<1>3. link' \in [Pairs -> Seq(Notice)]
  <2> HIDE DEF Pairs, Notice
  <2> QED
    BY <1>1, <1>2 DEF TypeOK
<1>4. ASSUME NEW a \in Clients, NEW b \in Others(a), NEW n \in InFlight(a, b)'
      PROVE  a # c /\ b # c /\ n \in InFlight(a, b)
  <2>1. <<a, b>> \in Pairs
    BY <1>1, Notices
  <2>2. CASE a = c \/ b = c
    <3>1. link'[<<a, b>>] = <<>>
      BY <1>2, <2>1, <2>2
    <3> QED
      BY <1>4, <3>1 DEF InFlight
  <2>3. CASE a # c /\ b # c
    <3>1. link'[<<a, b>>] = link[<<a, b>>]
      BY <1>2, <2>1, <2>3
    <3> QED
      BY <1>4, <2>3, <3>1 DEF InFlight
  <2> QED
    BY <2>2, <2>3
<1>5. mem'[c] = saved[c] /\ \A e \in Clients : e # c => mem'[e] = mem[e]
  BY <1>1 DEF TypeOK
<1>6. Owned'
  BY <1>1, <1>5 DEF ExchangeInv, Owned
<1>7. Current' /\ Agreed'
  BY <1>4, <1>5 DEF ExchangeInv, Current, Agreed, Others
<1>8. TypeOK'
  <2>1. /\ dh' \in [Clients -> SUBSET Clients] /\ timer' \in [Clients -> SUBSET Clients]
        /\ untimed' \in [Clients -> SUBSET Clients]
        /\ faults' \in 0..MaxFaults /\ disturbed' \in BOOLEAN
    BY <1>1, ExchangeAssumption DEF Restart, TypeOK
  <2> HIDE DEF Config, Notice
  <2> QED
    BY <1>1, <1>3, <2>1 DEF TypeOK
<1> QED
  BY <1>6, <1>7, <1>8 DEF ExchangeInv

-----------------------------------------------------------------------------
(* Random keys.  As long as nothing is disturbed NoStrandedKey is inductive *)
(* with the types: a random key appears with the INIT that is sent, and the *)
(* FINISH that answers it is taken with the secret that replaces it.        *)

\* The question of c or the answer of d is on its way.
Awaited(c, d) ==
    \/ \E n \in InFlight(c, d) : n.kind = "INIT"
    \/ \E n \in InFlight(d, c) : n.kind = "FINISH"

NoneStranded ==
    \A c \in Clients : \A d \in Others(c) :
        mem[c].keys[d] = Random(c) => d \in dh[c] /\ Awaited(c, d)

\* The invariant of the runs says this of what is in flight.
LEMMA StrandedMeans == NoStrandedKey <=> (~disturbed => NoneStranded)
  BY DEF NoStrandedKey, NoneStranded, Awaited, InFlight

\* NoStrandedKey is that of the next state.
LEMMA StrandedMeansNext == NoStrandedKey' <=> (~disturbed' => NoneStranded')
  BY DEF NoStrandedKey, NoneStranded, Awaited, InFlight

\* What is in flight stays there when a notice is sent.
LEMMA SendingKeeps ==
  ASSUME TypeOK, NEW c \in Clients, NEW d \in Others(c), NEW n \in Notice,
         link' = [link EXCEPT ![<<c, d>>] = Append(@, n)]
  PROVE  /\ n \in InFlight(c, d)'
         /\ \A a \in Clients : \A b \in Others(a) : InFlight(a, b) \subseteq InFlight(a, b)'
<1>1. <<c, d>> \in Pairs /\ link[<<c, d>>] \in Seq(Notice) /\ link \in [Pairs -> Seq(Notice)]
  BY Notices DEF TypeOK
<1> HIDE DEF Notice, Pairs
<1> DEFINE s == link[<<c, d>>]
<1>2. link'[<<c, d>>] = Append(s, n) /\ s \in Seq(Notice)
  BY <1>1
<1>3. /\ Len(s) + 1 \in DOMAIN Append(s, n) /\ Append(s, n)[Len(s) + 1] = n
      /\ \A i \in DOMAIN s : i \in DOMAIN Append(s, n) /\ Append(s, n)[i] = s[i]
  <2> HIDE DEF s
  <2> QED
    BY <1>2
<1>4. n \in InFlight(c, d)'
  BY <1>2, <1>3 DEF InFlight
<1>5. ASSUME NEW a \in Clients, NEW b \in Others(a), NEW x \in InFlight(a, b)
      PROVE  x \in InFlight(a, b)'
  <2>1. <<a, b>> \in Pairs
    BY Notices
  <2>2. CASE <<a, b>> = <<c, d>>
    BY <1>2, <1>3, <2>2 DEF InFlight
  <2>3. CASE <<a, b>> # <<c, d>>
    BY <1>1, <2>1, <2>3 DEF InFlight
  <2> QED
    BY <2>2, <2>3
<1> QED
  BY <1>4, <1>5

\* Of what is in flight the first notice is taken, and the answer added.
LEMMA TakingKeeps ==
  ASSUME TypeOK, NEW c \in Clients, NEW d \in Others(c), link[<<d, c>>] # <<>>,
         NEW n \in Notice, NEW ns, ns = <<>> \/ ns = <<n>>, Taken(d, c, ns)
  PROVE  /\ ns = <<n>> => n \in InFlight(c, d)'
         /\ \A a \in Clients : \A b \in Others(a) : \A x \in InFlight(a, b) :
              x \in InFlight(a, b)' \/ (a = d /\ b = c /\ x = Head(link[<<d, c>>]))
<1>1. /\ <<c, d>> \in Pairs /\ <<d, c>> \in Pairs /\ <<c, d>> # <<d, c>>
      /\ link \in [Pairs -> Seq(Notice)]
  BY DEF TypeOK, Pairs, Others
<1> HIDE DEF Notice, Pairs
<1> DEFINE s == link[<<c, d>>]
           t == link[<<d, c>>]
<1>2. /\ link' = [link EXCEPT ![<<d, c>>] = Tail(@), ![<<c, d>>] = @ \o ns]
      /\ s \in Seq(Notice) /\ t \in Seq(Notice)
  BY <1>1 DEF Taken
<1>3. /\ link'[<<c, d>>] = s \o ns
      /\ link'[<<d, c>>] = Tail(t)
      /\ \A p \in Pairs : p # <<c, d>> /\ p # <<d, c>> => link'[p] = link[p]
  BY <1>1, <1>2
<1>4. t # <<>>
  OBVIOUS
<1> HIDE DEF s, t
<1>5. \A i \in DOMAIN s : i \in DOMAIN (s \o ns) /\ (s \o ns)[i] = s[i]
  <2>1. ns \in Seq(Notice)
    <3>1. <<>> \in Seq(Notice) /\ <<n>> \in Seq(Notice)
      OBVIOUS
    <3> QED
      BY <3>1
  <2> QED
    BY <1>2, <2>1
<1>6. ns = <<n>> => Len(s) + 1 \in DOMAIN (s \o ns) /\ (s \o ns)[Len(s) + 1] = n
  BY <1>2
<1>7. \A i \in DOMAIN t : t[i] = Head(t) \/ (i - 1 \in DOMAIN Tail(t) /\ Tail(t)[i - 1] = t[i])
  BY <1>2, <1>4
<1>8. ns = <<n>> => n \in InFlight(c, d)'
  BY <1>3, <1>6 DEF InFlight
<1>9. ASSUME NEW a \in Clients, NEW b \in Others(a), NEW x \in InFlight(a, b)
      PROVE  x \in InFlight(a, b)' \/ (a = d /\ b = c /\ x = Head(t))
  <2>1. <<a, b>> \in Pairs
    BY Notices
  <2>2. CASE <<a, b>> = <<c, d>>
    BY <1>3, <1>5, <2>2 DEF InFlight, s
  <2>3. CASE <<a, b>> = <<d, c>>
    <3>1. PICK i \in DOMAIN t : x = t[i]
      BY <2>3 DEF InFlight, t
    <3>2. CASE t[i] = Head(t)
      BY <2>3, <3>1, <3>2
    <3>3. CASE i - 1 \in DOMAIN Tail(t) /\ Tail(t)[i - 1] = t[i]
      BY <1>3, <2>3, <3>1, <3>3 DEF InFlight
    <3> QED
      BY <1>7, <3>2, <3>3
  <2>4. CASE <<a, b>> # <<c, d>> /\ <<a, b>> # <<d, c>>
    BY <1>3, <2>1, <2>4 DEF InFlight
  <2> QED
    BY <2>2, <2>3, <2>4
<1> QED
  BY <1>8, <1>9 DEF t

\* A secret is no random key.
LEMMA SecretNotRandom ==
  ASSUME NEW c, NEW p, NEW d, NEW q, c # d PROVE Secret(c, p, d, q) # Random(c)
<1>1. <<d, q>> \in Secret(c, p, d, q)
  BY DEF Secret
<1>2. <<d, q>> \notin Random(c)
  BY DEF Random
<1> QED
  BY <1>1, <1>2

\* FiSH11_ExchangeKey without a fault returns a public key and touches no key but
\* the one for d.
LEMMA ExchangedWell ==
  ASSUME TypeOK, NEW c \in Clients, NEW d \in Others(c), NEW r \in ExchangeKey(c, d),
         r.fault = 0
  PROVE  r.ok = TRUE /\ \A e \in Others(c) : e # d => r.mem.keys[e] = mem[c].keys[e]
<1> DEFINE m == mem[c]
           keyed == IF m.keys[d] = NoKey THEN WithKey(m, d, Random(c)) ELSE m
           full == WithPair(c, keyed)
<1>1. m \in Config
  BY DEF TypeOK
<1>2. r.ok = TRUE /\ r.mem = full
  BY DEF ExchangeKey
<1> HIDE DEF m
<1>3. keyed \in [pair : Nat, keys : [Clients -> {keyed.keys[e] : e \in Clients}]]
  BY <1>1, ExchangeAssumption DEF WithKey, Config
<1>4. \A e \in Others(c) : e # d => keyed.keys[e] = m.keys[e]
  BY <1>1 DEF WithKey, Config, Others
<1> HIDE DEF keyed
<1>5. full.keys = keyed.keys
  BY <1>3 DEF WithPair
<1> QED
  BY <1>2, <1>4, <1>5 DEF m

\* fish11_X25519_INIT sends the question with the key it has put in place.
LEMMA StartStrandsNone ==
  ASSUME ExchangeInv, NoStrandedKey, NEW c \in Clients, NEW d \in Others(c),
         StartExchange(c, d)
  PROVE  NoStrandedKey'
<1>1. SUFFICES ASSUME ~disturbed' PROVE NoneStranded'
  BY StrandedMeansNext
<1>2. PICK r \in ExchangeKey(c, d) :
        /\ Called(c, r.mem, r.saved, r.fault)
        /\ Start(c, d, r.ok)
        /\ IF r.ok THEN Send(c, d, "INIT", r.mem.pair) ELSE UNCHANGED link
        /\ disturbed' = (disturbed \/ r.fault > 0)
  BY DEF StartExchange
<1>3. /\ Sound(c, r.mem, r.saved) /\ r.fault \in Nat
      /\ (r.ok = TRUE /\ r.mem.pair # 0) \/ r.ok = FALSE
  BY <1>2, Exchanged DEF Called
<1>4. r.fault = 0 /\ NoneStranded
  <2>1. ~disturbed /\ ~(r.fault > 0)
    BY <1>1, <1>2, Zenon
  <2> QED
    BY <1>3, <2>1, StrandedMeans
<1>5. TypeOK /\ d \in Clients
  BY DEF ExchangeInv, Others
<1>6. r.ok = TRUE /\ \A e \in Others(c) : e # d => r.mem.keys[e] = mem[c].keys[e]
  BY <1>4, <1>5, ExchangedWell
<1>7. /\ mem'[c] = r.mem /\ \A a \in Clients : a # c => mem'[a] = mem[a]
      /\ d \in dh'[c] /\ \A a \in Clients : dh[a] \subseteq dh'[a]
  BY <1>2, <1>5 DEF Called, Start, TypeOK
<1> DEFINE n == [kind |-> "INIT", pub |-> r.mem.pair]
<1>8. n \in Notice /\ n.kind = "INIT"
  BY <1>3, <1>6, ExchangeAssumption DEF Sound, Config, Notice
<1>9. link' = [link EXCEPT ![<<c, d>>] = Append(@, n)]
  BY <1>2, <1>6 DEF Send
<1> HIDE DEF n
<1>10. /\ n \in InFlight(c, d)'
       /\ \A a \in Clients : \A b \in Others(a) : InFlight(a, b) \subseteq InFlight(a, b)'
  BY <1>5, <1>8, <1>9, SendingKeeps
<1>11. ASSUME NEW a \in Clients, NEW b \in Others(a), mem'[a].keys[b] = Random(a)
       PROVE  b \in dh'[a] /\ Awaited(a, b)'
  <2>1. CASE a = c /\ b = d
    BY <1>7, <1>8, <1>10, <2>1 DEF Awaited
  <2>2. CASE ~(a = c /\ b = d)
    <3>1. mem[a].keys[b] = Random(a)
      BY <1>6, <1>7, <1>11, <2>2
    <3>2. b \in dh[a] /\ Awaited(a, b)
      BY <1>4, <3>1 DEF NoneStranded
    <3>3. b \in Clients /\ a \in Others(b)
      BY DEF Others
    <3> QED
      BY <1>7, <1>10, <3>2, <3>3 DEF Awaited
  <2> QED
    BY <2>1, <2>2
<1> QED
  BY <1>11 DEF NoneStranded

\* The answer to X25519_INIT follows the question that it takes.
LEMMA InitStrandsNone ==
  ASSUME ExchangeInv, NoStrandedKey, NEW c \in Clients, NEW d \in Others(c),
         HandleInit(c, d)
  PROVE  NoStrandedKey'
<1> DEFINE pub == Head(link[<<d, c>>]).pub
<1>1. SUFFICES ASSUME ~disturbed' PROVE NoneStranded'
  BY StrandedMeansNext
<1>2. /\ TypeOK /\ dh' = dh
      /\ d \in Clients /\ link[<<d, c>>] # <<>>
      /\ pub \in 1..MaxPairs
  BY Received DEF HandleInit, ExchangeInv
<1>3. PICK r \in ExchangeKey(c, d) :
      \E q \in ProcessPublicKey(c, d, pub, r.mem, r.saved) :
        /\ Called(c, q.mem, q.saved, r.fault + q.fault)
        /\ Taken(d, c, IF Answers(c, d, r.ok)
                       THEN <<[kind |-> "FINISH", pub |-> q.mem.pair]>> ELSE <<>>)
        /\ disturbed' = (disturbed \/ r.fault + q.fault > 0)
  BY DEF HandleInit
<1> HIDE DEF pub
<1>4. PICK q \in ProcessPublicKey(c, d, pub, r.mem, r.saved) :
        /\ Called(c, q.mem, q.saved, r.fault + q.fault)
        /\ Taken(d, c, IF Answers(c, d, r.ok)
                       THEN <<[kind |-> "FINISH", pub |-> q.mem.pair]>> ELSE <<>>)
        /\ disturbed' = (disturbed \/ r.fault + q.fault > 0)
  BY <1>3
<1>5. q.mem.pair <= MaxPairs
  BY <1>4 DEF Called
<1>6. r.mem.pair <= MaxPairs
  BY <1>4, <1>5, PairedFirst
<1>7. Sound(c, r.mem, r.saved) /\ r.fault \in Nat
  BY <1>6, Exchanged
<1>8. Computed(c, d, pub, r.mem, q)
  BY <1>2, <1>5, <1>7, Processed
<1>9. r.fault = 0 /\ NoneStranded
  <2>1. ~disturbed /\ ~(r.fault + q.fault > 0)
    BY <1>1, <1>4, Zenon
  <2> QED
    BY <1>7, <1>8, <2>1, StrandedMeans DEF Computed
<1>10. r.ok = TRUE /\ \A e \in Others(c) : e # d => r.mem.keys[e] = mem[c].keys[e]
  BY <1>2, <1>9, ExchangedWell
<1>11. mem'[c] = q.mem /\ \A a \in Clients : a # c => mem'[a] = mem[a]
  BY <1>2, <1>4 DEF Called, TypeOK
<1> DEFINE n == [kind |-> "FINISH", pub |-> q.mem.pair]
<1>12. n \in Notice /\ n.kind = "FINISH"
  BY <1>8, ExchangeAssumption DEF Computed, Sound, Config, Notice
<1>13. Taken(d, c, <<n>>)
  BY <1>4, <1>10 DEF Answers
<1> HIDE DEF n
<1>14. /\ n \in InFlight(c, d)'
       /\ \A a \in Clients : \A b \in Others(a) : \A x \in InFlight(a, b) :
            x \in InFlight(a, b)' \/ (a = d /\ b = c)
  BY <1>2, <1>12, <1>13, TakingKeeps
<1>15. ASSUME NEW a \in Clients, NEW b \in Others(a), mem'[a].keys[b] = Random(a)
       PROVE  b \in dh'[a] /\ Awaited(a, b)'
  <2>1. ~(a = c /\ b = d)
    BY <1>8, <1>11, <1>15, SecretNotRandom DEF Computed, Others
  <2>2. mem[a].keys[b] = Random(a)
    BY <1>8, <1>10, <1>11, <1>15, <2>1 DEF Computed
  <2>3. b \in dh[a] /\ Awaited(a, b)
    BY <1>9, <2>2 DEF NoneStranded
  <2>4. b \in Clients /\ a \in Others(b)
    BY DEF Others
  <2>5. CASE a = d /\ b = c
    BY <1>2, <1>12, <1>14, <2>3, <2>5 DEF Awaited
  <2>6. CASE ~(a = d /\ b = c)
    BY <1>2, <1>14, <2>1, <2>3, <2>4, <2>6 DEF Awaited
  <2> QED
    BY <2>5, <2>6
<1> QED
  BY <1>15 DEF NoneStranded

\* An answer is taken with the key that waited for it, or waited for by none.
LEMMA FinishStrandsNone ==
  ASSUME ExchangeInv, NoStrandedKey, NEW c \in Clients, NEW d \in Others(c),
         HandleFinish(c, d) \/ RefuseFinish(c, d)
  PROVE  NoStrandedKey'
<1> DEFINE n == Head(link[<<d, c>>])
           pub == n.pub
<1>1. SUFFICES ASSUME ~disturbed' PROVE NoneStranded'
  BY StrandedMeansNext
<1>2. /\ TypeOK /\ d \in Clients /\ link[<<d, c>>] # <<>>
      /\ n \in Notice /\ n.kind = "FINISH"
      /\ pub \in 1..MaxPairs
      /\ Taken(d, c, <<>>)
  BY Received, Notices DEF HandleFinish, RefuseFinish, ExchangeInv
<1>3. \A a \in Clients : \A b \in Others(a) : \A x \in InFlight(a, b) :
        x \in InFlight(a, b)' \/ (a = d /\ b = c /\ x = n)
  BY <1>2, TakingKeeps
<1>4. /\ NoneStranded
      /\ mem'[c].keys[d] # Random(c)
      /\ \A a \in Clients : \A b \in Others(a) :
            ~(a = c /\ b = d) => /\ mem'[a].keys[b] = mem[a].keys[b]
                                 /\ b \in dh[a] => b \in dh'[a]
  <2> HIDE DEF pub, n
  <2>1. CASE HandleFinish(c, d)
    <3>1. PICK q \in ProcessPublicKey(c, d, pub, mem[c], saved[c]) :
            /\ Called(c, q.mem, q.saved, q.fault)
            /\ disturbed' = (disturbed \/ q.fault > 0)
      BY <2>1 DEF HandleFinish, pub, n
    <3>2. q.mem.pair <= MaxPairs
      BY <3>1 DEF Called
    <3>3. Sound(c, mem[c], saved[c])
      BY DEF ExchangeInv, TypeOK, Owned, Sound
    <3>4. Computed(c, d, pub, mem[c], q)
      BY <1>2, <3>2, <3>3, Processed
    <3>5. mem'[c] = q.mem /\ \A a \in Clients : a # c => mem'[a] = mem[a]
      BY <1>2, <3>1 DEF Called, TypeOK
    <3>6. mem'[c].keys[d] # Random(c)
      BY <3>4, <3>5, SecretNotRandom DEF Computed, Others
    <3>7. dh' = [dh EXCEPT ![c] = @ \ {d}]
      BY <2>1 DEF HandleFinish
    <3>8. \A a \in Clients : \A b \in Others(a) :
            ~(a = c /\ b = d) /\ b \in dh[a] => b \in dh'[a]
      BY <1>2, <3>7 DEF TypeOK
    <3>9. NoneStranded
      BY <1>1, <3>1, StrandedMeans
    <3> QED
      BY <3>4, <3>5, <3>6, <3>8, <3>9 DEF Computed
  <2>2. CASE RefuseFinish(c, d)
    <3>1. d \notin dh[c] /\ UNCHANGED <<mem, dh, disturbed>>
      BY <2>2 DEF RefuseFinish
    <3>2. NoneStranded
      BY <1>1, <3>1, StrandedMeans
    <3> QED
      BY <3>1, <3>2 DEF NoneStranded
  <2> QED
    BY <2>1, <2>2
<1> HIDE DEF n
<1>5. ASSUME NEW a \in Clients, NEW b \in Others(a), mem'[a].keys[b] = Random(a)
      PROVE  b \in dh'[a] /\ Awaited(a, b)'
  <2>1. ~(a = c /\ b = d)
    BY <1>4, <1>5
  <2>2. b \in dh[a] /\ Awaited(a, b)
    BY <1>4, <1>5, <2>1 DEF NoneStranded
  <2>3. b \in Clients /\ a \in Others(b)
    BY DEF Others
  <2>4. "INIT" # n.kind
    BY <1>2
  <2>5. Awaited(a, b)'
    BY <1>3, <2>1, <2>2, <2>3, <2>4 DEF Awaited
  <2> QED
    BY <1>4, <2>1, <2>2, <2>5
<1> QED
  BY <1>5 DEF NoneStranded

\* No step leaves a random key without an answer on its way, unless something was
\* disturbed.
LEMMA StrandedStep ==
  ASSUME ExchangeInv, NoStrandedKey, [Next]_vars
  PROVE  NoStrandedKey'
<1>1. ASSUME NEW c \in Clients, NEW d \in Others(c), StartExchange(c, d) \/ Handle(c, d)
      PROVE  NoStrandedKey'
  BY <1>1, StartStrandsNone, InitStrandsNone, FinishStrandsNone DEF Handle
<1>2. ASSUME NEW c \in Clients, NEW d \in Others(c), Timeout(c, d)
      PROVE  NoStrandedKey'
  <2>1. SUFFICES ASSUME ~disturbed' PROVE NoneStranded'
    BY StrandedMeansNext
  <2>2. d \notin dh[c] /\ ~disturbed
    BY <1>2, <2>1 DEF Timeout
  <2>3. dh' = dh
    <3>1. dh \in [Clients -> SUBSET Clients] /\ dh' = [dh EXCEPT ![c] = @ \ {d}]
      BY <1>2 DEF Timeout, ExchangeInv, TypeOK
    <3>2. dh[c] \ {d} = dh[c]
      BY <2>2
    <3> QED
      BY <3>1, <3>2
  <2>4. UNCHANGED <<mem, link>>
    BY <1>2 DEF Timeout
  <2>5. NoneStranded
    BY <2>2, StrandedMeans
  <2> QED
    BY <2>3, <2>4, <2>5 DEF NoneStranded, Awaited, InFlight
<1>3. ASSUME disturbed' PROVE NoStrandedKey'
  BY <1>3, StrandedMeansNext
<1>4. CASE UNCHANGED vars
  BY <1>4 DEF vars, NoStrandedKey
<1> QED
  BY <1>1, <1>2, <1>3, <1>4 DEF Next, Lose, SetKey, Disconnect, Restart

-----------------------------------------------------------------------------
(* The theorems.                                                           *)

\* Clients start with nothing.
LEMMA ExchangeInvInit == ASSUME Init PROVE ExchangeInv
<1>1. Fresh \in Config /\ \A d \in Clients : Fresh.keys[d] \notin Secrets
  BY ExchangeAssumption, KeyAssumption DEF Fresh, Config, AllKeys
<1>2. \A a \in Clients : \A b \in Others(a) : link[<<a, b>>] = <<>>
  BY DEF Init, Pairs, Others
<1>3. TypeOK
  <2>1. link \in [Pairs -> Seq(Notice)]
    <3>1. <<>> \in Seq(Notice)
      OBVIOUS
    <3> HIDE DEF Pairs, Notice
    <3> QED
      BY <3>1 DEF Init
  <2> HIDE DEF Config, Notice
  <2>2. mem \in [Clients -> Config] /\ saved \in [Clients -> Config]
    BY <1>1 DEF Init
  <2>3. made \in [Clients -> 0..MaxPairs] /\ faults \in 0..MaxFaults
    <3>1. 0 \in 0..MaxPairs /\ 0 \in 0..MaxFaults
      BY ExchangeAssumption
    <3> QED
      BY <3>1 DEF Init
  <2>4. /\ dh \in [Clients -> SUBSET Clients] /\ timer \in [Clients -> SUBSET Clients]
        /\ untimed \in [Clients -> SUBSET Clients]
    BY DEF Init
  <2>5. disturbed \in BOOLEAN
    BY DEF Init
  <2> QED
    BY <2>1, <2>2, <2>3, <2>4, <2>5 DEF TypeOK
<1>4. Owned
  BY <1>1 DEF Init, Owned, Own, Others
<1>5. \A a \in Clients : \A b \in Others(a) : InFlight(a, b) = {}
  <2>1. TAKE a \in Clients
  <2>2. TAKE b \in Others(a)
  <2>3. link[<<a, b>>] = <<>>
    BY <1>2
  <2>4. DOMAIN link[<<a, b>>] = {}
    BY <2>3
  <2> QED
    BY <2>4 DEF InFlight
<1>6. Current /\ Agreed
  BY <1>5 DEF Current, Agreed, Others
<1> QED
  BY <1>3, <1>4, <1>6 DEF ExchangeInv

\* Every step keeps the invariant.
LEMMA ExchangeInvStep == ASSUME ExchangeInv, [Next]_vars PROVE ExchangeInv'
<1>1. ASSUME NEW c \in Clients, NEW d \in Others(c),
             StartExchange(c, d) \/ Handle(c, d) \/ Timeout(c, d) \/ Lose(c, d)
      PROVE  ExchangeInv'
  BY <1>1, StartKeeps, InitKeeps, FinishKeeps, QuietKeeps DEF Handle
<1>2. ASSUME NEW c \in Clients, NEW d \in Others(c), NEW k \in ManualKeys \cup {NoKey},
             SetKey(c, d, k)
      PROVE  ExchangeInv'
  BY <1>2, SetKeyKeeps
<1>3. ASSUME NEW c \in Clients, Disconnect(c) \/ Restart(c) PROVE ExchangeInv'
  BY <1>3, DisconnectKeeps, RestartKeeps
<1>4. CASE UNCHANGED vars
  <2>1. UNCHANGED <<mem, saved, made, dh, timer, link, faults, disturbed, untimed>>
    BY <1>4 DEF vars
  <2>2. TypeOK'
    BY <2>1 DEF ExchangeInv, TypeOK
  <2>3. \A a, b : InFlight(a, b)' = InFlight(a, b)
    BY <2>1 DEF InFlight
  <2>4. Owned'
    BY <2>1 DEF ExchangeInv, Owned
  <2>5. Current' /\ Agreed'
    BY <2>1, <2>3 DEF ExchangeInv, Current, Agreed
  <2> QED
    BY <2>2, <2>4, <2>5 DEF ExchangeInv
<1> QED
  BY <1>1, <1>2, <1>3, <1>4 DEF Next

\* Every variable keeps its type: no notice with an unmade keypair is sent.
THEOREM TypeCorrect == Spec => []TypeOK
<1>1. ExchangeInv => TypeOK
  BY DEF ExchangeInv
<1> QED
  BY <1>1, ExchangeInvInit, ExchangeInvStep, PTL DEF Spec

\* A shared secret that a client holds was made with the keypair it holds,
\* whatever could be saved before it restarted (get_keypair, load_keypair).
THEOREM OwnPairs == Spec => []SecretsOverOwnPair
<1>1. ExchangeInv => SecretsOverOwnPair
  BY DEF ExchangeInv, Owned, Own, SecretsOverOwnPair
<1> QED
  BY <1>1, ExchangeInvInit, ExchangeInvStep, PTL DEF Spec

\* When the FINISH handler completes an exchange the two clients hold the same
\* key, unless the other one no longer holds a secret.
THEOREM CompleteIsShared == Spec => CompleteMeansShared
<1> DEFINE Shared == \A c \in Clients : \A d \in Others(c) :
                       /\ HandleFinish(c, d)
                       /\ mem[d].keys[c] \in Secrets
                       => mem'[c].keys[d] = mem[d].keys[c]
<1>1. ASSUME ExchangeInv, NEW c \in Clients, NEW d \in Others(c), HandleFinish(c, d),
             mem[d].keys[c] \in Secrets
      PROVE  mem'[c].keys[d] = mem[d].keys[c]
  <2>1. Arrives(d, c, "FINISH")
    BY <1>1 DEF HandleFinish
  <2>2. \E n \in InFlight(d, c) : n.kind = "FINISH"
    BY <1>1, <2>1, Received
  <2>3. mem[d].keys[c] = Secret(c, mem[c].pair, d, mem[d].pair)
    BY <1>1, <2>2 DEF ExchangeInv, Agreed
  <2>4. mem[c].pair # 0
    BY <1>1, <2>3, NoSecret
  <2> QED
    BY <1>1, <2>3, <2>4, FinishKeeps
<1>2. ExchangeInv => [Shared]_vars
  BY <1>1
<1> QED
  BY <1>2, ExchangeInvInit, ExchangeInvStep, PTL DEF Spec, CompleteMeansShared

\* A random key is there only while the notice that will replace it is on its way,
\* as long as no call fails, nothing is lost and nobody changes a key by hand
\* (FiSH11_ExchangeKey, fish11_timeout_keyexchange).
THEOREM NoneIsStranded == Spec => []NoStrandedKey
<1>1. Init => NoStrandedKey
  BY KeyAssumption DEF Init, Fresh, NoStrandedKey, Others
<1> QED
  BY <1>1, ExchangeInvInit, ExchangeInvStep, StrandedStep, PTL DEF Spec
=============================================================================
