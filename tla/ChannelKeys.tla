---------------------------- MODULE ChannelKeys ----------------------------
(***************************************************************************)
(* The keys of one channel in several FiSH_11 clients:                     *)
(* FiSH11_InitChannelKey at a coordinator, the +FiSH-CEP-KEY notices,      *)
(* FiSH11_ProcessChannelKey at the members, manual keys, the ratchet state *)
(* kept beside the channel key, and the messages sent meanwhile.           *)
(*                                                                         *)
(* Each call takes CONFIG twice, once to set the channel key and once to   *)
(* initialise the ratchet state, and messages may be sent and read         *)
(* between.  IRC delivers what one client sends another in order.  The     *)
(* answer of a call is cut at 900 bytes without an error, and with it the  *)
(* notices that come last.  The ratchet branches of FiSH11_DecryptMsg and  *)
(* of the engine need a ratchet state and no channel key, which no client  *)
(* ever has (RatchetUnreached in ChannelKeysProofs): they have no action.  *)
(***************************************************************************)
EXTENDS Naturals, Sequences, FiniteSetsExt

CONSTANTS
    Clients,
    Channels,       \* the channels considered
    Keys,           \* the random keys InitChannelKey may draw
    ManualKeys,     \* the keys users may set by hand
    NoKey

\* clients: those on the channel; coordinators: those of them that call
\* FiSH11_InitChannelKey; shared: <<c, d>> when c holds the right pre-shared
\* key for d; misnamed: those whose configured nickname is not their IRC nick;
\* manual: the keys their users set by hand; fits: how many notices fit into an
\* answer whole; maxLink: bound on what is in flight from one client to another.
ASSUME ChannelAssumption ==
    /\ \A ch \in Channels :
         /\ ch.clients \subseteq Clients
         /\ ch.coordinators \subseteq ch.clients /\ ch.misnamed \subseteq ch.clients
         /\ ch.shared \subseteq ch.clients \X ch.clients
         /\ ch.manual \subseteq ManualKeys
         /\ ch.fits \in Nat /\ ch.maxLink \in Nat
    /\ NoKey \notin Keys \cup ManualKeys

AllKeys == Keys \cup ManualKeys

\* What one client sends another: a wrapped key, or a channel message with the
\* key that encrypted it.  "agreed" is not in the code: on a message, whether
\* the addressee was bound to hold that key when the message was sent.
Item == [kind : {"key"}, key : Keys]
        \cup [kind : {"msg"}, key : AllKeys, agreed : BOOLEAN]

\* A call between its two critical sections.
Idle == [at |-> "idle"]
Calls == {Idle} \cup [at : {"process"}, key : Keys]
         \cup [at : {"init"}, key : Keys, members : SUBSET Clients]

VARIABLES
    channel,        \* the channel
    channelKey,     \* config.channel_keys
    ratchet,        \* current key of config.channel_ratchet_states: epoch 0
    manual,         \* the "channel_key_" entry, decrypted
    call,           \* the pending call of each client
    link,           \* what is in flight from one client to another
    group           \* not in the code: members that the last successful
                    \* InitChannelKey told and that have not restarted since

vars == <<channel, channelKey, ratchet, manual, call, link, group>>

Members == channel.clients

TypeOK ==
    /\ channel \in Channels
    /\ channelKey \in [Clients -> Keys \cup {NoKey}]
    /\ ratchet \in [Clients -> Keys \cup {NoKey}]
    /\ manual \in [Clients -> ManualKeys \cup {NoKey}]
    /\ call \in [Clients -> Calls]
    /\ link \in [Clients \X Clients -> Seq(Item)]
    /\ \A p \in Clients \X Clients : Len(link[p]) <= channel.maxLink
    /\ group \in [Clients -> SUBSET Clients]

Init ==
    /\ channel \in Channels
    /\ channelKey = [c \in Clients |-> NoKey]
    /\ ratchet = [c \in Clients |-> NoKey]
    /\ manual \in [Clients -> channel.manual \cup {NoKey}]
    /\ \A c \in Clients \ Members : manual[c] = NoKey
    /\ call = [c \in Clients |-> Idle]
    /\ link = [p \in Clients \X Clients |-> <<>>]
    /\ group = [c \in Clients |-> {}]

-----------------------------------------------------------------------------

\* get_channel_key_with_fallback: the manual key first.
ActiveKey(c) == IF manual[c] # NoKey THEN manual[c] ELSE channelKey[c]

\* d accepts a +FiSH-CEP-KEY of c: the claimed coordinator is the sender and
\* the pre-shared key unwraps it.
Accepts(d, c) == c \notin channel.misnamed /\ <<d, c>> \in channel.shared

IsKey(item) == item.kind = "key"

\* The channel key of a client that held k, once it has taken the first n of the
\* items: the last key among them.
HeldAfter(items, n, k) ==
    LET ks == {i \in 1..n : IsKey(items[i])}
    IN  IF ks = {} THEN k ELSE items[Max(ks)].key

\* The channel key d holds once it has handled the first n items from c.
Expected(c, d, n) ==
    IF Accepts(d, c) THEN HeldAfter(link[<<c, d>>], n, channelKey[d]) ELSE channelKey[d]

Expects(c, d) == Expected(c, d, Len(link[<<c, d>>]))

\* The key is random: no other client, link or call ever had it.
Unused(k) ==
    \A c \in Clients :
        /\ k \notin {channelKey[c], ratchet[c]}
        /\ call[c].at # "idle" => call[c].key # k
        /\ \A d \in Clients : \A i \in DOMAIN link[<<c, d>>] : link[<<c, d>>][i].key # k

Room(c, ds) == \A d \in ds : Len(link[<<c, d>>]) < channel.maxLink

-----------------------------------------------------------------------------

\* FiSH11_InitChannelKey up to set_channel_key: the members are not looked at.
InitChannelKey(c, members) ==
    /\ c \in channel.coordinators /\ members # {}
    /\ call[c] = Idle
    /\ \E k \in Keys :
        /\ Unused(k)
        /\ channelKey' = [channelKey EXCEPT ![c] = k]
        /\ call' = [call EXCEPT ![c] = [at |-> "init", key |-> k, members |-> members]]
    /\ group' = [group EXCEPT ![c] = {}]
    /\ UNCHANGED <<channel, ratchet, manual, link>>

\* init_ratchet_state: or_insert_with.
RatchetInit(c, k) ==
    ratchet' = [ratchet EXCEPT ![c] = IF @ = NoKey THEN k ELSE @]

\* The members whose notice is in the answer whole: all of them, if there is room;
\* else some, by the order in which the call named them.
Reached(others) ==
    {told \in SUBSET others :
        IF Cardinality(others) <= channel.fits THEN told = others
        ELSE Cardinality(told) = channel.fits}

\* (Mutant: the notices carry the key the ratchet state kept.)
DistributeRatchet(c) ==
    LET others == call[c].members \ {c} IN
    /\ call[c].at = "init"
    /\ others # {} /\ \A d \in others : <<c, d>> \in channel.shared
    /\ Room(c, others)
    /\ RatchetInit(c, call[c].key)
    /\ link' = [p \in Clients \X Clients |->
                    IF p[1] = c /\ p[2] \in others
                    THEN Append(link[p], [kind |-> "key", key |-> ratchet'[c]])
                    ELSE link[p]]
    /\ group' = [group EXCEPT ![c] = others]
    /\ call' = [call EXCEPT ![c] = Idle]
    /\ UNCHANGED <<channel, channelKey, manual>>

\* The rest of FiSH11_InitChannelKey and the notices the script sends, when every
\* other member has a pre-shared key.  The rest of a notice that is cut unwraps to
\* nothing.
Distribute(c) ==
    LET others == call[c].members \ {c} IN
    /\ call[c].at = "init"
    /\ others # {} /\ \A d \in others : <<c, d>> \in channel.shared
    /\ RatchetInit(c, call[c].key)
    /\ \E told \in Reached(others) :
        /\ Room(c, told)
        /\ link' = [p \in Clients \X Clients |->
                        IF p[1] = c /\ p[2] \in told
                        THEN Append(link[p], [kind |-> "key", key |-> call[c].key])
                        ELSE link[p]]
        /\ group' = [group EXCEPT ![c] = told]
    /\ call' = [call EXCEPT ![c] = Idle]
    /\ UNCHANGED <<channel, channelKey, manual>>

\* A member has no pre-shared key, or there is no other member: an error is
\* returned and no notice is sent, with the new key installed.
DistributeFails(c) ==
    LET others == call[c].members \ {c} IN
    /\ call[c].at = "init"
    /\ others = {} \/ \E d \in others : <<c, d>> \notin channel.shared
    /\ RatchetInit(c, call[c].key)
    /\ call' = [call EXCEPT ![c] = Idle]
    /\ UNCHANGED <<channel, channelKey, manual, link, group>>

Arrives(c, d, kind) ==
    /\ link[<<c, d>>] # <<>> /\ Head(link[<<c, d>>]).kind = kind
    /\ link' = [link EXCEPT ![<<c, d>>] = Tail(@)]

\* (Mutant: the member keeps the key it has, as the ratchet state does.)
ProcessKeepsOld(c, d) ==
    /\ call[d] = Idle
    /\ Accepts(d, c)
    /\ Arrives(c, d, "key")
    /\ LET k == Head(link[<<c, d>>]).key IN
        /\ channelKey' = [channelKey EXCEPT ![d] = IF @ = NoKey THEN k ELSE @]
        /\ call' = [call EXCEPT ![d] = [at |-> "process", key |-> k]]
    /\ UNCHANGED <<channel, ratchet, manual, group>>

\* FiSH11_ProcessChannelKey at d of a notice of c, up to set_channel_key.
ProcessChannelKey(c, d) ==
    /\ call[d] = Idle
    /\ Accepts(d, c)
    /\ Arrives(c, d, "key")
    /\ LET k == Head(link[<<c, d>>]).key IN
        /\ channelKey' = [channelKey EXCEPT ![d] = k]
        /\ call' = [call EXCEPT ![d] = [at |-> "process", key |-> k]]
    /\ UNCHANGED <<channel, ratchet, manual, group>>

\* The sender check or unwrap_key refuses the notice.
RejectChannelKey(c, d) ==
    /\ call[d] = Idle
    /\ ~Accepts(d, c)
    /\ Arrives(c, d, "key")
    /\ UNCHANGED <<channel, channelKey, ratchet, manual, call, group>>

FinishProcess(c) ==
    /\ call[c].at = "process"
    /\ RatchetInit(c, call[c].key)
    /\ call' = [call EXCEPT ![c] = Idle]
    /\ UNCHANGED <<channel, channelKey, manual, link, group>>

\* FiSH11_EncryptMsg for the channel: the key is used as it is, the ratchet
\* state is neither read nor advanced.  It goes to all members of the channel.
Encrypt(c) ==
    LET k == ActiveKey(c) IN
    /\ k # NoKey
    /\ Room(c, Members \ {c})
    /\ link' = [p \in Clients \X Clients |->
                    IF p[1] = c /\ p[2] \in Members \ {c}
                    THEN Append(link[p],
                            [kind |-> "msg", key |-> k,
                             agreed |-> manual[p[2]] = NoKey /\ Expects(c, p[2]) = k])
                    ELSE link[p]]
    /\ UNCHANGED <<channel, channelKey, ratchet, manual, call, group>>

\* FiSH11_DecryptMsg, which changes nothing of the channel's state whether it
\* decrypts the message or not.
Decrypt(c, d) ==
    /\ Arrives(c, d, "msg")
    /\ UNCHANGED <<channel, channelKey, ratchet, manual, call, group>>

SetManual(c, k) ==
    /\ manual' = [manual EXCEPT ![c] = k]
    /\ UNCHANGED <<channel, channelKey, ratchet, call, link, group>>

\* FiSH11_SetManualChannelKey overwrites, as the function that derives the key from
\* a password does.
SetManualChannelKey(c) == \E k \in channel.manual : SetManual(c, k)

\* Removing a key that is not there succeeds.
RemoveManualChannelKey(c) == SetManual(c, NoKey)

\* FiSH11_RemoveRatchetChannelKey.
RemoveRatchet(c) ==
    /\ ratchet' = [ratchet EXCEPT ![c] = NoKey]
    /\ UNCHANGED <<channel, channelKey, manual, call, link, group>>

\* The client restarts: config_to_ini saves neither channel keys nor ratchet
\* states, and what was in flight to or from it is lost with its connection.
Restart(c) ==
    /\ channelKey' = [channelKey EXCEPT ![c] = NoKey]
    /\ ratchet' = [ratchet EXCEPT ![c] = NoKey]
    /\ call' = [call EXCEPT ![c] = Idle]
    /\ link' = [p \in Clients \X Clients |-> IF c \in {p[1], p[2]} THEN <<>> ELSE link[p]]
    /\ group' = [d \in Clients |-> IF d = c THEN {} ELSE group[d] \ {c}]
    /\ UNCHANGED <<channel, manual>>

Finish(c) == Distribute(c) \/ DistributeFails(c) \/ FinishProcess(c)

Deliver(c, d) ==
    \/ ProcessChannelKey(c, d)
    \/ RejectChannelKey(c, d)
    \/ Decrypt(c, d)

Next ==
    \/ \E c \in Members, members \in SUBSET Members : InitChannelKey(c, members)
    \/ \E c \in Members :
         \/ Finish(c) \/ Encrypt(c)
         \/ SetManualChannelKey(c) \/ RemoveManualChannelKey(c)
         \/ RemoveRatchet(c) \/ Restart(c)
    \/ \E c, d \in Members : Deliver(c, d)

Spec == Init /\ [][Next]_vars

-----------------------------------------------------------------------------
(* Properties.                                                             *)

\* When only one client coordinates, every member that a distribution told and that
\* can accept its notice ends with the coordinator's key: whatever is still in
\* flight or half installed, the last key it will have handled is that one.  The
\* members told are the whole group as long as all notices fit into the answer.
GroupConverges ==
    \A c \in channel.coordinators : \A d \in group[c] :
        channel.coordinators = {c} /\ Accepts(d, c) => Expects(c, d) = channelKey[c]

\* When only one client coordinates, a message of its that d was bound to be
\* able to read when it was sent is readable when it arrives: re-keying never
\* cuts off what the coordinator has already sent.
CoordinatorHeard ==
    \A c \in channel.coordinators, d \in Members : \A i \in DOMAIN link[<<c, d>>] :
        LET item == link[<<c, d>>][i] IN
        /\ channel.coordinators = {c}
        /\ item.kind = "msg" /\ item.agreed /\ manual[d] = NoKey
        => Expected(c, d, i - 1) = item.key
=============================================================================
