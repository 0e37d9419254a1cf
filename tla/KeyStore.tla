------------------------------ MODULE KeyStore ------------------------------
(***************************************************************************)
(* The keys of fish_11_dll: entries "nick@network", the nick-to-network    *)
(* mapping, the process-wide current network and the life of exchanged     *)
(* keys (config/key_management.rs, config/networks.rs, lib.rs,             *)
(* dll_interface/utility.rs), with what a restart keeps of them            *)
(* (config/ini_helpers.rs).                                                *)
(*                                                                         *)
(* One action is one critical section of CONFIG: set_key takes the lock    *)
(* twice, get_private_key three times.  Dates are ages in abstract ticks.  *)
(* Saving is assumed to succeed here; ConfigAccess models the saves.  What *)
(* an INI reader makes of a name matters: nothing escapes it.              *)
(***************************************************************************)
EXTENDS Integers

CONSTANTS
    Threads, Nicks, Networks, Keys,
    Commented,          \* names like #channel: their lines read as comments
    Headers,            \* names like [tag]nick: their lines read as section headers
    DefaultNet,         \* the network called "default"
    NoNet,              \* no network given, set or mapped
    NoKey,              \* no entry
    MinTtl, MaxTtl,     \* range of set_configured_key_ttl
    DefaultTtl,         \* lifetime when key_ttl is absent
    IniTtls,            \* values a hand-edited key_ttl may have
    NoTtl,              \* key_ttl is absent
    Grace,              \* KEY_EXPIRY_GRACE_PERIOD
    Warning,            \* WARNING_THRESHOLD_SECONDS
    MaxAge              \* bound on ages: older keys behave as this one

ASSUME KeyStoreAssumption ==
    /\ DefaultNet \in Networks /\ Commented \subseteq Nicks /\ Headers \subseteq Nicks
    /\ NoNet \notin Networks /\ NoKey \notin Keys
    /\ "Expired" \notin Keys      \* an error of get_key is no key
    /\ MinTtl \in Nat /\ MaxTtl \in Nat /\ DefaultTtl \in MinTtl..MaxTtl
    /\ IniTtls \subseteq Nat /\ NoTtl \notin Nat
    /\ Grace \in Nat /\ Warning \in Nat /\ MaxAge \in Nat

Slots == Nicks \X Networks
Ttls  == MinTtl..MaxTtl \cup IniTtls \cup {NoTtl}

\* origin is not in the code: it remembers how the key was really obtained.
Entry == [key : Keys, exchange : BOOLEAN, age : 0..MaxAge, origin : BOOLEAN]
None  == [key |-> NoKey]

\* A call between two of its critical sections: set_key before it updates the
\* mapping, get_private_key with the lifetime that check_key_expiry has read, and
\* between check_key_expiry and get_key.
Idle  == [at |-> "idle"]
Calls == [at : {"map"}, nick : Nicks, given : Networks \cup {NoNet}, slot : Networks]
         \cup [at : {"expiry"}, nick : Nicks, lifetime : MinTtl..MaxTtl]
         \cup [at : {"get"}, nick : Nicks] \cup {Idle}

VARIABLES
    entries,    \* config.entries
    mapping,    \* config.nick_networks
    current,    \* CURRENT_NETWORK
    ttl,        \* config.fish11.key_ttl
    call        \* the pending call of each thread

vars == <<entries, mapping, current, ttl, call>>

TypeOK ==
    /\ entries \in [Slots -> Entry \cup {None}]
    /\ mapping \in [Nicks -> Networks \cup {NoNet}]
    /\ current \in Networks \cup {NoNet}
    /\ ttl \in Ttls
    /\ call \in [Threads -> Calls]

Init ==
    /\ entries = [s \in Slots |-> None]
    /\ mapping = [n \in Nicks |-> NoNet]
    /\ current = NoNet
    /\ ttl \in Ttls
    /\ call = [t \in Threads |-> Idle]

-----------------------------------------------------------------------------
(* What the readers make of the configuration.                             *)

Orelse(a, b) == IF a # NoNet THEN a ELSE b

\* resolve_network_name: given > current > mapping > "default".
ResolveFull(nick, given) ==
    Orelse(given, Orelse(current, Orelse(mapping[nick], DefaultNet)))

\* resolve_network_name_simple: given > current > "default".
ResolveSimple(given) == Orelse(given, Orelse(current, DefaultNet))

\* get_key_internal and delete_key: given > mapping > "default".
ResolveMapped(nick, given) ==
    Orelse(given, Orelse(mapping[nick], DefaultNet))

\* The lifetime get_key_internal uses: the configured value as it stands.
RawTtl == IF ttl = NoTtl THEN DefaultTtl ELSE ttl

\* get_configured_key_ttl: the value brought into the valid range.
ConfiguredTtl ==
    IF RawTtl < MinTtl THEN MinTtl ELSE IF RawTtl > MaxTtl THEN MaxTtl ELSE RawTtl

Present(nick, net) == entries[<<nick, net>>] # None

\* (Mutant: the grace period is left out.)
EntryOutcomeNoGrace(nick, net) ==
    LET e == entries[<<nick, net>>]
    IN  IF e.exchange /\ RawTtl - e.age <= 0 THEN "Expired" ELSE e.key

\* What get_key_internal returns when it stops at this entry.
EntryOutcome(nick, net) ==
    LET e == entries[<<nick, net>>]
    IN  IF e.exchange /\ RawTtl + Grace - e.age <= 0 THEN "Expired" ELSE e.key

\* get_key: the entry of the network; else the one of "default"; else, when
\* the network is "default", any entry of the nickname, in no fixed order.
GetKey(nick, given) ==
    LET net == ResolveMapped(nick, given)
        others == {w \in Networks : Present(nick, w)}
    IN  IF Present(nick, net) THEN {EntryOutcome(nick, net)}
        ELSE IF others = {} THEN {"NotFound"}
        ELSE IF net = DefaultNet THEN {EntryOutcome(nick, w) : w \in others}
        ELSE IF Present(nick, DefaultNet) THEN {EntryOutcome(nick, DefaultNet)}
        ELSE {"NotFound"}

\* get_key_ttl of an entry: seconds left, 0 when expired, -1 when none apply.
Remaining(nick, net) ==
    LET e == entries[<<nick, net>>]
        left == ConfiguredTtl + Grace - e.age
    IN  IF ~e.exchange THEN -1 ELSE IF left > 0 THEN left ELSE 0

\* get_key_ttl and its texts, by the network of resolve_network_name; the other
\* readers of the time left are built on it.
TtlText(nick, given) ==
    LET net == ResolveFull(nick, given)
    IN  CASE ~Present(nick, net)          -> "NotFound"
          [] Present(nick, net) /\ Remaining(nick, net) = -1 -> "NO_TTL"
          [] Present(nick, net) /\ Remaining(nick, net) = 0  -> "EXPIRED"
          [] OTHER                        -> "left"

\* FiSH11_GetKeyTTL <nickname>.
GetKeyTTL(nick) == TtlText(nick, NoNet)

\* get_key_status and get_key_status_human_readable.
Status(nick, given) ==
    CASE TtlText(nick, given) = "NotFound" -> "NotFound"
      [] TtlText(nick, given) = "NO_TTL"   -> "manual key"
      [] TtlText(nick, given) = "EXPIRED"  -> "expired"
      [] OTHER                             -> "expires"

\* is_key_about_to_expire.
AboutToExpire(nick, given) ==
    LET net == ResolveFull(nick, given)
    IN  Present(nick, net) /\ Remaining(nick, net) \in 0..Warning

\* get_all_keys_with_ttl.
AllKeysWithTtl ==
    {[nick |-> s[1], net |-> s[2], ttl |-> TtlText(s[1], s[2])] : s \in {x \in Slots : Present(x[1], x[2])}}

\* (Mutant: the flag is not looked at.)
OverdueAny(nick, net, lifetime) ==
    Present(nick, net) /\ entries[<<nick, net>>].age > lifetime + Grace

\* check_key_expiry deletes an entry that is this old.
Overdue(nick, net, lifetime) ==
    /\ Present(nick, net)
    /\ entries[<<nick, net>>].exchange
    /\ entries[<<nick, net>>].age > lifetime + Grace

-----------------------------------------------------------------------------
(* set_key.                                                                *)

\* First critical section: the entry is written, a new one or, when the caller says
\* overwrite, over the one there; else the call ends with DuplicateEntry and changes
\* nothing.
SetEntry(t, nick, given, key, exchange) ==
    LET net == ResolveFull(nick, given)
    IN  /\ call[t] = Idle
        /\ entries' = [entries EXCEPT ![<<nick, net>>] =
               [key |-> key, exchange |-> exchange, age |-> 0, origin |-> exchange]]
        /\ call' = [call EXCEPT ![t] =
               [at |-> "map", nick |-> nick, given |-> given, slot |-> net]]
        /\ UNCHANGED <<mapping, current, ttl>>

\* (Mutant: the network given by the caller is not used for the mapping.)
SetMappingCurrent(t) ==
    /\ call[t].at = "map"
    /\ mapping' = [mapping EXCEPT ![call[t].nick] = ResolveSimple(NoNet)]
    /\ call' = [call EXCEPT ![t] = Idle]
    /\ UNCHANGED <<entries, current, ttl>>

\* Second critical section: the network is resolved again, by other rules and
\* from the current network of that moment.
SetMapping(t) ==
    /\ call[t].at = "map"
    /\ mapping' = [mapping EXCEPT ![call[t].nick] = ResolveSimple(call[t].given)]
    /\ call' = [call EXCEPT ![t] = Idle]
    /\ UNCHANGED <<entries, current, ttl>>

\* delete_key: without a network the mapping goes too, found or not.
DeleteKey(t, nick, given) ==
    /\ call[t] = Idle
    /\ entries' = [entries EXCEPT ![<<nick, ResolveMapped(nick, given)>>] = None]
    /\ mapping' = IF given = NoNet THEN [mapping EXCEPT ![nick] = NoNet] ELSE mapping
    /\ UNCHANGED <<current, ttl, call>>

-----------------------------------------------------------------------------
(* get_private_key: check_key_expiry(nick, None), then get_key(nick, None). *)

\* get_configured_key_ttl: it may be outdated when the entry is looked at.
ReadLifetime(t, nick) ==
    /\ call[t] = Idle
    /\ call' = [call EXCEPT ![t] = [at |-> "expiry", nick |-> nick, lifetime |-> ConfiguredTtl]]
    /\ UNCHANGED <<entries, mapping, current, ttl>>

\* An overdue key is deleted with the mapping of the nickname, and the call
\* ends with KeyExpired.
CheckKeyExpiry(t) ==
    LET nick == call[t].nick
        net  == ResolveSimple(NoNet)
        late == Overdue(nick, net, call[t].lifetime)
    IN  /\ call[t].at = "expiry"
        /\ \/ /\ late
              /\ entries' = [entries EXCEPT ![<<nick, net>>] = None]
              /\ mapping' = [mapping EXCEPT ![nick] = NoNet]
              /\ call' = [call EXCEPT ![t] = Idle]
           \/ /\ ~late
              /\ call' = [call EXCEPT ![t] = [at |-> "get", nick |-> nick]]
              /\ UNCHANGED <<entries, mapping>>
        /\ UNCHANGED <<current, ttl>>

\* The outcome is one of GetKey(call[t].nick, NoNet).
FinishGet(t) ==
    /\ call[t].at = "get"
    /\ call' = [call EXCEPT ![t] = Idle]
    /\ UNCHANGED <<entries, mapping, current, ttl>>

-----------------------------------------------------------------------------
(* The surroundings.                                                       *)

\* FiSH11_SetNetwork, and both engine callbacks for the socket they serve.
SetCurrentNetwork(net) ==
    /\ current # net
    /\ current' = net
    /\ UNCHANGED <<entries, mapping, ttl, call>>

\* set_configured_key_ttl rejects what is out of range.
SetConfiguredKeyTtl(v) ==
    /\ v \in MinTtl..MaxTtl
    /\ ttl' = v
    /\ UNCHANGED <<entries, mapping, current, call>>

\* rename_network and merge_networks change the mapping and no entry.
RenameNetwork(from, to) ==
    /\ mapping' = [n \in Nicks |-> IF mapping[n] = from THEN to ELSE mapping[n]]
    /\ UNCHANGED <<entries, current, ttl, call>>

\* delete_network, and clear_all_network_mappings for all networks at once.
DeleteNetworks(nets) ==
    /\ mapping' = [n \in Nicks |-> IF mapping[n] \in nets THEN NoNet ELSE mapping[n]]
    /\ UNCHANGED <<entries, current, ttl, call>>

Older(e) == IF e = None \/ e.age = MaxAge THEN e ELSE [e EXCEPT !.age = @ + 1]

Tick ==
    /\ entries' = [s \in Slots |-> Older(entries[s])]
    /\ entries' # entries
    /\ UNCHANGED <<mapping, current, ttl, call>>

\* load_entries: key and date come back, every key as a manual one.
Reloaded(e) == IF e = None THEN e ELSE [e EXCEPT !.exchange = FALSE]

\* The saved file has a line that reads as a section header.
Misread == \E n \in Headers : mapping[n] # NoNet \/ \E net \in Networks : Present(n, net)

Plain == Nicks \ (Commented \cup Headers)

\* The lines that are found in their section again.  A header in between takes
\* lines after it into a section of its own; how many depends on the names, and
\* one that is not closed can take the rest of the file.
Survivors(lines) == IF Misread THEN SUBSET lines ELSE {lines}

\* (Mutant: the [NickNetworks] section is not read back.)
RestartUnmapped ==
    /\ entries' = [s \in Slots |-> Reloaded(entries[s])]
    /\ mapping' = [n \in Nicks |-> NoNet]
    /\ current' = NoNet
    /\ call' = [t \in Threads |-> Idle]
    /\ UNCHANGED ttl

\* The process ends, also in the middle of calls, and loads what was saved.
Restart ==
    /\ \E slots \in Survivors({s \in Plain \X Networks : entries[s] # None}) :
          entries' = [s \in Slots |-> IF s \in slots THEN Reloaded(entries[s]) ELSE None]
    /\ \E nicks \in Survivors({n \in Plain : mapping[n] # NoNet}) :
          mapping' = [n \in Nicks |-> IF n \in nicks THEN mapping[n] ELSE NoNet]
    /\ \/ UNCHANGED ttl
       \/ Misread /\ ttl' = NoTtl
    /\ current' = NoNet
    /\ call' = [t \in Threads |-> Idle]

\* The file cannot be read when the process starts again: nothing is left of it,
\* and the next save replaces it.
RestartUnread ==
    /\ entries' = [s \in Slots |-> None]
    /\ mapping' = [n \in Nicks |-> NoNet]
    /\ ttl' = NoTtl
    /\ current' = NoNet
    /\ call' = [t \in Threads |-> Idle]

Next ==
    \/ \E t \in Threads, nick \in Nicks :
         \/ \E given \in Networks \cup {NoNet} :
              \/ \E key \in Keys, exchange \in BOOLEAN : SetEntry(t, nick, given, key, exchange)
              \/ DeleteKey(t, nick, given)
         \/ ReadLifetime(t, nick)
    \/ \E t \in Threads : SetMapping(t) \/ CheckKeyExpiry(t) \/ FinishGet(t)
    \/ \E net \in Networks : SetCurrentNetwork(net) \/ DeleteNetworks({net})
    \/ \E from, to \in Networks : RenameNetwork(from, to)
    \/ DeleteNetworks(Networks)
    \/ \E v \in Ttls : SetConfiguredKeyTtl(v)
    \/ Tick
    \/ Restart \/ RestartUnread

Spec == Init /\ [][Next]_vars

-----------------------------------------------------------------------------
(* Properties.                                                             *)

\* With a lifetime in the valid range the readers of an entry's age agree:
\* get_key refuses it exactly when the list of all keys says EXPIRED, and
\* check_key_expiry deletes only what is listed so.  Of a nickname, when no
\* network is set, FiSH11_GetKeyTTL and the status speak of the entry that
\* get_key returns or refuses, and give warning before it is refused.
ReadersAgree ==
    RawTtl \in MinTtl..MaxTtl =>
        /\ \A k \in AllKeysWithTtl :
              /\ EntryOutcome(k.nick, k.net) = "Expired" <=> k.ttl = "EXPIRED"
              /\ Overdue(k.nick, k.net, ConfiguredTtl) => k.ttl = "EXPIRED"
        /\ current = NoNet => \A nick \in Nicks : GetKeyTTL(nick) # "NotFound" =>
              /\ GetKey(nick, NoNet) = {"Expired"} <=> GetKeyTTL(nick) = "EXPIRED"
              /\ GetKey(nick, NoNet) = {"Expired"} <=> Status(nick, NoNet) = "expired"
              /\ GetKey(nick, NoNet) = {"Expired"} => AboutToExpire(nick, NoNet)

\* check_key_expiry never deletes a key that was set by hand, whatever its age
\* (session_expiry_test.rs: "Manual keys should not expire").
ManualKeysStay ==
    [][\A t \in Threads : CheckKeyExpiry(t) =>
          \A s \in Slots : entries[s] # None /\ ~entries[s].origin
                           => entries'[s] = entries[s]]_vars

\* When set_key with a network returns, a get_key without one reads the entry
\* just written, whatever other threads and sockets did in between; only a
\* deletion or another set_key of the same entry can hide it.
ReadYourWrites ==
    [][\A t \in Threads, nick \in Nicks, net \in Networks :
          /\ SetMapping(t)
          /\ call[t].nick = nick /\ call[t].slot = net /\ call[t].given = net
          /\ Present(nick, net)
          => GetKey(nick, NoNet)' = {EntryOutcome(nick, net)}]_vars

\* A restart that reads the file loses no key whose name is no comment to an INI
\* reader, unless a name that reads as a section header was saved with it:
\* whatever get_key could return it can still return.
RestartKeepsKeys ==
    [][Restart /\ ~Misread =>
          \A nick \in Nicks \ Commented, given \in Networks \cup {NoNet} :
             (GetKey(nick, given) \cap Keys) \subseteq GetKey(nick, given)']_vars
=============================================================================
