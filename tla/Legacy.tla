------------------------------- MODULE Legacy -------------------------------
(***************************************************************************)
(* The FiSH 10 keys of two clients: the key store of fish_11_dll/legacy    *)
(* with its file blowfish.ini, and the DH1080 exchange between the clients *)
(* (crypto/dh1080.rs, driven by scripts/mirc/modules/fish11_legacy.mrc).   *)
(*                                                                         *)
(* A client's calls and script events run on its one mIRC thread, so each  *)
(* is one action.  A notice reaches the other client in order, unless that *)
(* client is restarted first.  A DH1080 key pair is the client and a       *)
(* number; the secret two sides compute is the set of their two pairs.     *)
(* A write of the file may fail, or stop after any line (disk full, crash),*)
(* and the one reading of it, when the DLL is loaded, may fail.            *)
(***************************************************************************)
EXTENDS Integers, Sequences, FiniteSets, SequencesExt

CONSTANTS
    Clients,        \* two of them; each is also its own nickname
    Channels,
    Tagged,         \* nicknames that start with a word in brackets
    Bare,           \* what follows the brackets: the other client's nickname, or Absent
    ManualKeys,     \* keys given to FiSH10_SetKey
    Absent,         \* no key, no key pair
    Editors,        \* clients whose user edits keys and settings
    HandWritten,    \* contents of blowfish.ini before FiSH 11 came
    MaxStarts       \* bound on the exchanges that are started

Peer(c) == CHOOSE d \in Clients : d # c
Targets(c) == {Peer(c)} \cup Channels \cup Tagged

\* A line of blowfish.ini: a target and its key, or bytes that are not UTF-8.
\* The topic settings, in sections of their own, are left out.
KeyLine(t, k) == [is |-> "key", target |-> t, key |-> k]
BadLine == [is |-> "bad"]
LegacyLine == {BadLine} \cup {KeyLine(t, k) : t \in Clients \cup Channels \cup Tagged,
                                             k \in ManualKeys}

ASSUME LegacyAssumption ==
    /\ \E a, b \in Clients : a # b /\ Clients = {a, b}
    /\ Absent \notin ManualKeys /\ Absent \notin Clients \X Nat
    /\ Bare \in [Tagged -> Clients \cup {Absent}]
    /\ Tagged \cap (Clients \cup Channels) = {}
    /\ Editors \subseteq Clients
    /\ HandWritten \subseteq Seq(LegacyLine)
    /\ MaxStarts \in Nat

VARIABLES
    keys,       \* legacy_keys of each client
    file,       \* blowfish.ini of each client
    private,    \* dh1080_keys: the key pair kept for the peer
    pairs,      \* key pairs generated so far
    dh,         \* fish10.dh: an exchange with the peer is in progress
    notices,    \* notices under way to each client
    starts,     \* exchanges started
    apart,      \* not in the code: the targets whose key in the file need not be the
                \* one in memory, for a save, a reading or rust-ini failed them
    adrift,     \* an exchange is in progress and a disconnect has turned its timer off
    settled     \* not in the code: the exchanges since the last quiet moment
                \* were not disturbed

legacyVars == <<keys, file, private, pairs, dh, notices, starts, apart, adrift, settled>>
local == <<private, pairs, dh, notices, starts, adrift>>

Quiet == \A c \in Clients : ~dh[c] /\ notices[c] = <<>>

-----------------------------------------------------------------------------
(* blowfish.ini.                                                           *)

\* load_keys_from_blowfish_ini: the last line of a target counts; one bad line
\* and nothing at all is loaded.
Loaded(f, t) ==
    LET lines == {i \in DOMAIN f : f[i].is = "key" /\ f[i].target = t}
    IN  IF lines = {} \/ BadLine \in Range(f) THEN Absent
        ELSE f[CHOOSE i \in lines : \A j \in lines : j <= i].key

LoadedKeys(c, f) == [t \in Targets(c) |-> Loaded(f, t)]

\* The store before anything is loaded into it.
NoKeys(c) == [t \in Targets(c) |-> Absent]

\* The lines of a file at these positions, in their order.
LinesAt(f, keep) ==
    LET rank(i) == Cardinality({j \in keep : j <= i})
    IN  [n \in 1..Cardinality(keep) |-> f[CHOOSE i \in keep : rank(i) = n]]

\* (Mutant: only the first line of the target is found.)
UpdatedFirst(f, t, k) ==
    LET i == CHOOSE j \in DOMAIN f : f[j].is = "key" /\ f[j].target = t
                        /\ \A l \in 1..(j - 1) : ~(f[l].is = "key" /\ f[l].target = t)
        found == \E j \in DOMAIN f : f[j].is = "key" /\ f[j].target = t
    IN  IF ~found THEN IF k = Absent THEN f ELSE Append(f, KeyLine(t, k))
        ELSE IF k = Absent THEN RemoveAt(f, i) ELSE [f EXCEPT ![i] = KeyLine(t, k)]

\* update_blowfish_ini_key: every line of the target is replaced, or dropped when
\* there is no key; a key that was not found is added at the end.
Updated(f, t, k) ==
    LET mine(l) == l.is = "key" /\ l.target = t
    IN  IF k = Absent THEN LinesAt(f, {i \in DOMAIN f : ~mine(f[i])})
        ELSE IF \E i \in DOMAIN f : mine(f[i])
        THEN [i \in DOMAIN f |-> IF mine(f[i]) THEN KeyLine(t, k) ELSE f[i]]
        ELSE Append(f, KeyLine(t, k))

\* set_encrypt_topic_setting writes the whole file again, as rust-ini has read it:
\* lines that start with # were comments, and one that starts with brackets was the
\* header of a section and a line for what follows.  (The section does not matter
\* to load_keys_from_blowfish_ini, but a line without a name does not count.)
Reread(l) == IF l.is = "key" /\ l.target \in Tagged THEN KeyLine(Bare[l.target], l.key) ELSE l

Rewritten(f) ==
    LET lost(l) == l.is = "key" /\ (l.target \in Channels
                                    \/ (l.target \in Tagged /\ Bare[l.target] = Absent))
        kept == LinesAt(f, {i \in DOMAIN f : ~lost(f[i])})
    IN  [i \in DOMAIN kept |-> Reread(kept[i])]

\* The targets that this gives another key, or none.
ChangesHands(f) ==
    LET tags == {t \in Tagged : \E i \in DOMAIN f : f[i].is = "key" /\ f[i].target = t}
    IN  Channels \cup tags \cup {Bare[t] : t \in tags}

\* The file of c is replaced by lines f, after which memory and file differ in
\* the targets "after".  A bad line stops the reading, so the file stays as it
\* is, and so it does when it cannot be opened; a write that stops leaves the
\* first lines.  In both cases memory is ahead of the file in target t.
WriteFile(c, f, after, t) ==
    \/ /\ BadLine \notin Range(file[c])
       /\ file' = [file EXCEPT ![c] = f]
       /\ apart' = [apart EXCEPT ![c] = after]
    \/ /\ UNCHANGED file
       /\ apart' = [apart EXCEPT ![c] = @ \cup t]
    \/ /\ BadLine \notin Range(file[c])
       /\ \E n \in 0..(Len(f) - 1) : file' = [file EXCEPT ![c] = SubSeq(f, 1, n)]
       /\ apart' = [apart EXCEPT ![c] = Targets(c)]

-----------------------------------------------------------------------------
(* Keys and settings.                                                      *)

\* Changing the peer's key by hand takes it out of the exchange's hands.
Disturbed(c, t) == settled' = (settled /\ t # Peer(c))

\* FiSH10_SetKey: memory first; a failure to save is only logged.
SetKey(c, t, k) ==
    /\ keys' = [keys EXCEPT ![c][t] = k]
    /\ WriteFile(c, Updated(file[c], t, k), apart[c] \ {t}, {t})
    /\ Disturbed(c, t)
    /\ UNCHANGED local

\* FiSH10_DelKey: memory, then the file, whether or not the key was in memory.
DelKey(c, t) ==
    /\ keys' = [keys EXCEPT ![c][t] = Absent]
    /\ WriteFile(c, Updated(file[c], t, Absent), apart[c] \ {t}, {t})
    /\ Disturbed(c, t)
    /\ UNCHANGED local

\* FiSH10_SetTopicSetting: the keys of channels fall out of the file, those of
\* bracketed nicknames change hands.
SetTopicSetting(c) ==
    /\ WriteFile(c, Rewritten(file[c]), apart[c] \cup (ChangesHands(file[c]) \cap Targets(c)), {})
    /\ UNCHANGED <<keys, settled>> /\ UNCHANGED local

-----------------------------------------------------------------------------
(* The exchange.                                                           *)

\* FiSH10_DH1080_GenerateKeyPair: the pair kept before is forgotten.
NewPair(c) == <<c, pairs[c] + 1>>
GenerateKeyPair(c) ==
    /\ private' = [private EXCEPT ![c] = NewPair(c)]
    /\ pairs' = [pairs EXCEPT ![c] = @ + 1]

\* FiSH10_DH1080_ComputeSecret: the secret becomes the key, in memory only.
StoreSecret(c, mine, theirs) ==
    /\ keys' = [keys EXCEPT ![c][Peer(c)] = {mine, theirs}]
    /\ apart' = [apart EXCEPT ![c] = @ \cup {Peer(c)}]

Notice(is, pub) == [is |-> is, pub |-> pub]
Arrived(c, is) == notices[c] # <<>> /\ Head(notices[c]).is = is

\* fish10_keyx: also over an exchange that is still in progress.
StartExchange(c) ==
    /\ starts < MaxStarts
    /\ starts' = starts + 1
    /\ dh' = [dh EXCEPT ![c] = TRUE]
    /\ GenerateKeyPair(c)
    /\ notices' = [notices EXCEPT ![Peer(c)] = Append(@, Notice("INIT", NewPair(c)))]
    /\ adrift' = [adrift EXCEPT ![c] = FALSE]
    /\ settled' = (Quiet \/ (settled /\ ~dh[c]))
    /\ UNCHANGED <<keys, file, apart>>

\* (Mutant: the answer ends the exchange this client has started itself.)
ReceiveInitEnding(c) ==
    /\ Arrived(c, "INIT")
    /\ GenerateKeyPair(c)
    /\ StoreSecret(c, NewPair(c), Head(notices[c]).pub)
    /\ notices' = [notices EXCEPT ![c] = Tail(@),
                          ![Peer(c)] = Append(@, Notice("FINISH", NewPair(c)))]
    /\ dh' = [dh EXCEPT ![c] = FALSE]
    /\ UNCHANGED <<file, starts, adrift, settled>>

\* on NOTICE DH1080_INIT: always with a new pair, whatever is in progress.
ReceiveInit(c) ==
    /\ Arrived(c, "INIT")
    /\ GenerateKeyPair(c)
    /\ StoreSecret(c, NewPair(c), Head(notices[c]).pub)
    /\ notices' = [notices EXCEPT ![c] = Tail(@),
                          ![Peer(c)] = Append(@, Notice("FINISH", NewPair(c)))]
    /\ UNCHANGED <<file, dh, starts, adrift, settled>>

\* on NOTICE DH1080_FINISH: ignored when no exchange is in progress; without a
\* private key ComputeSecret fails.  The exchange is over in any case.
ReceiveFinish(c) ==
    /\ Arrived(c, "FINISH")
    /\ notices' = [notices EXCEPT ![c] = Tail(@)]
    /\ dh' = [dh EXCEPT ![c] = FALSE]
    /\ adrift' = [adrift EXCEPT ![c] = FALSE]
    /\ IF dh[c] /\ private[c] # Absent
       THEN StoreSecret(c, private[c], Head(notices[c]).pub)
       ELSE UNCHANGED <<keys, apart>>
    /\ UNCHANGED <<file, private, pairs, starts, settled>>

\* (Mutant: the timeout asks for the key pair instead of the flag's value.)
TimeoutWithPair(c) ==
    /\ dh[c] /\ ~adrift[c] /\ private[c] # Absent
    /\ dh' = [dh EXCEPT ![c] = FALSE]
    /\ settled' = FALSE
    /\ UNCHANGED <<keys, file, private, pairs, notices, starts, apart, adrift>>

\* fish10_timeout_keyexchange, by a timer that a disconnect has not turned off.
Timeout(c) ==
    /\ dh[c] /\ ~adrift[c]
    /\ dh' = [dh EXCEPT ![c] = FALSE]
    /\ settled' = FALSE
    /\ UNCHANGED <<keys, file, private, pairs, notices, starts, apart, adrift>>

-----------------------------------------------------------------------------
(* The surroundings.                                                       *)

\* The DLL is loaded: load_legacy_config into an empty store, and no private keys.
\* That the file cannot be read is only logged.
LoadLegacyConfig(c) ==
    /\ \/ /\ keys' = [keys EXCEPT ![c] = LoadedKeys(c, file[c])]
          /\ apart' = [apart EXCEPT ![c] = {}]
       \/ /\ file[c] # <<>>
          /\ keys' = [keys EXCEPT ![c] = NoKeys(c)]
          /\ apart' = [apart EXCEPT ![c] = Targets(c)]
    /\ private' = [private EXCEPT ![c] = Absent]
    /\ settled' = FALSE
    /\ UNCHANGED <<file, pairs, starts>>

\* The DLL alone is unloaded and loaded; the script goes on.
ReloadDll(c) == LoadLegacyConfig(c) /\ UNCHANGED <<dh, notices, adrift>>

\* mIRC is restarted: the script forgets, and the notices under way are lost.
RestartMirc(c) ==
    /\ LoadLegacyConfig(c)
    /\ dh' = [dh EXCEPT ![c] = FALSE]
    /\ adrift' = [adrift EXCEPT ![c] = FALSE]
    /\ notices' = [notices EXCEPT ![c] = <<>>]

\* The client loses its connection and connects again.  The timer of fish10_keyx was
\* started without -o, so mIRC turns it off; fish10.dh stays as it is.  What was on
\* its way to the client is lost, what it had sent may still arrive.
Disconnect(c) ==
    /\ adrift' = [adrift EXCEPT ![c] = dh[c]]
    /\ \E arrives \in BOOLEAN :
         notices' = [d \in Clients |-> IF d = c \/ ~arrives THEN <<>> ELSE notices[d]]
    /\ settled' = FALSE
    /\ UNCHANGED <<keys, file, private, pairs, dh, starts, apart>>

LegacyInit ==
    /\ file \in [Clients -> HandWritten]
    /\ \A c \in Clients \ Editors : file[c] = <<>>
    /\ \E unread \in SUBSET {c \in Clients : file[c] # <<>>} :
         /\ keys = [c \in Clients |-> IF c \in unread THEN NoKeys(c)
                                     ELSE LoadedKeys(c, file[c])]
         /\ apart = [c \in Clients |-> IF c \in unread THEN Targets(c) ELSE {}]
    /\ private = [c \in Clients |-> Absent]
    /\ pairs = [c \in Clients |-> 0]
    /\ dh = [c \in Clients |-> FALSE]
    /\ notices = [c \in Clients |-> <<>>]
    /\ starts = 0
    /\ adrift = [c \in Clients |-> FALSE]
    /\ settled = FALSE

LegacyNext ==
    \/ \E c \in Editors : \E t \in Targets(c) :
         (\E k \in ManualKeys : SetKey(c, t, k)) \/ DelKey(c, t)
    \/ \E c \in Editors : SetTopicSetting(c)
    \/ \E c \in Clients :
         \/ StartExchange(c) \/ ReceiveInit(c) \/ ReceiveFinish(c) \/ Timeout(c)
         \/ ReloadDll(c) \/ RestartMirc(c) \/ Disconnect(c)

\* The timer of fish10_keyx fires unless it is turned off.
Fairness == \A c \in Clients : WF_legacyVars(Timeout(c))

LegacySpec == LegacyInit /\ [][LegacyNext]_legacyVars /\ Fairness

-----------------------------------------------------------------------------
(* Properties.                                                             *)

\* A key is none, a manual one or a secret over two pairs that were generated.
LegacyTypeOK ==
    LET isPair(p) == p \in Clients \X Nat /\ p[2] \in 1 .. pairs[p[1]]
        isKey(k) == k \in ManualKeys \cup {Absent} \/ \A p \in k : isPair(p)
    IN  /\ \A c \in Clients :
              /\ DOMAIN keys[c] = Targets(c) /\ \A t \in Targets(c) : isKey(keys[c][t])
              /\ private[c] = Absent \/ isPair(private[c])
              /\ \A i \in DOMAIN notices[c] :
                    notices[c][i].is \in {"INIT", "FINISH"} /\ isPair(notices[c][i].pub)
              /\ \A i \in DOMAIN file[c] :
                    \/ file[c][i] = BadLine
                    \/ file[c][i].target \in Clients \cup Channels \cup Tagged /\ isKey(file[c][i].key)
              /\ apart[c] \subseteq Targets(c)
        /\ pairs \in [Clients -> Nat] /\ dh \in [Clients -> BOOLEAN] /\ adrift \in [Clients -> BOOLEAN]
        /\ starts \in 0 .. MaxStarts /\ settled \in BOOLEAN

\* A restart that can read the file brings back the key in memory, or its absence,
\* for every target whose last change was saved: no other key that is set or deleted
\* and no line written by hand makes a saved nickname's key different from what the
\* file gives, and a topic setting only that of a bracketed nickname and of the one
\* after the brackets.
SavedKeysReload ==
    \A c \in Clients : \A t \in Targets(c) \ apart[c] :
        keys[c][t] = Loaded(file[c], t)

\* An exchange that starts when none is in progress and no notice is under way
\* ends with one key on both sides, also when the other user starts one at the
\* same time or right after, as long as nobody starts again before the answer,
\* times out, sets the key by hand or restarts.
QuietClientsAgree ==
    settled /\ Quiet => \A c \in Clients : keys[c][Peer(c)] = keys[Peer(c)][c]

\* An exchange does not stay in progress, whatever becomes of its notices, except
\* over a disconnect.
ExchangeEnds == \A c \in Clients : dh[c] ~> ~dh[c] \/ adrift[c]
=============================================================================
