----------------------------- MODULE MasterKey -----------------------------
(***************************************************************************)
(* The master key: FiSH11_MasterKeyInit, Unlock, Lock, ChangePassword and  *)
(* the status calls (dll_interface/fish11_masterkey.rs), the keystore file *)
(* they share (fish_11_core master_key/keystore.rs), the key system that   *)
(* only Init fills (master_key/core) and the configuration sealed under    *)
(* the key (config/encrypted_file_storage.rs).                             *)
(*                                                                         *)
(* The calls come from mIRC's one script thread, so each is one action.  A *)
(* key is the password and the salt it is derived from; a salt is random,  *)
(* so a new one is one never used before.  A password is its words: only   *)
(* the spaces in it matter to the calls.  What is written reaches the file,*)
(* leaves it alone, empties it or tears it (disk full, crash), and a       *)
(* reading of a good file may fail.                                        *)
(***************************************************************************)
EXTENDS Naturals, Sequences

CONSTANTS
    Words,          \* what spaces separate
    Passwords,      \* those the user gives
    Strong,         \* those validate_password_strength lets through
    Dirs,           \* directories: for the files, and to work in
    NoDir,          \* MIRCDIR is not set
    NoKey,          \* no key, no verifier, no sealed configuration
    MaxSalts,       \* bound on the salts that are drawn
    MaxUnread       \* bound on the readings that fail

ASSUME MasterKeyAssumption ==
    /\ Passwords \subseteq Seq(Words) \ {<<>>}
    /\ Strong \subseteq Seq(Words)
    /\ NoDir \notin Dirs
    /\ MaxSalts \in Nat /\ MaxUnread \in Nat
    /\ NoKey \notin [pw : Seq(Words), salt : 1..MaxSalts]

Salts == 1..MaxSalts
Keys  == [pw : Seq(Words), salt : Salts]
Key(p, s) == [pw |-> p, salt |-> s]

\* What Keystore::load makes of a file: the salt and the SHA-256 of the key.
\* "in" is the working directory the file key was derived from.  "by" and "slipped"
\* are not in the code: the password the user gave when the file was written, and
\* the words of the old password that were taken for the beginning of it.
Keystores == [is : {"keystore"}, salt : Salts, verifier : Keys \cup {NoKey},
              in : Dirs, by : Passwords, slipped : Seq(Words)]
NoFile == [is |-> "missing"]
Emptied == [is |-> "empty"]     \* created or truncated, nothing written
Torn    == [is |-> "torn"]      \* cannot be decrypted or parsed
Files == Keystores \cup {NoFile, Emptied, Torn}

VARIABLES
    debug,      \* debug_assertions of the build that is installed
    mircDir,    \* the environment variable MIRCDIR
    cwd,        \* the working directory of mIRC
    store,      \* fish_11_keystore.ini in each directory
    config,     \* the key under which fish_11.ini of each directory is sealed
    keySystem,  \* KEY_SYSTEM: what the status calls look at
    masterKey,  \* MASTER_KEY: what sealing looks at
    salts,      \* salts drawn so far
    unread      \* readings of a good keystore that have failed

env == <<debug, mircDir>>
vars == <<env, cwd, store, config, keySystem, masterKey, salts, unread>>

TypeOK ==
    /\ debug \in BOOLEAN
    /\ mircDir \in Dirs \cup {NoDir}
    /\ cwd \in Dirs
    /\ store \in [Dirs -> Files]
    /\ config \in [Dirs -> Keys \cup {NoKey}]
    /\ keySystem \in Keys \cup {NoKey}
    /\ masterKey \in Keys \cup {NoKey}
    /\ salts \in 0..MaxSalts
    /\ unread \in 0..MaxUnread

Init ==
    /\ debug \in BOOLEAN
    /\ mircDir \in Dirs \cup {NoDir}
    /\ cwd \in Dirs
    /\ store = [d \in Dirs |-> NoFile]
    /\ config = [d \in Dirs |-> NoKey]
    /\ keySystem = NoKey
    /\ masterKey = NoKey
    /\ salts = 0
    /\ unread = 0

-----------------------------------------------------------------------------
(* The files.                                                              *)

\* default_path and get_config_path: MIRCDIR, else the working directory.
Path == IF mircDir = NoDir THEN cwd ELSE mircDir

StrongEnough(p) == p \in Strong

\* A file sealed from another working directory does not decrypt, and its bytes
\* are no text either: load fails as it does for a missing file.
Loads(f) == f.is = "empty" \/ (f.is = "keystore" /\ f.in = cwd)

\* Keystore::load gives an error for such a file, or because this once a good one
\* could not be read.
LoadFails ==
    \/ ~Loads(store[Path]) /\ UNCHANGED unread
    \/ Loads(store[Path]) /\ unread < MaxUnread /\ unread' = unread + 1

\* An emptied file is plain text without a salt and without a verifier.
VerifierOf(f) == IF f.is = "keystore" THEN f.verifier ELSE NoKey

\* Without a verifier any password passes.
Passes(f, p) == VerifierOf(f) # NoKey => VerifierOf(f) = Key(p, f.salt)

\* derive_master_key_with_salt(None): a salt nobody has drawn before.
FreshSalt == salts + 1
DrawSalt == salts < MaxSalts /\ salts' = FreshSalt

\* Keystore::save; a failure is only logged.
Save(p, slipped, s, verifier) ==
    \E f \in {[is |-> "keystore", salt |-> s, verifier |-> verifier,
               in |-> cwd, by |-> p, slipped |-> slipped], store[Path], Emptied, Torn} :
        store' = [store EXCEPT ![Path] = f]

-----------------------------------------------------------------------------
(* The calls.  A call that is refused changes nothing and is no action.    *)

\* FiSH11_MasterKeyInit: whatever keystore is there is replaced, in every
\* build.  MASTER_KEY stays as it is.
MasterKeyInit(p) ==
    /\ StrongEnough(p)
    /\ DrawSalt
    /\ keySystem' = Key(p, FreshSalt)
    /\ Save(p, <<>>, FreshSalt, Key(p, FreshSalt))
    /\ UNCHANGED <<env, cwd, config, masterKey, unread>>

\* (Mutant: the verifier is not compared.)
UnlockUnchecked(p) ==
    /\ store[Path].is = "keystore" /\ Loads(store[Path])
    /\ masterKey' = Key(p, store[Path].salt)
    /\ UNCHANGED <<env, cwd, store, config, keySystem, salts, unread>>

\* FiSH11_MasterKeyUnlock with a keystore that loads.  The empty salt of an
\* emptied file is refused.  KEY_SYSTEM stays as it is.
Unlock(p) ==
    /\ store[Path].is = "keystore" /\ Loads(store[Path])
    /\ Passes(store[Path], p)
    /\ masterKey' = Key(p, store[Path].salt)
    /\ UNCHANGED <<env, cwd, store, config, keySystem, salts, unread>>

\* (Mutant: a wrong password is taken for a first start.)
UnlockReplacing(p) ==
    /\ ~(Loads(store[Path]) /\ Passes(store[Path], p))
    /\ StrongEnough(p)
    /\ DrawSalt
    /\ masterKey' = Key(p, FreshSalt)
    /\ IF debug THEN Save(p, <<>>, FreshSalt, NoKey) ELSE UNCHANGED store
    /\ UNCHANGED <<env, cwd, config, keySystem, unread>>

\* FiSH11_MasterKeyUnlock when load fails: taken for a first start, whatever the
\* error.  No verifier is set, and only a debug build saves.
UnlockFirst(p) ==
    /\ LoadFails
    /\ StrongEnough(p)
    /\ DrawSalt
    /\ masterKey' = Key(p, FreshSalt)
    /\ IF debug THEN Save(p, <<>>, FreshSalt, NoKey) ELSE UNCHANGED store
    /\ UNCHANGED <<env, cwd, config, keySystem>>

\* FiSH11_MasterKeyLock: lock_key_system; MASTER_KEY stays as it is.
MasterKeyLock ==
    /\ keySystem' = NoKey
    /\ UNCHANGED <<env, cwd, store, config, masterKey, salts, unread>>

\* FiSH11_MasterKeyChangePassword is given both passwords in one text and cuts it at
\* the first space: what the old password has after it goes to the new one.
OldHeard(old) == <<Head(old)>>
NewHeard(old, new) == Tail(old) \o new

\* (Mutant: the verifier is computed with the old salt.)
ChangePasswordOldSalt(old, new) ==
    /\ StrongEnough(NewHeard(old, new))
    /\ Loads(store[Path])
    /\ Passes(store[Path], OldHeard(old))
    /\ DrawSalt
    /\ masterKey' = Key(NewHeard(old, new), FreshSalt)
    /\ IF debug
       THEN Save(new, Tail(old), FreshSalt,
                 Key(NewHeard(old, new), IF store[Path].is = "keystore"
                                         THEN store[Path].salt ELSE FreshSalt))
       ELSE UNCHANGED store
    /\ UNCHANGED <<env, cwd, config, keySystem, unread>>

\* The old password is compared when there is a verifier.  Only a debug build saves.
ChangePassword(old, new) ==
    /\ StrongEnough(NewHeard(old, new))
    /\ Loads(store[Path])
    /\ Passes(store[Path], OldHeard(old))
    /\ DrawSalt
    /\ masterKey' = Key(NewHeard(old, new), FreshSalt)
    /\ IF debug
       THEN Save(new, Tail(old), FreshSalt, Key(NewHeard(old, new), FreshSalt))
       ELSE UNCHANGED store
    /\ UNCHANGED <<env, cwd, config, keySystem, unread>>

\* save_encrypted_config: refused while MASTER_KEY is empty.  A failed write
\* leaves what was there or nothing that decrypts.
SaveEncryptedConfig ==
    /\ masterKey # NoKey
    /\ \E k \in {masterKey, config[Path], NoKey} : config' = [config EXCEPT ![Path] = k]
    /\ UNCHANGED <<env, cwd, store, keySystem, masterKey, salts, unread>>

-----------------------------------------------------------------------------
(* The surroundings.                                                       *)

ChangeDir(d) ==
    /\ cwd' = d
    /\ UNCHANGED <<env, store, config, keySystem, masterKey, salts, unread>>

\* mIRC ends and starts again, perhaps from another directory.
Restart ==
    /\ cwd' \in Dirs
    /\ keySystem' = NoKey
    /\ masterKey' = NoKey
    /\ UNCHANGED <<env, store, config, salts, unread>>

Next ==
    \/ \E p \in Passwords : MasterKeyInit(p) \/ Unlock(p) \/ UnlockFirst(p)
    \/ \E old, new \in Passwords : ChangePassword(old, new)
    \/ MasterKeyLock
    \/ SaveEncryptedConfig
    \/ \E d \in Dirs : ChangeDir(d)
    \/ Restart

Spec == Init /\ [][Next]_vars

-----------------------------------------------------------------------------
(* Properties.                                                             *)

\* load_encrypted_config_from_file reads the sealed file of this directory.
ConfigOpensWith(d, k) == config[d] = k

\* No keystore shuts its owner out: the password the user gave to the call that
\* wrote the file passes the verifier in it, and a file with a verifier lets no
\* other password through.  After a change whose old password had a space, that
\* is the new password behind the words that slipped.
AcceptedPasswordOpens ==
    \A d \in Dirs : store[d].is = "keystore" =>
        LET owner == store[d].slipped \o store[d].by
        IN  /\ Passes(store[d], owner)
            /\ store[d].verifier # NoKey =>
                 \A p \in Passwords : Passes(store[d], p) => p = owner

\* A configuration stays readable for as long as its keystore is there: if the
\* file was sealed under a key with the keystore's salt, and the keystore has a
\* verifier, then the key Unlock accepts is the one that opens it - whatever
\* locks, restarts, password changes and changes of directory came between.
SealedConfigOpens ==
    \A d, e \in Dirs :
        /\ config[d] # NoKey
        /\ store[e].is = "keystore"
        /\ store[e].verifier # NoKey
        /\ store[e].salt = config[d].salt
        => \A p \in Passwords : Passes(store[e], p) =>
               ConfigOpensWith(d, Key(p, store[e].salt))

\* A keystore with a verifier that loads is replaced by MasterKeyInit, by a change
\* whose text begins with the password that opens it, or by an Unlock that could
\* not read it; a wrong password given to Unlock never costs the user the keystore.
OnlyOwnerReplaces ==
    [][(/\ store[Path].is = "keystore"
        /\ Loads(store[Path])
        /\ store[Path].verifier # NoKey
        /\ store' # store)
       => \/ \E p \in Passwords : MasterKeyInit(p)
          \/ \E old, new \in Passwords :
               /\ ChangePassword(old, new)
               /\ OldHeard(old) = store[Path].slipped \o store[Path].by
          \/ unread' = unread + 1]_vars
=============================================================================
