-------------------------- MODULE MasterKeyProofs --------------------------
(***************************************************************************)
(* Proofs about MasterKey, for any passwords, directories and number of    *)
(* salts.  What makes the properties hold is that a salt is drawn once:    *)
(* two keys with one salt come from one drawing, so a key in memory or     *)
(* under a sealed file that has the salt of a keystore with a verifier is  *)
(* the very key the verifier was made from.                                *)
(***************************************************************************)
EXTENDS MasterKey, TLAPS

\* A file with a verifier was written with the verifier of its own key.
OwnVerifier(f) ==
    f.is = "keystore" => f.verifier \in {NoKey, Key(f.slipped \o f.by, f.salt)}

\* No salt was drawn that is not counted.
SaltDrawn(f) == f.is = "keystore" => f.salt <= salts

\* Two files never carry the same salt.
SaltsDiffer ==
    \A d, e \in Dirs :
        store[d].is = "keystore" /\ store[e].is = "keystore" /\ d # e
        => store[d].salt # store[e].salt

\* A key with the salt of a file that has a verifier is the key of that file.
Agrees(k) ==
    k # NoKey =>
        /\ k.salt <= salts
        /\ \A d \in Dirs :
             /\ store[d].is = "keystore"
             /\ store[d].verifier # NoKey
             /\ store[d].salt = k.salt
             => store[d].verifier = k

StoreInv == /\ \A d \in Dirs : OwnVerifier(store[d]) /\ SaltDrawn(store[d])
            /\ SaltsDiffer

IInv == /\ TypeOK
        /\ StoreInv
        /\ Agrees(masterKey)
        /\ \A d \in Dirs : Agrees(config[d])

-----------------------------------------------------------------------------

\* A key of a password and a drawn salt is a key, and no key is NoKey.
LEMMA KeyFacts ==
    ASSUME NEW p \in Seq(Words), NEW s \in Salts
    PROVE  /\ Key(p, s) \in Keys
           /\ Key(p, s) # NoKey
           /\ Key(p, s).pw = p /\ Key(p, s).salt = s
BY MasterKeyAssumption DEF Key, Keys, Salts

\* The path of the files is a directory.
LEMMA PathIsDir == ASSUME TypeOK PROVE Path \in Dirs
BY DEF TypeOK, Path

\* A salt that is drawn is a salt, and larger than all before it.
LEMMA DrawnSalt ==
    ASSUME TypeOK, DrawSalt
    PROVE  /\ FreshSalt \in Salts
           /\ salts \in Nat /\ salts' = FreshSalt /\ FreshSalt = salts + 1
           /\ salts' \in 0..MaxSalts
BY MasterKeyAssumption DEF TypeOK, DrawSalt, FreshSalt, Salts

\* Whatever a save leaves in the file, the files stay in order and every key
\* that agreed with them still does: what is new in them has the fresh salt.
LEMMA SaveKeepsOrder ==
    ASSUME IInv, DrawSalt, NEW p \in Passwords, NEW w \in Seq(Words),
           NEW K \in Keys, K = Key(w \o p, FreshSalt),
           NEW v \in {NoKey, K}, Save(p, w, FreshSalt, v)
    PROVE  /\ store' \in [Dirs -> Files]
           /\ StoreInv'
           /\ \A k \in Keys \cup {NoKey} : Agrees(k) => Agrees(k)'
           /\ Agrees(K)'
<1>. DEFINE new == [is |-> "keystore", salt |-> FreshSalt, verifier |-> v,
                    in |-> cwd, by |-> p, slipped |-> w]
<1>1. /\ FreshSalt \in Salts /\ salts \in Nat
      /\ salts' = FreshSalt /\ FreshSalt = salts + 1
  BY DrawnSalt DEF IInv
<1>2. K # NoKey /\ K.salt = FreshSalt /\ K = Key(w \o p, FreshSalt)
  <2>1. w \o p \in Seq(Words) BY MasterKeyAssumption
  <2>. QED BY <1>1, <2>1, KeyFacts
<1>3. Path \in Dirs /\ store \in [Dirs -> Files]
  BY PathIsDir DEF IInv, TypeOK
<1>4. PICK f \in {new, store[Path], Emptied, Torn} :
          store' = [store EXCEPT ![Path] = f]
  BY DEF Save
<1>5. new \in Keystores
  BY <1>1, <1>2 DEF Keystores, IInv, TypeOK
<1>6. f \in Files
  BY <1>3, <1>5 DEF Files
<1>7. store' \in [Dirs -> Files]
  BY <1>3, <1>4, <1>6
<1>8. \A d \in Dirs : store'[d] = store[d] \/ (d = Path /\ store'[d] \in {new, Emptied, Torn})
  BY <1>3, <1>4
<1>9. \A d \in Dirs : store'[d].is = "keystore" =>
          store'[d] = store[d] \/ (d = Path /\ store'[d] = new)
  BY <1>8 DEF Emptied, Torn
<1>10. new.is = "keystore" /\ new.salt = FreshSalt /\ new.verifier = v /\ new.by = p /\ new.slipped = w
  OBVIOUS
<1>. HIDE DEF new
<1>11. \A d \in Dirs : store[d].is = "keystore" =>
          store[d].salt \in Nat /\ store[d].salt <= salts
  BY <1>3, MasterKeyAssumption DEF IInv, StoreInv, SaltDrawn, Files, Keystores, Salts,
     NoFile, Emptied, Torn
<1>12. ASSUME NEW d \in Dirs PROVE OwnVerifier(store[d])' /\ SaltDrawn(store[d])'
  <2>1. CASE store'[d].is # "keystore"
    BY <2>1 DEF OwnVerifier, SaltDrawn
  <2>2. CASE store'[d].is = "keystore" /\ store'[d] = store[d]
    BY <2>2, <1>1, <1>11 DEF IInv, StoreInv, OwnVerifier, SaltDrawn
  <2>3. CASE store'[d] = new
    BY <2>3, <1>1, <1>10 DEF OwnVerifier, SaltDrawn
  <2>. QED BY <2>1, <2>2, <2>3, <1>9
<1>13. SaltsDiffer'
  <2>1. SUFFICES ASSUME NEW d \in Dirs, NEW e \in Dirs, d # e,
                        store'[d].is = "keystore", store'[e].is = "keystore"
                 PROVE  store'[d].salt # store'[e].salt
    BY DEF SaltsDiffer
  <2>2. CASE store'[d] = store[d] /\ store'[e] = store[e]
    BY <2>1, <2>2 DEF IInv, StoreInv, SaltsDiffer
  <2>3. CASE store'[d] = new /\ store'[e] = store[e]
    BY <2>1, <2>3, <1>1, <1>10, <1>11
  <2>4. CASE store'[d] = store[d] /\ store'[e] = new
    BY <2>1, <2>4, <1>1, <1>10, <1>11
  <2>. QED BY <2>1, <2>2, <2>3, <2>4, <1>9
<1>14. ASSUME NEW k \in Keys \cup {NoKey}, Agrees(k) PROVE Agrees(k)'
  <2>1. CASE k = NoKey
    BY <2>1 DEF Agrees
  <2>2. CASE k # NoKey
    <3>1. k.salt \in Nat /\ k.salt <= salts
      BY <2>2, <1>14, MasterKeyAssumption DEF Agrees, Keys, Salts
    <3>2. ASSUME NEW d \in Dirs, store'[d].is = "keystore", store'[d].verifier # NoKey,
                 store'[d].salt = k.salt
          PROVE  store'[d].verifier = k
      <4>1. store'[d] # new
        BY <3>1, <3>2, <1>1, <1>10
      <4>. QED BY <4>1, <3>2, <1>9, <1>14, <2>2 DEF Agrees
    <3>. QED BY <3>1, <3>2, <1>1 DEF Agrees
  <2>. QED BY <2>1, <2>2
<1>15. Agrees(K)'
  <2>1. ASSUME NEW d \in Dirs, store'[d].is = "keystore", store'[d].verifier # NoKey,
               store'[d].salt = K.salt
        PROVE  store'[d].verifier = K
    <3>1. store'[d] = new
      BY <2>1, <1>1, <1>2, <1>9, <1>11
    <3>. QED BY <3>1, <2>1, <1>10
  <2>. QED BY <2>1, <1>1, <1>2 DEF Agrees
<1>. QED BY <1>7, <1>12, <1>13, <1>14, <1>15 DEF StoreInv

\* The initial states satisfy the invariant.
LEMMA IInvInit == ASSUME Init PROVE IInv
BY MasterKeyAssumption
   DEF Init, IInv, TypeOK, StoreInv, OwnVerifier, SaltDrawn, SaltsDiffer, Agrees,
       Files, NoFile

\* A step that leaves the files alone keeps every key in agreement with them.
LEMMA FilesKept ==
    ASSUME IInv, UNCHANGED <<store, salts>>
    PROVE  StoreInv' /\ \A k \in Keys \cup {NoKey} : Agrees(k) => Agrees(k)'
BY DEF IInv, StoreInv, OwnVerifier, SaltDrawn, SaltsDiffer, Agrees

\* A new salt that no file gets: the files stay in order, and the key made with
\* it agrees with all of them.
LEMMA SaltUnsaved ==
    ASSUME IInv, DrawSalt, UNCHANGED store, NEW p \in Seq(Words),
           NEW K \in Keys, K = Key(p, FreshSalt)
    PROVE  /\ StoreInv'
           /\ \A k \in Keys \cup {NoKey} : Agrees(k) => Agrees(k)'
           /\ Agrees(K)'
<1>1. /\ FreshSalt \in Salts /\ salts \in Nat
      /\ salts' = FreshSalt /\ FreshSalt = salts + 1
  BY DrawnSalt DEF IInv
<1>2. K # NoKey /\ K.salt = FreshSalt
  BY <1>1, KeyFacts
<1>3. \A d \in Dirs : store[d].is = "keystore" =>
          store[d].salt \in Nat /\ store[d].salt <= salts
  BY MasterKeyAssumption DEF IInv, TypeOK, StoreInv, SaltDrawn, Files, Keystores, Salts,
     NoFile, Emptied, Torn
<1>4. StoreInv'
  BY <1>1, <1>3 DEF IInv, StoreInv, OwnVerifier, SaltDrawn, SaltsDiffer
<1>5. ASSUME NEW k \in Keys \cup {NoKey}, Agrees(k) PROVE Agrees(k)'
  <2>1. k # NoKey => k.salt \in Nat
    BY MasterKeyAssumption DEF Keys, Salts
  <2>. QED BY <2>1, <1>1, <1>5 DEF Agrees
<1>6. Agrees(K)'
  BY <1>1, <1>2, <1>3 DEF Agrees
<1>. QED BY <1>4, <1>5, <1>6

\* An unlocked key agrees with the files: it has the salt of this keystore, and
\* no other keystore has it.
LEMMA UnlockAgrees ==
    ASSUME IInv, NEW p \in Passwords, Unlock(p)
    PROVE  masterKey' \in Keys /\ Agrees(masterKey')
<1>1. Path \in Dirs /\ store[Path] \in Keystores
  BY PathIsDir DEF IInv, TypeOK, Unlock, Files, NoFile, Emptied, Torn
<1>2. store[Path].salt \in Salts /\ store[Path].salt <= salts
  BY <1>1 DEF IInv, StoreInv, SaltDrawn, Keystores
<1>. DEFINE k == Key(p, store[Path].salt)
<1>3. k \in Keys /\ k # NoKey /\ k.salt = store[Path].salt
  BY <1>2, KeyFacts, MasterKeyAssumption
<1>4. ASSUME NEW d \in Dirs, store[d].is = "keystore", store[d].verifier # NoKey,
             store[d].salt = k.salt
      PROVE  store[d].verifier = k
  <2>1. d = Path
    BY <1>1, <1>3, <1>4 DEF IInv, StoreInv, SaltsDiffer, Unlock
  <2>. QED BY <2>1, <1>4 DEF Unlock, Passes, VerifierOf
<1>. QED BY <1>2, <1>3, <1>4 DEF Agrees, Unlock

\* Every step keeps the invariant.
LEMMA IInvStep == ASSUME IInv, [Next]_vars PROVE IInv'
<1>1. ASSUME NEW p \in Passwords, MasterKeyInit(p) PROVE IInv'
  <2>0. <<>> \in Seq(Words) /\ p \in Seq(Words) /\ <<>> \o p = p BY MasterKeyAssumption
  <2>1. PICK K \in Keys : K = Key(p, FreshSalt) /\ K = Key(<<>> \o p, FreshSalt)
    BY <1>1, <2>0, DrawnSalt, KeyFacts DEF IInv, MasterKeyInit
  <2>2. /\ store' \in [Dirs -> Files] /\ StoreInv'
        /\ \A k \in Keys \cup {NoKey} : Agrees(k) => Agrees(k)'
    BY <1>1, <2>0, <2>1, SaveKeepsOrder DEF MasterKeyInit
  <2>3. TypeOK'
    BY <1>1, <2>1, <2>2, DrawnSalt DEF IInv, TypeOK, MasterKeyInit, env
  <2>. QED BY <1>1, <2>2, <2>3 DEF IInv, TypeOK, MasterKeyInit, Agrees
<1>2. ASSUME NEW p \in Passwords, Unlock(p) PROVE IInv'
  <2>1. StoreInv' /\ \A k \in Keys \cup {NoKey} : Agrees(k) => Agrees(k)'
    BY <1>2, FilesKept DEF Unlock
  <2>2. masterKey' \in Keys /\ Agrees(masterKey')
    BY <1>2, UnlockAgrees
  <2>3. TypeOK'
    BY <1>2, <2>2 DEF IInv, TypeOK, Unlock, env
  <2>. QED BY <1>2, <2>1, <2>2, <2>3 DEF IInv, TypeOK, Unlock, Agrees
<1>3. ASSUME NEW p \in Passwords, UnlockFirst(p) PROVE IInv'
  <2>0. <<>> \in Seq(Words) /\ p \in Seq(Words) /\ <<>> \o p = p BY MasterKeyAssumption
  <2>1. PICK K \in Keys : K = Key(p, FreshSalt) /\ K = Key(<<>> \o p, FreshSalt)
    BY <1>3, <2>0, DrawnSalt, KeyFacts DEF IInv, UnlockFirst
  <2>2. /\ store' \in [Dirs -> Files] /\ StoreInv' /\ Agrees(K)'
        /\ \A k \in Keys \cup {NoKey} : Agrees(k) => Agrees(k)'
    <3>1. CASE debug
      BY <1>3, <2>0, <2>1, <3>1, SaveKeepsOrder DEF UnlockFirst
    <3>2. CASE ~debug
      BY <1>3, <2>0, <2>1, <3>2, SaltUnsaved DEF UnlockFirst, IInv, TypeOK
    <3>. QED BY <3>1, <3>2
  <2>3. unread' \in 0..MaxUnread
    BY <1>3, MasterKeyAssumption DEF IInv, TypeOK, UnlockFirst, LoadFails
  <2>4. TypeOK'
    BY <1>3, <2>1, <2>2, <2>3, DrawnSalt DEF IInv, TypeOK, UnlockFirst, env
  <2>. QED BY <1>3, <2>1, <2>2, <2>4 DEF IInv, TypeOK, UnlockFirst, Agrees
<1>4. ASSUME NEW old \in Passwords, NEW new \in Passwords, ChangePassword(old, new)
      PROVE IInv'
  <2> DEFINE heard == NewHeard(old, new)
  <2>0. Tail(old) \in Seq(Words) /\ heard \in Seq(Words) /\ heard = Tail(old) \o new
    <3>1. /\ old \in Seq(Words) /\ old # <<>> /\ new \in Seq(Words) BY MasterKeyAssumption
    <3>2. Tail(old) \in Seq(Words) BY <3>1
    <3>. QED BY <3>1, <3>2 DEF NewHeard
  <2>. HIDE DEF heard
  <2>1. PICK K \in Keys : K = Key(heard, FreshSalt)
    BY <1>4, <2>0, DrawnSalt, KeyFacts DEF IInv, ChangePassword
  <2>2. /\ store' \in [Dirs -> Files] /\ StoreInv' /\ Agrees(K)'
        /\ \A k \in Keys \cup {NoKey} : Agrees(k) => Agrees(k)'
    <3>1. CASE debug
      BY <1>4, <2>0, <2>1, <3>1, SaveKeepsOrder DEF ChangePassword, heard
    <3>2. CASE ~debug
      BY <1>4, <2>0, <2>1, <3>2, SaltUnsaved DEF ChangePassword, IInv, TypeOK, heard
    <3>. QED BY <3>1, <3>2
  <2>3. TypeOK'
    BY <1>4, <2>1, <2>2, DrawnSalt DEF IInv, TypeOK, ChangePassword, env, heard
  <2>. QED BY <1>4, <2>1, <2>2, <2>3 DEF IInv, TypeOK, ChangePassword, Agrees, heard
<1>5. CASE MasterKeyLock
  BY <1>5, FilesKept DEF IInv, TypeOK, MasterKeyLock, Agrees, env
<1>6. CASE SaveEncryptedConfig
  <2>1. StoreInv' /\ \A k \in Keys \cup {NoKey} : Agrees(k) => Agrees(k)'
    BY <1>6, FilesKept DEF SaveEncryptedConfig
  <2>2. \A d \in Dirs : config'[d] \in {masterKey, config[d], NoKey}
    BY <1>6 DEF SaveEncryptedConfig, IInv, TypeOK
  <2>3. TypeOK'
    BY <1>6, PathIsDir DEF IInv, TypeOK, SaveEncryptedConfig, env
  <2>4. \A d \in Dirs : config'[d] \in Keys \cup {NoKey} /\ Agrees(config'[d])
    BY <2>2 DEF IInv, TypeOK, Agrees
  <2>. QED BY <1>6, <2>1, <2>3, <2>4 DEF IInv, TypeOK, SaveEncryptedConfig, Agrees
<1>7. ASSUME NEW d \in Dirs, ChangeDir(d) PROVE IInv'
  BY <1>7, FilesKept DEF IInv, TypeOK, ChangeDir, Agrees, env
<1>8. CASE Restart
  BY <1>8, FilesKept DEF IInv, TypeOK, Restart, Agrees, env
<1>9. CASE UNCHANGED vars
  BY <1>9, FilesKept DEF IInv, TypeOK, vars, env, Agrees
<1>. QED BY <1>1, <1>2, <1>3, <1>4, <1>5, <1>6, <1>7, <1>8, <1>9 DEF Next

\* The invariant holds in every reachable state.
THEOREM Invariance == Spec => []IInv
BY IInvInit, IInvStep, PTL DEF Spec

-----------------------------------------------------------------------------

\* The calls keep every variable within its type, whatever passwords and
\* directories there are: no keystore is written without a salt that works.
THEOREM TypeCorrect == Spec => []TypeOK
<1>1. IInv => TypeOK
  BY DEF IInv
<1>. QED BY <1>1, Invariance, PTL

\* The password the user gave passes the keystore that was written with it, behind
\* the words that slipped, and a keystore with a verifier lets no other through.
THEOREM OwnerGetsIn == Spec => []AcceptedPasswordOpens
<1>1. ASSUME IInv PROVE AcceptedPasswordOpens
  <2>1. SUFFICES ASSUME NEW d \in Dirs, store[d].is = "keystore",
                        NEW owner, owner = store[d].slipped \o store[d].by
                 PROVE  /\ Passes(store[d], owner)
                        /\ store[d].verifier # NoKey =>
                             \A p \in Passwords : Passes(store[d], p) => p = owner
    BY DEF AcceptedPasswordOpens
  <2>2. store[d].verifier \in {NoKey, Key(owner, store[d].salt)}
    BY <1>1, <2>1 DEF IInv, StoreInv, OwnVerifier
  <2>3. \A p : Key(p, store[d].salt) = Key(owner, store[d].salt) => p = owner
    BY DEF Key
  <2>. QED BY <2>1, <2>2, <2>3 DEF Passes, VerifierOf
<1>. QED BY <1>1, Invariance, PTL

\* A sealed configuration stays readable with the key its keystore accepts.
THEOREM ConfigStaysReadable == Spec => []SealedConfigOpens
<1>1. ASSUME IInv PROVE SealedConfigOpens
  <2>1. SUFFICES ASSUME NEW d \in Dirs, NEW e \in Dirs, config[d] # NoKey,
                        store[e].is = "keystore", store[e].verifier # NoKey,
                        store[e].salt = config[d].salt,
                        NEW p \in Passwords, Passes(store[e], p)
                 PROVE  config[d] = Key(p, store[e].salt)
    BY DEF SealedConfigOpens, ConfigOpensWith
  <2>2. store[e].verifier = config[d]
    BY <1>1, <2>1 DEF IInv, Agrees
  <2>. QED BY <2>1, <2>2 DEF Passes, VerifierOf
<1>. QED BY <1>1, Invariance, PTL

\* Only Init, a change whose text begins with the password that opens it, or an
\* Unlock that could not read it replaces a keystore that has a verifier and loads.
THEOREM OwnerReplaces == Spec => OnlyOwnerReplaces
<1>. DEFINE Kept == /\ store[Path].is = "keystore"
                    /\ Loads(store[Path])
                    /\ store[Path].verifier # NoKey
                    /\ store' # store
            owner == store[Path].slipped \o store[Path].by
            Owner == \/ \E p \in Passwords : MasterKeyInit(p)
                     \/ \E old, new \in Passwords :
                          /\ ChangePassword(old, new)
                          /\ OldHeard(old) = store[Path].slipped \o store[Path].by
                     \/ unread' = unread + 1
<1>1. ASSUME IInv, [Next]_vars, Kept PROVE Owner
  <2>1. Path \in Dirs
    BY <1>1, PathIsDir DEF IInv
  <2>2. store[Path].verifier = Key(owner, store[Path].salt)
    BY <1>1, <2>1 DEF IInv, StoreInv, OwnVerifier
  <2>3. CASE \E p \in Passwords : MasterKeyInit(p)
    BY <2>3
  <2>4. ASSUME NEW old \in Passwords, NEW new \in Passwords, ChangePassword(old, new)
        PROVE  Owner
    <3>1. Key(OldHeard(old), store[Path].salt) = Key(owner, store[Path].salt)
      BY <1>1, <2>2, <2>4 DEF ChangePassword, Passes, VerifierOf
    <3>2. OldHeard(old) = owner
      BY <3>1 DEF Key
    <3>. QED BY <2>4, <3>2
  <2>5. ASSUME NEW p \in Passwords, UnlockFirst(p) PROVE Owner
    BY <1>1, <2>5 DEF UnlockFirst, LoadFails
  <2>6. CASE UNCHANGED store
    BY <1>1, <2>6
  <2>. QED BY <1>1, <2>3, <2>4, <2>5, <2>6
           DEF Next, vars, Unlock, MasterKeyLock, SaveEncryptedConfig, ChangeDir, Restart
<1>2. ASSUME IInv, [Next]_vars PROVE [Kept => Owner]_vars
  BY <1>1, <1>2
<1>. QED BY <1>2, Invariance, PTL DEF Spec, OnlyOwnerReplaces
=============================================================================
