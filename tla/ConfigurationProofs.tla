------------------------ MODULE ConfigurationProofs ------------------------
(***************************************************************************)
(* Proofs about the configuration: of ConfigAccess, for every set of       *)
(* threads and every bound, with the abstract ConfigFile that it           *)
(* implements, and of CommandLine, for any number of processes that share  *)
(* the files of any directories.                                           *)
(***************************************************************************)
EXTENDS ConfigAccess, CommandLine, TLAPS

\* A process that has loaded its configuration starts with well-typed state.
LEMMA TypeCorrectInit == Init => TypeOK
<1> SUFFICES ASSUME Init PROVE TypeOK
  OBVIOUS
<1>1. mem \in Versions /\ disk \in Versions \cup {NoFile}
  BY ConfigAssumption DEF Init, Versions, Default
<1>2. /\ pc \in [Threads -> {"idle"}]
      /\ result \in [Threads -> {"Ok"}]
      /\ image \in [Threads -> {Default}]
      /\ io \in [Threads -> {"none"}]
      /\ handle \in [Threads -> {"none"}]
  BY DEF Init
<1>3. newest \in Versions
  BY ConfigAssumption DEF Init, Versions, Default
<1>4. unread = TRUE \/ unread = FALSE
  BY Zenon DEF Init
<1>5. faults \in 0..MaxFaults /\ crashes \in 0..MaxCrashes
  BY ConfigAssumption DEF Init
<1>6. snapshots \in BOOLEAN /\ dirty \in BOOLEAN /\ writer = Nobody /\ tmp = NoFile
  BY DEF Init
<1>7. /\ pc \in [Threads -> {"idle", "closure", "save", "drop", "exchange", "snapshot", "count"}]
      /\ result \in [Threads -> {"Ok", "Err", "Counted"}]
      /\ image \in [Threads -> Versions]
      /\ io \in [Threads -> {"none", "opened", "written"}]
      /\ handle \in [Threads -> {"none", "tmp", "disk", "gone"}]
  BY <1>2, ConfigAssumption DEF Versions, Default
<1>8. QED
  BY <1>1, <1>3, <1>5, <1>4, <1>6, <1>7 DEF TypeOK

\* Every variable keeps its type, with or without snapshot saves.
THEOREM TypeCorrect == Spec => []TypeOK
<1>1. Init => TypeOK
  BY TypeCorrectInit
<1>2. TypeOK /\ [Next]_vars => TypeOK'
  <2> SUFFICES ASSUME TypeOK, [Next]_vars PROVE TypeOK'
    OBVIOUS
  <2> USE ConfigAssumption DEF TypeOK, Versions, access, files, budget
  <2>1. ASSUME NEW t \in Threads, Acquire(t) PROVE TypeOK'
    BY <2>1 DEF Acquire
  <2>2. ASSUME NEW t \in Threads, Closure(t) PROVE TypeOK'
    BY <2>2 DEF Closure
  <2>3. ASSUME NEW t \in Threads, Release(t) PROVE TypeOK'
    BY <2>3 DEF Release, Unlock
  <2>4. ASSUME NEW t \in Threads, Clone(t) PROVE TypeOK'
    BY <2>4 DEF Clone
  <2>5. ASSUME NEW t \in Threads, Count(t) PROVE TypeOK'
    BY <2>5 DEF Count
  <2>6. ASSUME NEW t \in Threads, OpenTmp(t) PROVE TypeOK'
    BY <2>6 DEF OpenTmp
  <2>7. ASSUME NEW t \in Threads, WriteTmp(t) PROVE TypeOK'
    BY <2>7 DEF WriteTmp, Written
  <2>8. ASSUME NEW t \in Threads, RenameTmp(t) PROVE TypeOK'
    BY <2>8 DEF RenameTmp, AfterSave, Unlock, Moved
  <2>9. ASSUME NEW t \in Threads, RenameFails(t) PROVE TypeOK'
    BY <2>9 DEF RenameFails, AfterSave, Unlock, Removed
  <2>10. ASSUME NEW t \in Threads, WriteFails(t) PROVE TypeOK'
    BY <2>10 DEF WriteFails, AfterSave, Unlock
  <2>11. ASSUME Restart PROVE TypeOK'
    <3>1. mem' \in Versions /\ disk' \in Versions \cup {Torn, NoFile}
      BY <2>11 DEF Restart, Load, LoadFails, Default
    <3>2. /\ pc' \in [Threads -> {"idle"}]
          /\ io' \in [Threads -> {"none"}]
          /\ handle' \in [Threads -> {"none"}]
      BY <2>11 DEF Restart
    <3>3. crashes' \in 0..MaxCrashes /\ faults' \in 0..MaxFaults
      BY <2>11 DEF Restart, Load, LoadFails
    <3>4. newest' \in Versions
      BY <2>11 DEF Restart, Load, LoadFails
    <3>5. unread' = TRUE \/ unread' = FALSE
      BY <2>11, Zenon DEF Restart, Load, LoadFails
    <3>6. QED
      BY <2>11, <3>1, <3>2, <3>3, <3>4, <3>5 DEF Restart
  <2>12. CASE UNCHANGED vars
    BY <2>12 DEF vars
  <2>13. QED
    BY <2>1, <2>2, <2>3, <2>4, <2>5, <2>6, <2>7, <2>8, <2>9, <2>10, <2>11, <2>12
    DEF Next, Step
<1>3. QED
  BY <1>1, <1>2, PTL DEF Spec

-----------------------------------------------------------------------------
(* The file is never ahead of memory, snapshot saves included.             *)

\* While any save is in progress, what it writes and what the temporary file
\* holds come from memory.  With no save in progress the temporary file may
\* hold anything: a dead process may have left it.
AheadInv ==
    /\ TypeOK
    /\ disk <= mem \/ unread
    /\ mem <= newest /\ disk <= newest
    /\ \A t \in Threads : pc[t] = "snapshot" => image[t] <= mem
    /\ \A t \in Threads : io[t] # "none" => image[t] <= mem /\ tmp <= mem

\* No file and no image of one gets ahead of memory.
LEMMA AheadInvariant == Spec => []AheadInv
<1>1. Init => AheadInv
  <2> SUFFICES ASSUME Init PROVE AheadInv
    OBVIOUS
  <2>1. TypeOK
    BY TypeCorrectInit
  <2>2. QED
    BY <2>1 DEF AheadInv, Init, Default, NoFile
<1>2. AheadInv /\ TypeOK' /\ [Next]_vars => AheadInv'
  <2> SUFFICES ASSUME AheadInv, TypeOK', [Next]_vars PROVE AheadInv'
    OBVIOUS
  <2> USE ConfigAssumption DEF AheadInv, TypeOK, Versions, Torn, NoFile, files, budget
  <2>1. ASSUME NEW t \in Threads, Acquire(t) PROVE AheadInv'
    BY <2>1 DEF Acquire
  <2>2. ASSUME NEW t \in Threads, Closure(t) PROVE AheadInv'
    BY <2>2 DEF Closure
  <2>3. ASSUME NEW t \in Threads, Release(t) PROVE AheadInv'
    BY <2>3 DEF Release, Unlock
  <2>4. ASSUME NEW t \in Threads, Clone(t) PROVE AheadInv'
    BY <2>4 DEF Clone
  <2>5. ASSUME NEW t \in Threads, Count(t) PROVE AheadInv'
    BY <2>5 DEF Count
  <2>6. ASSUME NEW t \in Threads, OpenTmp(t) PROVE AheadInv'
    BY <2>6 DEF OpenTmp
  <2>7. ASSUME NEW t \in Threads, WriteTmp(t) PROVE AheadInv'
    BY <2>7 DEF WriteTmp, Written, access
  <2>8. ASSUME NEW t \in Threads, RenameTmp(t) PROVE AheadInv'
    BY <2>8 DEF RenameTmp, AfterSave, Unlock
  <2>9. ASSUME NEW t \in Threads, RenameFails(t) PROVE AheadInv'
    BY <2>9 DEF RenameFails, AfterSave, Unlock
  <2>10. ASSUME NEW t \in Threads, WriteFails(t) PROVE AheadInv'
    BY <2>10 DEF WriteFails, AfterSave, Unlock
  <2>11. ASSUME Restart PROVE AheadInv'
    BY <2>11 DEF Restart, Load, LoadFails, Default
  <2>12. CASE UNCHANGED vars
    BY <2>12 DEF vars, access
  <2>13. QED
    BY <2>1, <2>2, <2>3, <2>4, <2>5, <2>6, <2>7, <2>8, <2>9, <2>10, <2>11, <2>12
    DEF Next, Step
<1>3. QED
  BY <1>1, <1>2, TypeCorrect, PTL DEF Spec

\* The configuration file never holds a version that memory does not have or
\* has passed, whoever saves and whatever fails, unless it could not be read and
\* was not replaced yet (save_config, load_config).
THEOREM NotAhead == Spec => []DiskNotAheadOfMemory
<1>1. AheadInv => DiskNotAheadOfMemory
  BY DEF AheadInv, DiskNotAheadOfMemory
<1>2. QED
  BY <1>1, AheadInvariant, PTL

-----------------------------------------------------------------------------
(* As long as every save was made under the lock.                          *)

\* Only the lock holder saves; it writes what memory holds; the flag is clear
\* only when the file is up to date, and it is set while the closure can
\* still change memory.
UnderLock ==
    /\ \A t \in Threads : pc[t] \notin {"snapshot", "count"}
    /\ \A t \in Threads : pc[t] \notin {"idle", "exchange"} => writer = t
    /\ \A t \in Threads : pc[t] = "closure" => dirty
    /\ \A t \in Threads :
          IF io[t] = "none"
          THEN handle[t] = "none"
          ELSE /\ pc[t] \in {"save", "drop"}
               /\ handle[t] = "tmp"
               /\ image[t] = mem
               /\ io[t] = "written" => tmp = mem
    /\ ~dirty => Persisted \/ unread
    /\ disk # Torn

LockedInv == AheadInv /\ (~snapshots => UnderLock)

\* LockedInv is inductive: every step of Next keeps all of its parts together.
LEMMA LockedInvariant == Spec => []LockedInv
<1>1. AheadInv /\ Init => LockedInv
  BY DEF LockedInv, UnderLock, Init, Default, NoFile, Torn, Persisted
<1>2. LockedInv /\ AheadInv' /\ [Next]_vars => LockedInv'
  <2> SUFFICES ASSUME LockedInv, AheadInv', [Next]_vars PROVE LockedInv'
    OBVIOUS
  <2> USE ConfigAssumption
      DEF LockedInv, AheadInv, UnderLock, TypeOK, Versions, Torn, NoFile, Persisted, files, budget
  <2>1. ASSUME NEW t \in Threads, Acquire(t) PROVE LockedInv'
    BY <2>1 DEF Acquire
  <2>2. ASSUME NEW t \in Threads, Closure(t) PROVE LockedInv'
    BY <2>2 DEF Closure
  <2>3. ASSUME NEW t \in Threads, Release(t) PROVE LockedInv'
    BY <2>3 DEF Release, Unlock
  <2>4. ASSUME NEW t \in Threads, Clone(t) PROVE LockedInv'
    BY <2>4 DEF Clone
  <2>5. ASSUME NEW t \in Threads, Count(t) PROVE LockedInv'
    BY <2>5 DEF Count
  <2>6. ASSUME NEW t \in Threads, OpenTmp(t) PROVE LockedInv'
    BY <2>6 DEF OpenTmp, Saving
  <2>7. ASSUME NEW t \in Threads, WriteTmp(t) PROVE LockedInv'
    BY <2>7 DEF WriteTmp, Written, access
  <2>8. ASSUME NEW t \in Threads, RenameTmp(t) PROVE LockedInv'
    BY <2>8 DEF RenameTmp, AfterSave, Unlock, Moved
  <2>9. ASSUME NEW t \in Threads, RenameFails(t) PROVE LockedInv'
    BY <2>9 DEF RenameFails, AfterSave, Unlock, Removed
  <2>10. ASSUME NEW t \in Threads, WriteFails(t) PROVE LockedInv'
    BY <2>10 DEF WriteFails, AfterSave, Unlock
  <2>11. ASSUME Restart PROVE LockedInv'
    BY <2>11 DEF Restart, Load, LoadFails, Default
  <2>12. CASE UNCHANGED vars
    BY <2>12 DEF vars, access
  <2>13. QED
    BY <2>1, <2>2, <2>3, <2>4, <2>5, <2>6, <2>7, <2>8, <2>9, <2>10, <2>11, <2>12
    DEF Next, Step
<1>3. QED
  BY <1>1, <1>2, AheadInvariant, PTL DEF Spec

\* As long as no snapshot was saved, a clean configuration with a free lock is
\* on disk (save_if_modified, Drop): failed saves are never forgotten.  Only the
\* defaults after a load that failed are clean without being saved.
THEOREM CleanIsPersisted == Spec => []CleanMeansPersisted
<1>1. LockedInv => CleanMeansPersisted
  BY DEF LockedInv, UnderLock, CleanMeansPersisted
<1>2. QED
  BY <1>1, LockedInvariant, PTL

\* As long as no snapshot was saved, the configuration file is whole at every
\* moment, so also after a crash inside save_config.
THEOREM WholeFile == Spec => []NeverTorn
<1>1. LockedInv => NeverTorn
  BY DEF LockedInv, UnderLock, NeverTorn
<1>2. QED
  BY <1>1, LockedInvariant, PTL

\* As long as no snapshot was saved, no save puts an older version over a
\* newer one, unless it is the first save after a load that failed.
THEOREM ForwardOnly == Spec => DiskNeverRegresses
<1>1. LockedInv /\ [Next]_vars => [snapshots \/ unread \/ disk' >= disk]_disk
  <2> SUFFICES ASSUME LockedInv, ~snapshots, ~unread, Next PROVE disk' >= disk
    BY DEF vars, files
  <2> USE DEF LockedInv, AheadInv, UnderLock, TypeOK, Versions, Torn, NoFile, access, files, budget
  <2>1. ASSUME NEW t \in Threads, WriteTmp(t) PROVE disk' = disk
    BY <2>1 DEF WriteTmp
  <2>2. ASSUME NEW t \in Threads, RenameTmp(t) PROVE disk' >= disk
    BY <2>2 DEF RenameTmp
  <2>3. ASSUME Restart PROVE disk' >= disk
    BY <2>3 DEF Restart, Load, LoadFails
  <2>4. ASSUME NEW t \in Threads,
               \/ Acquire(t) \/ Closure(t) \/ Release(t) \/ Clone(t) \/ Count(t)
               \/ OpenTmp(t) \/ RenameFails(t) \/ WriteFails(t)
        PROVE  disk' = disk
    BY <2>4 DEF Acquire, Closure, Release, Clone, Count, OpenTmp, RenameFails, WriteFails
  <2>5. QED
    BY <2>1, <2>2, <2>3, <2>4 DEF Next, Step
<1>2. QED
  BY <1>1, LockedInvariant, PTL DEF Spec, DiskNeverRegresses

-----------------------------------------------------------------------------
(* ConfigAccess implements ConfigFile.                                     *)

\* The file is replaced by what memory holds, or, once snapshots are saved, by
\* something that memory had before.
LEMMA RenamedIsSaved ==
  ASSUME AheadInv, LockedInv, NEW t \in Threads, RenameTmp(t)
  PROVE  Stored!Save
<1> USE DEF TypeOK, Versions
<1>1. disk' = tmp /\ mem' = mem /\ snapshots' = snapshots /\ io[t] = "written" /\ tmp # NoFile
  BY DEF RenameTmp, budget
<1>2. CASE snapshots
  <2>1. tmp \in 0..mem \cup {Torn}
    BY <1>1, ConfigAssumption DEF AheadInv
  <2>2. QED
    BY <1>1, <1>2, <2>1 DEF Stored!Save
<1>3. CASE ~snapshots
  <2>1. tmp = mem
    BY <1>1, <1>3 DEF LockedInv, UnderLock
  <2>2. QED
    BY <1>1, <2>1 DEF Stored!Save
<1>4. QED
  BY <1>2, <1>3 DEF AheadInv

\* Only a write through a handle whose file was renamed meanwhile changes the
\* configuration file itself.
LEMMA WriteIsSaved ==
  ASSUME AheadInv, LockedInv, NEW t \in Threads, WriteTmp(t)
  PROVE  Stored!Save \/ UNCHANGED <<mem, disk, snapshots>>
<1> USE DEF TypeOK, Versions
<1>1. mem' = mem /\ snapshots' = snapshots /\ io[t] = "opened"
  BY DEF WriteTmp, access, budget
<1>2. CASE handle[t] = "disk"
  <2>1. snapshots
    BY <1>1, <1>2 DEF LockedInv, UnderLock
  <2>2. image[t] \in 0..mem
    BY <1>1, ConfigAssumption DEF AheadInv
  <2>3. disk' \in {image[t], Torn}
    BY <1>2 DEF WriteTmp, Written
  <2>4. QED
    BY <1>1, <2>1, <2>2, <2>3 DEF Stored!Save
<1>3. CASE handle[t] # "disk"
  BY <1>1, <1>3 DEF WriteTmp
<1>4. QED
  BY <1>2, <1>3

\* To the process the configuration file is replaced in one step by what memory
\* holds, although save_config opens, writes and renames in separate steps, some
\* of which fail or are the last of the process: for any threads and bounds.
THEOREM Implementation == Spec => ImplementsConfigFile
<1>1. Init => Stored!Init
  BY ConfigAssumption DEF Init, Stored!Init, Stored!Usable, Default, NoFile
<1>2. AheadInv /\ LockedInv /\ [Next]_vars => [Stored!Next]_<<mem, disk, snapshots>>
  <2> SUFFICES ASSUME AheadInv, LockedInv, [Next]_vars
               PROVE  Stored!Next \/ UNCHANGED <<mem, disk, snapshots>>
    OBVIOUS
  <2> USE DEF access, files, budget
  <2>1. ASSUME NEW t \in Threads, Closure(t)
        PROVE  Stored!Change \/ UNCHANGED <<mem, disk, snapshots>>
    BY <2>1 DEF Closure, Stored!Change, Stored!Newer, AheadInv, TypeOK, Versions
  <2>2. ASSUME NEW t \in Threads, Clone(t) PROVE Stored!Loosen
    BY <2>2 DEF Clone, Stored!Loosen
  <2>3. ASSUME NEW t \in Threads, WriteTmp(t)
        PROVE  Stored!Save \/ UNCHANGED <<mem, disk, snapshots>>
    BY <2>3, WriteIsSaved
  <2>4. ASSUME NEW t \in Threads, RenameTmp(t) PROVE Stored!Save
    BY <2>4, RenamedIsSaved
  <2>5. ASSUME NEW t \in Threads,
               \/ Acquire(t) \/ Release(t) \/ Count(t)
               \/ OpenTmp(t) \/ RenameFails(t) \/ WriteFails(t)
        PROVE  UNCHANGED <<mem, disk, snapshots>>
    BY <2>5 DEF Acquire, Release, Count, OpenTmp, RenameFails, WriteFails
  <2>6. CASE Restart
    <3>1. snapshots' = snapshots /\ (Load \/ LoadFails)
      BY <2>6 DEF Restart
    <3>2. CASE disk \in Versions /\ mem' = disk /\ disk' = disk
      <4>1. Stored!Usable
        BY <3>2 DEF Stored!Usable, Versions
      <4>2. QED
        BY <3>1, <3>2, <4>1 DEF Stored!Next, Stored!Restart
    <3>3. CASE mem' = Default /\ disk' = disk
      BY <3>1, <3>3 DEF Stored!Next, Stored!Restart
    <3>4. CASE disk = NoFile /\ mem' = newest + 1 /\ disk' = newest + 1
      <4>1. Stored!Newer(mem')
        BY <3>4, ConfigAssumption DEF Stored!Newer, AheadInv, TypeOK, Versions
      <4>2. QED
        BY <3>1, <3>4, <4>1 DEF Stored!Next, Stored!Restart
    <3>5. QED
      BY <3>1, <3>2, <3>3, <3>4 DEF Load, LoadFails
  <2>7. CASE UNCHANGED vars
    BY <2>7 DEF vars
  <2>8. QED
    BY <2>1, <2>2, <2>3, <2>4, <2>5, <2>6, <2>7 DEF Next, Step, Stored!Next
<1>3. QED
  BY <1>1, <1>2, AheadInvariant, LockedInvariant, PTL
  DEF Spec, ImplementsConfigFile, Stored!Spec

-----------------------------------------------------------------------------
(* CommandLine: configurations and what is known of them.                   *)

\* A configuration, of which the theorems look at the keys only.
IsConfig(c) ==
    /\ c = [keys |-> c.keys, nets |-> c.nets, fish11 |-> c.fish11]
    /\ c.keys \in [Slots -> Keys \cup {NoKey}]

\* Two configurations have the same keys of nicknames.
SameKeys(c, e) == \A n \in Nicks, w \in Networks : c.keys[<<n, w>>] = e.keys[<<n, w>>]

\* What a process works with.
CliShape ==
    /\ file = [d \in Dirs |-> file[d]] /\ \A d \in Dirs : IsConfig(file[d])
    /\ memory = [p \in Procs |-> memory[p]] /\ \A p \in Procs : IsConfig(memory[p])
    /\ at = [p \in Procs |-> at[p]]
    /\ dir \in [Procs -> Dirs]
    /\ call = [p \in Procs |-> call[p]]
    /\ next \in [Procs -> {"none", "FileGetKey"}]
    /\ answer = [p \in Procs |-> answer[p]]
    /\ inStep \in [Procs -> BOOLEAN]
    /\ told \in [Dirs -> [Nicks -> Keys \cup {NoKey}]]

\* The parameters of a call are those of a request.
CallTyped(c) == ParamsTyped(c.function, c.params)

CallsTyped == \A p \in Procs : CallTyped(call[p])

\* A process that is in step knows the keys of its file.
InStepAgrees ==
    \A p \in Procs : at[p] # "off" /\ inStep[p] => SameKeys(memory[p], file[dir[p]])

\* The key that SetKey left for a nickname is in the file.
ToldIsStored ==
    \A d \in Dirs, n \in Nicks :
        told[d][n] # NoKey => file[d].keys[<<n, DefaultNet>>] = told[d][n]

\* Between the two critical sections of set_key the key is in memory.
MappedIsStored ==
    \A p \in Procs :
        at[p] = "map" /\ call[p].function = "SetKey" =>
            /\ Len(call[p].params) = 3
            /\ call[p].params[2] \in Nicks /\ call[p].params[1] = DefaultNet =>
                   memory[p].keys[<<call[p].params[2], DefaultNet>>] = call[p].params[3]

CliInv == CliShape /\ CallsTyped /\ InStepAgrees /\ ToldIsStored /\ MappedIsStored

\* The configuration with another entry.
LEMMA WithEntry ==
    ASSUME NEW c, IsConfig(c), NEW s, NEW key \in Keys \cup {NoKey}
    PROVE  LET e == [c EXCEPT !.keys[s] = key]
           IN  /\ IsConfig(e)
               /\ \A t \in Slots : e.keys[t] = IF t = s THEN key ELSE c.keys[t]
<1> DEFINE e == [c EXCEPT !.keys[s] = key]
<1>1. e.keys = [c.keys EXCEPT ![s] = key] /\ e.nets = c.nets /\ e.fish11 = c.fish11
    BY DEF IsConfig
<1>2. e = [keys |-> e.keys, nets |-> e.nets, fish11 |-> e.fish11] BY <1>1 DEF IsConfig
<1> HIDE DEF e
<1>3. e.keys \in [Slots -> Keys \cup {NoKey}] BY <1>1 DEF IsConfig
<1>4. \A t \in Slots : e.keys[t] = IF t = s THEN key ELSE c.keys[t] BY <1>1 DEF IsConfig
<1>5. IsConfig(e) BY <1>2, <1>3 DEF IsConfig
<1> QED BY <1>4, <1>5 DEF e

\* The configuration with another mapping.
LEMMA WithMapping ==
    ASSUME NEW c, IsConfig(c), NEW name, NEW net
    PROVE  /\ IsConfig([c EXCEPT !.nets[name] = net])
           /\ [c EXCEPT !.nets[name] = net].keys = c.keys
BY DEF IsConfig

\* The configuration with other settings.
LEMMA WithSettings ==
    ASSUME NEW c, IsConfig(c), NEW settings
    PROVE  /\ IsConfig([c EXCEPT !.fish11 = settings])
           /\ [c EXCEPT !.fish11 = settings].keys = c.keys
BY DEF IsConfig

\* The configuration with some of its entries and mappings.
LEMMA OnlyParts ==
    ASSUME NEW c, IsConfig(c), NEW slots, NEW names
    PROVE  /\ IsConfig(Only(c, slots, names))
           /\ \A s \in Slots \cap slots : Only(c, slots, names).keys[s] = c.keys[s]
           /\ c.nets \in [Names -> Networks \cup {NoNet}] =>
                  Only(c, slots, names).nets \in [Names -> Networks \cup {NoNet}]
           /\ Only(c, slots, names).fish11 = c.fish11
<1> DEFINE keysOf == [s \in Slots |-> IF s \in slots THEN c.keys[s] ELSE NoKey]
           netsOf == [n \in Names |-> IF n \in names THEN c.nets[n] ELSE NoNet]
<1>1. /\ keysOf \in [Slots -> Keys \cup {NoKey}]
      /\ \A s \in Slots \cap slots : keysOf[s] = c.keys[s]
      /\ c.nets \in [Names -> Networks \cup {NoNet}] =>
             netsOf \in [Names -> Networks \cup {NoNet}]
    BY DEF IsConfig
<1>2. Only(c, slots, names) = [[c EXCEPT !.keys = keysOf] EXCEPT !.nets = netsOf]
    BY DEF Only, IsConfig
<1> HIDE DEF keysOf, netsOf
<1>3. Only(c, slots, names) = [keys |-> keysOf, nets |-> netsOf, fish11 |-> c.fish11]
    BY <1>2 DEF IsConfig
<1>4. /\ IsConfig(Only(c, slots, names)) /\ Only(c, slots, names).keys = keysOf
      /\ Only(c, slots, names).nets = netsOf /\ Only(c, slots, names).fish11 = c.fish11
    BY <1>1, <1>3 DEF IsConfig
<1> QED BY <1>1, <1>4

\* A new configuration.
LEMMA EmptyIsConfig == IsConfig(Empty)
BY DEF IsConfig, Empty

\* What is loaded is a configuration, with the keys of all nicknames in the file
\* unless a tagged name is among them.
LEMMA LoadedKeys ==
    ASSUME NEW c, IsConfig(c), NEW m \in Loaded(c)
    PROVE  IsConfig(m) /\ (~Misread(c) => SameKeys(m, c))
<1> DEFINE slots == {s \in Slots : s[1] \in Nicks}
<1>1. PICK x \in SUBSET slots, y \in SUBSET Nicks :
          m = Only(c, x, y) /\ (~Misread(c) => x = slots)
    BY DEF Loaded
<1>2. IsConfig(m) /\ \A s \in Slots \cap x : m.keys[s] = c.keys[s]
    BY <1>1, OnlyParts
<1>3. ASSUME ~Misread(c), NEW n \in Nicks, NEW w \in Networks
      PROVE  m.keys[<<n, w>>] = c.keys[<<n, w>>]
    <2>1. <<n, w>> \in Slots BY DEF Slots, Names
    <2>2. <<n, w>> \in x BY <1>1, <1>3, <2>1
    <2> QED BY <1>2, <2>1, <2>2
<1> QED BY <1>2, <1>3 DEF SameKeys

-----------------------------------------------------------------------------
(* Steps that save nothing.                                                 *)

\* g is f but for p.
Touches(f, g, p) == g = [f EXCEPT ![p] = g[p]]

\* A step of p that touches no file.
LEMMA NothingSaved ==
    ASSUME CliInv, NEW p \in Procs, file' = file, told' = told,
           Touches(at, at', p), Touches(memory, memory', p), Touches(dir, dir', p),
           Touches(call, call', p), Touches(next, next', p), Touches(answer, answer', p),
           Touches(inStep, inStep', p),
           IsConfig(memory'[p]), dir'[p] \in Dirs, CallTyped(call'[p]),
           next'[p] \in {"none", "FileGetKey"}, inStep'[p] \in BOOLEAN,
           at'[p] # "map",
           at'[p] # "off" /\ inStep'[p] => SameKeys(memory'[p], file[dir'[p]])
    PROVE  CliInv'
<1> USE DEF CliInv, CliShape, Touches
<1>1. CliShape'
    <2>1. file' = [d \in Dirs |-> file'[d]] /\ \A d \in Dirs : IsConfig(file'[d]) OBVIOUS
    <2>2. memory' = [q \in Procs |-> memory'[q]] /\ \A q \in Procs : IsConfig(memory'[q])
        OBVIOUS
    <2>3. at' = [q \in Procs |-> at'[q]] OBVIOUS
    <2>4. dir' \in [Procs -> Dirs] OBVIOUS
    <2>5. call' = [q \in Procs |-> call'[q]] OBVIOUS
    <2>6. next' \in [Procs -> {"none", "FileGetKey"}] OBVIOUS
    <2>7. answer' = [q \in Procs |-> answer'[q]] OBVIOUS
    <2>8. inStep' \in [Procs -> BOOLEAN] OBVIOUS
    <2>9. told' \in [Dirs -> [Nicks -> Keys \cup {NoKey}]] OBVIOUS
    <2> QED BY <2>1, <2>2, <2>3, <2>4, <2>5, <2>6, <2>7, <2>8, <2>9 DEF IsConfig
<1>2. CallsTyped' BY DEF CallsTyped, CallTyped, ParamsTyped
<1>3. InStepAgrees'
    <2>1. ASSUME NEW q \in Procs, at'[q] # "off", inStep'[q]
          PROVE  SameKeys(memory'[q], file[dir'[q]])
        <3>1. CASE q = p BY <2>1, <3>1
        <3>2. CASE q # p
            <4>1. /\ at'[q] = at[q] /\ inStep'[q] = inStep[q]
                  /\ memory'[q] = memory[q] /\ dir'[q] = dir[q]
                BY <3>2
            <4> QED BY <2>1, <4>1 DEF InStepAgrees
        <3> QED BY <3>1, <3>2
    <2> HIDE DEF CliInv, CliShape
    <2>2. ASSUME NEW q \in Procs, at'[q] # "off", inStep'[q], NEW n \in Nicks, NEW w \in Networks
          PROVE  memory'[q].keys[<<n, w>>] = file'[dir'[q]].keys[<<n, w>>]
        BY <2>1, <2>2 DEF SameKeys
    <2> QED BY <2>2 DEF InStepAgrees, SameKeys
<1>4. ToldIsStored' BY DEF ToldIsStored
<1>5. MappedIsStored'
    <2> SUFFICES ASSUME NEW q \in Procs, at'[q] = "map", call'[q].function = "SetKey"
                 PROVE  /\ Len(call'[q].params) = 3
                        /\ call'[q].params[2] \in Nicks /\ call'[q].params[1] = DefaultNet =>
                               memory'[q].keys[<<call'[q].params[2], DefaultNet>>]
                                   = call'[q].params[3]
        BY DEF MappedIsStored
    <2>1. q # p /\ at'[q] = at[q] /\ call'[q] = call[q] /\ memory'[q] = memory[q] OBVIOUS
    <2> QED BY <2>1 DEF MappedIsStored
<1> QED BY <1>1, <1>2, <1>3, <1>4, <1>5

\* A call that only answers.
LEMMA ReplyKeeps ==
    ASSUME CliInv, NEW p \in Procs, at[p] # "off", NEW text, Reply(p, text)
    PROVE  CliInv'
<1>1. /\ file' = file /\ told' = told
      /\ at' = [at EXCEPT ![p] = "answer"] /\ answer' = [answer EXCEPT ![p] = text]
      /\ UNCHANGED <<memory, dir, call, next, inStep>>
    BY DEF Reply, Answers, ghosts
<1>2. /\ Touches(at, at', p) /\ Touches(memory, memory', p) /\ Touches(dir, dir', p)
      /\ Touches(call, call', p) /\ Touches(next, next', p)
      /\ Touches(answer, answer', p) /\ Touches(inStep, inStep', p)
    BY <1>1 DEF Touches, CliInv, CliShape
<1>3. /\ IsConfig(memory'[p]) /\ dir'[p] \in Dirs /\ CallTyped(call'[p])
      /\ next'[p] \in {"none", "FileGetKey"} /\ inStep'[p] \in BOOLEAN
    BY <1>1 DEF CliInv, CliShape, CallsTyped, CallTyped, ParamsTyped
<1>4. at'[p] # "map" BY <1>1 DEF CliInv, CliShape
<1>5. at'[p] # "off" /\ inStep'[p] => SameKeys(memory'[p], file[dir'[p]])
    BY <1>1 DEF CliInv, InStepAgrees
<1> QED BY <1>1, <1>2, <1>3, <1>4, <1>5, NothingSaved

\* A process ends or its library is unloaded.
LEMMA OffKeeps ==
    ASSUME CliInv, NEW p \in Procs, Off(p), file' = file, told' = told,
           dir' = dir \/ dir' = [dir EXCEPT ![p] = WorkDir]
    PROVE  CliInv'
<1>1. /\ at' = [at EXCEPT ![p] = "off"] /\ memory' = [memory EXCEPT ![p] = Empty]
      /\ call' = [call EXCEPT ![p] = NoCall] /\ next' = [next EXCEPT ![p] = "none"]
      /\ answer' = [answer EXCEPT ![p] = NoAnswer] /\ inStep' = [inStep EXCEPT ![p] = TRUE]
    BY DEF Off
<1>2. /\ Touches(at, at', p) /\ Touches(memory, memory', p) /\ Touches(dir, dir', p)
      /\ Touches(call, call', p) /\ Touches(next, next', p)
      /\ Touches(answer, answer', p) /\ Touches(inStep, inStep', p)
    BY <1>1 DEF Touches, CliInv, CliShape
<1>3. IsConfig(Empty) BY DEF IsConfig, Empty
<1>4. CallTyped(NoCall) BY DEF CallTyped, ParamsTyped, NoCall
<1>5. /\ memory'[p] = Empty /\ call'[p] = NoCall /\ next'[p] = "none" /\ inStep'[p] = TRUE
      /\ at'[p] = "off" /\ dir'[p] \in Dirs
    BY <1>1, CommandLineAssumption DEF CliInv, CliShape
<1> QED BY <1>2, <1>3, <1>4, <1>5, NothingSaved

\* What a process that loads the library reads.
LEMMA ReadConfigKeys ==
    ASSUME CliInv, NEW p \in Procs, NEW d \in Dirs, ReadConfig(p, d)
    PROVE  /\ Touches(memory, memory', p) /\ Touches(inStep, inStep', p)
           /\ memory'[p] = Empty \/ memory'[p] \in Loaded(file[d])
           /\ IsConfig(memory'[p]) /\ inStep'[p] \in BOOLEAN
           /\ inStep'[p] => SameKeys(memory'[p], file[d])
<1> USE DEF CliInv, CliShape, Touches
<1>1. IsConfig(file[d]) OBVIOUS
<1>2. ASSUME NEW c \in Loaded(file[d]), memory' = [memory EXCEPT ![p] = c],
             inStep' = [inStep EXCEPT ![p] = ~Misread(file[d])]
      PROVE  /\ Touches(memory, memory', p) /\ Touches(inStep, inStep', p)
             /\ memory'[p] \in Loaded(file[d])
             /\ IsConfig(memory'[p]) /\ inStep'[p] \in BOOLEAN
             /\ inStep'[p] => SameKeys(memory'[p], file[d])
    <2>1. IsConfig(c) /\ (~Misread(file[d]) => SameKeys(c, file[d])) BY <1>1, LoadedKeys
    <2>2. Misread(file[d]) \in BOOLEAN BY DEF Misread
    <2>3. memory'[p] = c /\ inStep'[p] = ~Misread(file[d]) BY <1>2
    <2>4. Touches(memory, memory', p) BY <1>2
    <2>5. Touches(inStep, inStep', p) BY <1>2
    <2> HIDE DEF CliInv, CliShape, Touches
    <2> QED BY <2>1, <2>2, <2>3, <2>4, <2>5
<1>3. ASSUME memory' = [memory EXCEPT ![p] = Empty], inStep' = [inStep EXCEPT ![p] = FALSE]
      PROVE  /\ Touches(memory, memory', p) /\ Touches(inStep, inStep', p)
             /\ memory'[p] = Empty /\ IsConfig(memory'[p]) /\ inStep'[p] = FALSE
    <2>1. memory'[p] = Empty /\ inStep'[p] = FALSE BY <1>3
    <2>2. Touches(memory, memory', p) BY <1>3
    <2>3. Touches(inStep, inStep', p) BY <1>3
    <2> QED BY <2>1, <2>2, <2>3, EmptyIsConfig
<1> HIDE DEF CliInv, CliShape, Touches
<1>4. CASE \E c \in Loaded(file[d]) : /\ memory' = [memory EXCEPT ![p] = c]
                                      /\ inStep' = [inStep EXCEPT ![p] = ~Misread(file[d])]
    BY <1>2, <1>4
<1>5. CASE memory' = [memory EXCEPT ![p] = Empty] /\ inStep' = [inStep EXCEPT ![p] = FALSE]
    BY <1>3, <1>5
<1> QED BY <1>4, <1>5 DEF ReadConfig

\* The library is loaded and a call of it made.
LEMMA InvokeKeeps ==
    ASSUME CliInv, NEW p \in Runs, NEW r \in Requests, NEW d \in RunDirs, Invoke(p, r, d)
    PROVE  CliInv'
<1> DEFINE function == Function[Command(r.command)]
           then == IF Command(r.command) = "genkey" THEN "FileGetKey" ELSE "none"
<1>1. /\ at' = [at EXCEPT ![p] = "call"] /\ ReadConfig(p, d)
      /\ call' = [call EXCEPT ![p] = [function |-> function, params |-> r.params]]
      /\ next' = [next EXCEPT ![p] = then]
      /\ dir' = [dir EXCEPT ![p] = d]
      /\ file' = file /\ told' = told /\ answer' = answer
      /\ Command(r.command) \in DOMAIN Function
    BY DEF Invoke, Enter, Callable
<1>2. p \in Procs /\ d \in Dirs BY CommandLineAssumption DEF Procs
<1>3. then \in {"none", "FileGetKey"} OBVIOUS
<1>4. CallTyped([function |-> function, params |-> r.params])
    <2>1. Accepted(r) /\ Callable(Command(r.command), r.params) BY DEF Invoke
    <2> QED BY <2>1, RequestAssumption DEF CallTyped
<1>5. /\ Touches(memory, memory', p) /\ Touches(inStep, inStep', p)
      /\ IsConfig(memory'[p]) /\ inStep'[p] \in BOOLEAN
      /\ inStep'[p] => SameKeys(memory'[p], file[d])
    BY <1>1, <1>2, ReadConfigKeys
<1> HIDE DEF function, then
<1>6. /\ Touches(at, at', p) /\ Touches(dir, dir', p)
      /\ Touches(call, call', p) /\ Touches(next, next', p) /\ Touches(answer, answer', p)
    BY <1>1, <1>2 DEF Touches, CliInv, CliShape
<1>7. /\ dir'[p] = d /\ next'[p] = then /\ at'[p] = "call"
      /\ call'[p] = [function |-> function, params |-> r.params]
    BY <1>1, <1>2 DEF CliInv, CliShape
<1> QED BY <1>1, <1>2, <1>3, <1>4, <1>5, <1>6, <1>7, NothingSaved

\* Steps of mIRC, and the second call of fish_11_cli, that touch the call only.
LEMMA EnterKeeps ==
    ASSUME CliInv, NEW p \in Procs, at[p] # "off",
           Touches(at, at', p), at'[p] \in {"call", "ready"},
           Touches(call, call', p), CallTyped(call'[p]),
           Touches(next, next', p), next'[p] \in {"none", "FileGetKey"},
           Touches(answer, answer', p),
           UNCHANGED <<file, memory, dir, inStep, told>>
    PROVE  CliInv'
<1>1. Touches(memory, memory', p) /\ Touches(dir, dir', p) /\ Touches(inStep, inStep', p)
    BY DEF Touches, CliInv, CliShape
<1>2. IsConfig(memory'[p]) /\ dir'[p] \in Dirs /\ inStep'[p] \in BOOLEAN
    BY DEF CliInv, CliShape
<1>3. inStep'[p] => SameKeys(memory'[p], file[dir'[p]]) BY DEF CliInv, InStepAgrees
<1> QED BY <1>1, <1>2, <1>3, NothingSaved

-----------------------------------------------------------------------------
(* Steps that save.                                                         *)

\* c may be what p has in memory between the two critical sections of set_key.
MapReady(p, c) ==
    call[p].function = "SetKey" =>
        /\ Len(call[p].params) = 3
        /\ call[p].params[2] \in Nicks /\ call[p].params[1] = DefaultNet =>
               c.keys[<<call[p].params[2], DefaultNet>>] = call[p].params[3]

\* A save that leaves f in the file.
SavedAs(p, c, f) ==
    /\ memory' = [memory EXCEPT ![p] = c]
    /\ file' = [file EXCEPT ![dir[p]] = f]
    /\ inStep' = [q \in Procs |->
           IF q = p THEN f = c ELSE inStep[q] /\ (dir[q] # dir[p] \/ f = file[dir[p]])]

\* What a save leaves in the file: what was to be saved, what was there before, or
\* a torn file if another process is saving.
LEMMA SavedFile ==
    ASSUME CliInv, NEW p \in Procs, NEW c, IsConfig(c), Save(p, c)
    PROVE  \E f : /\ IsConfig(f)
                  /\ AlsoSaving(p) = {} => f \in {c, file[dir[p]]}
                  /\ SavedAs(p, c, f)
<1>1. PICK f \in {c, file[dir[p]]} \cup Mixed(p, c) : SavedAs(p, c, f) BY DEF Save, SavedAs
<1>2. AlsoSaving(p) = {} => f \in {c, file[dir[p]]} BY <1>1 DEF Mixed
<1>3. IsConfig(file[dir[p]]) BY DEF CliInv, CliShape
<1>4. ASSUME f \in Mixed(p, c) PROVE IsConfig(f)
    <2>1. ASSUME f # Empty
          PROVE  \E m \in {c} \cup {memory[q] : q \in AlsoSaving(p)} :
                     \E slots : f = Only(m, slots, Names)
        BY <1>4, <2>1 DEF Mixed
    <2>2. \A m \in {c} \cup {memory[q] : q \in AlsoSaving(p)} : IsConfig(m)
        BY DEF AlsoSaving, CliInv, CliShape
    <2>3. CASE f # Empty
        <3>1. PICK m \in {c} \cup {memory[q] : q \in AlsoSaving(p)} :
                  \E slots : f = Only(m, slots, Names)
            BY <2>1, <2>3
        <3>2. PICK slots : f = Only(m, slots, Names) BY <3>1
        <3>3. IsConfig(m) BY <2>2, <3>1
        <3> QED BY <3>2, <3>3, OnlyParts
    <2> QED BY <2>3, EmptyIsConfig
<1>5. IsConfig(f)
    <2>1. CASE f = c BY <2>1
    <2>2. CASE f = file[dir[p]] BY <1>3, <2>2
    <2> QED BY <1>1, <1>4, <2>1, <2>2
<1> QED BY <1>1, <1>2, <1>5

\* A step of p that saves c.
LEMMA SaveKeeps ==
    ASSUME CliInv, NEW p \in Procs, NEW c, IsConfig(c), Save(p, c),
           Touches(at, at', p), at'[p] \in {"map", "answer"}, Touches(answer, answer', p),
           dir' = dir, call' = call, next' = next,
           Touches(told, told', dir[p]),
           told'[dir[p]] \in [Nicks -> Keys \cup {NoKey}],
           \A n \in Nicks : told'[dir[p]][n] # NoKey =>
               file'[dir[p]].keys[<<n, DefaultNet>>] = told'[dir[p]][n],
           at'[p] = "answer" \/ MapReady(p, c)
    PROVE  CliInv'
<1>1. PICK f : IsConfig(f) /\ SavedAs(p, c, f) BY SavedFile
<1> USE DEF CliInv, CliShape, Touches, SavedAs
<1>2. CliShape'
    <2>1. file' = [d \in Dirs |-> file'[d]] /\ \A d \in Dirs : IsConfig(file'[d]) BY <1>1
    <2>2. memory' = [q \in Procs |-> memory'[q]] /\ \A q \in Procs : IsConfig(memory'[q])
        BY <1>1
    <2>3. at' = [q \in Procs |-> at'[q]] /\ answer' = [q \in Procs |-> answer'[q]] OBVIOUS
    <2>4. inStep' \in [Procs -> BOOLEAN] BY <1>1
    <2>5. told' \in [Dirs -> [Nicks -> Keys \cup {NoKey}]] OBVIOUS
    <2> QED BY <2>1, <2>2, <2>3, <2>4, <2>5 DEF IsConfig
<1>3. CallsTyped' BY DEF CallsTyped, CallTyped, ParamsTyped
<1>4. InStepAgrees'
    <2>1. ASSUME NEW q \in Procs, at'[q] # "off", inStep'[q]
          PROVE  SameKeys(memory'[q], file'[dir'[q]])
        <3>1. CASE q = p
            <4>1. memory'[q] = c /\ file'[dir'[q]] = f /\ f = c BY <1>1, <2>1, <3>1
            <4> QED BY <4>1 DEF SameKeys
        <3>2. CASE q # p
            <4>1. inStep[q] /\ (dir[q] # dir[p] \/ f = file[dir[p]]) BY <1>1, <2>1, <3>2
            <4>2. at'[q] = at[q] /\ memory'[q] = memory[q] /\ dir'[q] = dir[q] BY <1>1, <3>2
            <4>3. file'[dir[q]] = file[dir[q]] BY <1>1, <4>1
            <4> QED BY <2>1, <4>1, <4>2, <4>3 DEF InStepAgrees
        <3> QED BY <3>1, <3>2
    <2>2. ASSUME NEW q \in Procs, at'[q] # "off", inStep'[q], NEW n \in Nicks, NEW w \in Networks
          PROVE  memory'[q].keys[<<n, w>>] = file'[dir'[q]].keys[<<n, w>>]
        BY <2>1, <2>2 DEF SameKeys
    <2> HIDE DEF CliInv, CliShape
    <2> QED BY <2>2 DEF InStepAgrees, SameKeys
<1>5. ToldIsStored'
    <2> SUFFICES ASSUME NEW d \in Dirs, NEW n \in Nicks, told'[d][n] # NoKey
                 PROVE  file'[d].keys[<<n, DefaultNet>>] = told'[d][n]
        BY DEF ToldIsStored
    <2>1. CASE d = dir[p] BY <2>1
    <2>2. CASE d # dir[p]
        <3>1. told'[d] = told[d] /\ file'[d] = file[d] BY <1>1, <2>2
        <3> QED BY <3>1 DEF ToldIsStored
    <2> QED BY <2>1, <2>2
<1>6. MappedIsStored'
    <2> SUFFICES ASSUME NEW q \in Procs, at'[q] = "map", call'[q].function = "SetKey"
                 PROVE  /\ Len(call'[q].params) = 3
                        /\ call'[q].params[2] \in Nicks /\ call'[q].params[1] = DefaultNet =>
                               memory'[q].keys[<<call'[q].params[2], DefaultNet>>]
                                   = call'[q].params[3]
        BY DEF MappedIsStored
    <2>1. CASE q = p
        <3>1. at'[p] = "map" /\ memory'[q] = c BY <1>1, <2>1
        <3> QED BY <2>1, <3>1 DEF MapReady
    <2>2. CASE q # p
        <3>1. at[q] = "map" /\ memory'[q] = memory[q] BY <1>1, <2>2
        <3> QED BY <3>1 DEF MappedIsStored
    <2> QED BY <2>1, <2>2
<1> QED BY <1>2, <1>3, <1>4, <1>5, <1>6

\* A key that was told and that the save did not change is still in the file.
LEMMA KeptKeys ==
    ASSUME CliInv, NEW p \in Procs, at[p] # "off", NEW c, IsConfig(c), Save(p, c), Kept(p),
           NEW n \in Nicks, told[dir[p]][n] # NoKey,
           c.keys[<<n, DefaultNet>>] = memory[p].keys[<<n, DefaultNet>>]
    PROVE  file'[dir[p]].keys[<<n, DefaultNet>>] = told[dir[p]][n]
<1>1. dir[p] \in Dirs BY DEF CliInv, CliShape
<1>2. file[dir[p]].keys[<<n, DefaultNet>>] = told[dir[p]][n]
    BY <1>1 DEF CliInv, ToldIsStored
<1>3. CASE file' = file BY <1>2, <1>3
<1>4. CASE inStep[p] /\ inStep'[p]
    <2>1. file'[dir[p]] = c
        <3>1. PICK f : SavedAs(p, c, f)
            BY SavedFile
        <3>2. f = c BY <1>4, <3>1 DEF SavedAs
        <3> QED BY <1>1, <3>1, <3>2 DEF SavedAs, CliInv, CliShape
    <2>2. memory[p].keys[<<n, DefaultNet>>] = file[dir[p]].keys[<<n, DefaultNet>>]
        BY <1>4, CommandLineAssumption DEF CliInv, InStepAgrees, SameKeys
    <2> QED BY <1>2, <2>1, <2>2
<1> QED BY <1>3, <1>4 DEF Kept

\* A step of p that saves c, which differs from its memory for one name only.
LEMMA SaveUntoldKeeps ==
    ASSUME CliInv, NEW p \in Procs, at[p] # "off", NEW c, IsConfig(c), Save(p, c),
           Touches(at, at', p), at'[p] \in {"map", "answer"}, Touches(answer, answer', p),
           dir' = dir, call' = call, next' = next,
           NEW name, Untold(p, name),
           \A n \in Nicks \ {name} :
               c.keys[<<n, DefaultNet>>] = memory[p].keys[<<n, DefaultNet>>],
           at'[p] = "answer" \/ MapReady(p, c)
    PROVE  CliInv'
<1> DEFINE keysTold == [n \in Nicks |-> IF n # name /\ Kept(p) THEN told[dir[p]][n] ELSE NoKey]
<1>1. dir[p] \in Dirs /\ told[dir[p]] \in [Nicks -> Keys \cup {NoKey}] BY DEF CliInv, CliShape
<1>2. keysTold \in [Nicks -> Keys \cup {NoKey}] BY <1>1
<1>3. told' = [told EXCEPT ![dir[p]] = keysTold] BY <1>1 DEF Untold, CliInv, CliShape
<1>4. ASSUME NEW n \in Nicks, keysTold[n] # NoKey
      PROVE  file'[dir[p]].keys[<<n, DefaultNet>>] = keysTold[n]
    <2>1. n # name /\ Kept(p) /\ keysTold[n] = told[dir[p]][n] BY <1>4
    <2> HIDE DEF keysTold
    <2> QED BY <1>4, <2>1, KeptKeys
<1> HIDE DEF keysTold
<1>5. Touches(told, told', dir[p]) /\ told'[dir[p]] = keysTold
    BY <1>1, <1>3 DEF Touches, CliInv, CliShape
<1> QED BY <1>2, <1>4, <1>5, SaveKeeps

\* The step answers the call of p, and its process goes on as before.
AnswersOnly(p) ==
    /\ Touches(at, at', p) /\ at'[p] = "answer" /\ Touches(answer, answer', p)
    /\ dir' = dir /\ call' = call /\ next' = next

\* That is what Answers does.
LEMMA AnswersTouch ==
    ASSUME CliInv, NEW p \in Procs, NEW text, Answers(p, text)
    PROVE  AnswersOnly(p)
BY DEF Answers, AnswersOnly, Touches, CliInv, CliShape

\* set_key, the entry.
LEMMA StoreKeeps ==
    ASSUME CliInv, NEW p \in Procs, at[p] # "off", NEW name, NEW net, NEW key \in Keys,
           Store(p, name, net, key),
           call[p].function = "SetKey" =>
               /\ Len(call[p].params) = 3
               /\ name = call[p].params[2] /\ net = call[p].params[1] /\ key = call[p].params[3]
    PROVE  CliInv'
<1> DEFINE c == [memory[p] EXCEPT !.keys[<<name, net>>] = key]
<1>1. /\ Save(p, c) /\ Untold(p, name) /\ at' = [at EXCEPT ![p] = "map"]
      /\ dir' = dir /\ call' = call /\ next' = next /\ answer' = answer
    BY DEF Store
<1>2. IsConfig(memory[p]) BY DEF CliInv, CliShape
<1>3. /\ IsConfig(c)
      /\ \A s \in Slots : c.keys[s] = IF s = <<name, net>> THEN key ELSE memory[p].keys[s]
    BY <1>2, WithEntry
<1> HIDE DEF c
<1>4. \A n \in Nicks : <<n, DefaultNet>> \in Slots BY CommandLineAssumption DEF Slots, Names
<1>5. \A n \in Nicks \ {name} :
          c.keys[<<n, DefaultNet>>] = memory[p].keys[<<n, DefaultNet>>]
    BY <1>3, <1>4
<1>6. MapReady(p, c) BY <1>3, <1>4 DEF MapReady
<1>7. Touches(at, at', p) /\ at'[p] = "map" /\ Touches(answer, answer', p)
    BY <1>1 DEF Touches, CliInv, CliShape
<1> QED BY <1>1, <1>3, <1>5, <1>6, <1>7, SaveUntoldKeeps

\* FiSH11_GenKey.
LEMMA GenKeyKeeps == ASSUME CliInv, NEW p \in Procs, GenKey(p) PROVE CliInv'
<1> DEFINE name == Target(call[p])
           net == ResolveFull(p, name, Given(call[p]))
<1>1. at[p] = "call" /\ call[p].function = "GenKey" BY DEF GenKey, Calling
<1>2. CASE \E key \in Keys : Store(p, name, net, key)
    <2> HIDE DEF name, net
    <2> QED BY <1>1, <1>2, StoreKeeps
<1>3. CASE Save(p, memory[p]) /\ Untold(p, NoKey) /\ Answers(p, Failed)
    <2>1. IsConfig(memory[p]) BY DEF CliInv, CliShape
    <2>2. AnswersOnly(p) BY <1>3, AnswersTouch
    <2> QED BY <1>1, <1>3, <2>1, <2>2, SaveUntoldKeeps DEF AnswersOnly
<1> QED BY <1>2, <1>3 DEF GenKey

\* FiSH11_SetKey and FiSH11_SetKeyFromPlaintext.
LEMMA SetGivenKeeps ==
    ASSUME CliInv, NEW p \in Procs, NEW function, NEW lengths,
           function = "SetKey" => lengths = {3}, SetGiven(p, function, lengths)
    PROVE  CliInv'
<1> DEFINE ps == call[p].params
           name == Target(call[p])
           net == ResolveFull(p, name, Given(call[p]))
<1>1. at[p] = "call" /\ call[p].function = function BY DEF SetGiven, Calling
<1>2. CASE Len(ps) \in lengths /\ ps[Len(ps)] \in Keys /\ Store(p, name, net, ps[Len(ps)])
    <2>1. ASSUME function = "SetKey"
          PROVE  Len(ps) = 3 /\ name = ps[2] /\ net = ps[1]
        <3>1. Len(ps) = 3 BY <1>2, <2>1
        <3>2. name = ps[2] /\ Given(call[p]) = ps[1] BY <1>1, <2>1, <3>1 DEF Target, Given
        <3>3. ps[1] # NoNet
            BY <1>1, <2>1, <3>1, CommandLineAssumption DEF CliInv, CallsTyped, CallTyped, ParamsTyped
        <3> QED BY <3>1, <3>2, <3>3 DEF ResolveFull, Orelse
    <2>2. function = "SetKey" => ps[Len(ps)] = ps[3] BY <2>1
    <2> HIDE DEF name, net
    <2> QED BY <1>1, <1>2, <2>1, <2>2, StoreKeeps
<1>3. CASE Reply(p, Failed) BY <1>1, <1>3, ReplyKeeps
<1> QED BY <1>2, <1>3 DEF SetGiven

\* set_key, the mapping.
LEMMA SetMappingKeeps == ASSUME CliInv, NEW p \in Procs, SetMapping(p) PROVE CliInv'
<1> DEFINE name == Target(call[p])
           net == Orelse(Given(call[p]), Orelse(current[p], DefaultNet))
           c == [memory[p] EXCEPT !.nets[name] = net]
           toDefault == inStep'[p] /\ call[p].function = "SetKey" /\ net = DefaultNet
           keysTold == [n \in Nicks |->
               IF n = name /\ toDefault THEN call[p].params[3]
               ELSE IF Kept(p) THEN told[dir[p]][n] ELSE NoKey]
<1>1. at[p] = "map" /\ Save(p, c) /\ AnswersOnly(p) BY AnswersTouch DEF SetMapping
<1>2. dir[p] \in Dirs /\ told[dir[p]] \in [Nicks -> Keys \cup {NoKey}] BY DEF CliInv, CliShape
<1>3. told' = [told EXCEPT ![dir[p]] = keysTold] BY <1>2 DEF SetMapping, CliInv, CliShape
<1>4. IsConfig(memory[p]) BY DEF CliInv, CliShape
<1>5. IsConfig(c) /\ c.keys = memory[p].keys
    <2> HIDE DEF name, net
    <2> QED BY <1>4, WithMapping
<1>6. ASSUME NEW n \in Nicks, n = name, toDefault
      PROVE  memory[p].keys[<<n, DefaultNet>>] = call[p].params[3]
    <2>1. Len(call[p].params) = 3 BY <1>1, <1>6 DEF CliInv, MappedIsStored
    <2>2. name = call[p].params[2] /\ Given(call[p]) = call[p].params[1]
        BY <1>6, <2>1 DEF Target, Given
    <2>3. call[p].params[1] # NoNet
        BY <1>6, <2>1, CommandLineAssumption DEF CliInv, CallsTyped, CallTyped, ParamsTyped
    <2>4. call[p].params[1] = DefaultNet BY <1>6, <2>2, <2>3 DEF Orelse
    <2> QED BY <1>1, <1>6, <2>2, <2>4 DEF CliInv, MappedIsStored
<1>7. \A n \in Nicks : <<n, DefaultNet>> \in Slots BY CommandLineAssumption DEF Slots, Names
<1> HIDE DEF c, name, toDefault
<1>8. keysTold \in [Nicks -> Keys \cup {NoKey}]
    <2>1. \A n \in Nicks : memory[p].keys[<<n, DefaultNet>>] \in Keys \cup {NoKey}
        BY <1>4, <1>7 DEF IsConfig
    <2>2. \A n \in Nicks : n = name /\ toDefault => call[p].params[3] \in Keys \cup {NoKey}
        BY <1>6, <2>1
    <2> QED BY <1>2, <2>2
<1>9. ASSUME NEW n \in Nicks, keysTold[n] # NoKey
      PROVE  file'[dir[p]].keys[<<n, DefaultNet>>] = keysTold[n]
    <2>1. CASE n = name /\ toDefault
        <3>1. PICK f : SavedAs(p, c, f)
            BY <1>1, <1>5, SavedFile
        <3>2. f = c BY <2>1, <3>1 DEF toDefault, SavedAs
        <3>3. file'[dir[p]] = c BY <1>2, <3>1, <3>2 DEF SavedAs, CliInv, CliShape
        <3> QED BY <1>5, <1>6, <2>1, <3>3
    <2>2. CASE ~(n = name /\ toDefault)
        <3>1. Kept(p) /\ keysTold[n] = told[dir[p]][n] BY <1>9, <2>2
        <3> HIDE DEF keysTold
        <3> QED BY <1>1, <1>5, <1>9, <3>1, KeptKeys
    <2> QED BY <2>1, <2>2
<1> HIDE DEF keysTold
<1>10. Touches(told, told', dir[p]) /\ told'[dir[p]] = keysTold
    BY <1>2, <1>3 DEF Touches, CliInv, CliShape
<1> QED BY <1>1, <1>5, <1>8, <1>9, <1>10, SaveKeeps DEF AnswersOnly

\* FiSH11_FileDelKey.
LEMMA FileDelKeyKeeps == ASSUME CliInv, NEW p \in Procs, FileDelKey(p) PROVE CliInv'
<1> DEFINE ps == call[p].params
           name == ps[Len(ps)]
           net == IF Len(ps) = 2 THEN ps[1] ELSE DefaultNet
           c == [memory[p] EXCEPT !.keys[<<name, net>>] = NoKey]
<1>1. at[p] = "call" /\ Save(p, c) /\ Untold(p, name) /\ AnswersOnly(p)
    BY AnswersTouch DEF FileDelKey, Calling
<1>2. IsConfig(memory[p]) BY DEF CliInv, CliShape
<1> HIDE DEF name, net
<1>3. /\ IsConfig(c)
      /\ \A s \in Slots : c.keys[s] = IF s = <<name, net>> THEN NoKey ELSE memory[p].keys[s]
    BY <1>2, WithEntry
<1> HIDE DEF c
<1>4. \A n \in Nicks : <<n, DefaultNet>> \in Slots BY CommandLineAssumption DEF Slots, Names
<1>5. \A n \in Nicks \ {name} :
          c.keys[<<n, DefaultNet>>] = memory[p].keys[<<n, DefaultNet>>]
    BY <1>3, <1>4
<1> QED BY <1>1, <1>3, <1>5, SaveUntoldKeeps DEF AnswersOnly

\* INI_SetString and INI_SetInt.
LEMMA IniSetKeeps == ASSUME CliInv, NEW p \in Procs, NEW function, IniSet(p, function) PROVE CliInv'
<1>1. at[p] = "call" BY DEF IniSet, Calling
<1>2. CASE Reply(p, Failed) BY <1>1, <1>2, ReplyKeeps
<1>3. ASSUME NEW settings, Update(p, settings) PROVE CliInv'
    <2> DEFINE c == [memory[p] EXCEPT !.fish11 = settings]
    <2>1. Save(p, c) /\ Untold(p, NoKey) /\ AnswersOnly(p)
        BY <1>3, AnswersTouch DEF Update
    <2>2. IsConfig(memory[p]) BY DEF CliInv, CliShape
    <2>3. IsConfig(c) /\ c.keys = memory[p].keys BY <2>2, WithSettings
    <2> HIDE DEF c
    <2> QED BY <1>1, <2>1, <2>3, SaveUntoldKeeps DEF AnswersOnly
<1> QED BY <1>2, <1>3 DEF IniSet

-----------------------------------------------------------------------------
(* What CommandLine promises.                                               *)

\* A call that only reads, or changes nothing of the configuration.
LEMMA ReadingKeeps ==
    ASSUME CliInv, NEW p \in Procs,
           \/ FileGetKey(p) \/ FileListKeys(p) \/ FileListKeysItem(p) \/ GetConfigPath(p)
           \/ \E f \in {"INI_GetString", "INI_GetInt"} : IniGet(p, f)
    PROVE  CliInv'
<1>1. at[p] = "call"
    BY DEF FileGetKey, FileListKeys, FileListKeysItem, GetConfigPath, IniGet, Calling
<1>2. \E text : Reply(p, text)
    BY DEF FileGetKey, FileListKeys, FileListKeysItem, GetConfigPath, IniGet
<1> QED BY <1>1, <1>2, ReplyKeeps

\* FiSH11_SetNetwork.
LEMMA SetNetworkKeeps == ASSUME CliInv, NEW p \in Procs, SetNetwork(p) PROVE CliInv'
<1>1. /\ at[p] = "call" /\ at' = [at EXCEPT ![p] = "answer"]
      /\ UNCHANGED <<file, memory, dir, call, next, inStep, told>>
    BY DEF SetNetwork, Calling, ghosts
<1>2. Touches(answer, answer', p) BY DEF SetNetwork, Touches, CliInv, CliShape
<1>3. /\ Touches(at, at', p) /\ Touches(memory, memory', p) /\ Touches(dir, dir', p)
      /\ Touches(call, call', p) /\ Touches(next, next', p) /\ Touches(inStep, inStep', p)
      /\ at'[p] = "answer"
    BY <1>1 DEF Touches, CliInv, CliShape
<1>4. /\ IsConfig(memory'[p]) /\ dir'[p] \in Dirs /\ CallTyped(call'[p])
      /\ next'[p] \in {"none", "FileGetKey"} /\ inStep'[p] \in BOOLEAN
    BY <1>1 DEF CliInv, CliShape, CallsTyped
<1>5. inStep'[p] => SameKeys(memory'[p], file[dir'[p]]) BY <1>1 DEF CliInv, InStepAgrees
<1> QED BY <1>1, <1>2, <1>3, <1>4, <1>5, NothingSaved

\* FiSH11_SetMircDir: whoever comes to another directory has not read its file.
LEMMA SetMircDirKeeps == ASSUME CliInv, NEW p \in Procs, SetMircDir(p) PROVE CliInv'
<1> DEFINE d == IF call[p].params = <<>> THEN dir[p] ELSE call[p].params[1]
<1>1. /\ at[p] = "call" /\ call[p].function = "SetMircDir"
      /\ at' = [at EXCEPT ![p] = "answer"] /\ dir' = [dir EXCEPT ![p] = d]
      /\ inStep' = [inStep EXCEPT ![p] = inStep[p] /\ dir'[p] = dir[p]]
      /\ UNCHANGED <<file, memory, call, next, told>>
    BY DEF SetMircDir, Calling
<1>2. Touches(answer, answer', p) BY DEF SetMircDir, Touches, CliInv, CliShape
<1>3. d \in Dirs BY <1>1 DEF CliInv, CliShape, CallsTyped, CallTyped, ParamsTyped
<1> HIDE DEF d
<1>4. /\ Touches(at, at', p) /\ Touches(memory, memory', p) /\ Touches(dir, dir', p)
      /\ Touches(call, call', p) /\ Touches(next, next', p) /\ Touches(inStep, inStep', p)
      /\ at'[p] = "answer" /\ dir'[p] = d
    BY <1>1 DEF Touches, CliInv, CliShape
<1>5. inStep'[p] \in BOOLEAN /\ (inStep'[p] => inStep[p] /\ dir'[p] = dir[p])
    BY <1>1 DEF CliInv, CliShape
<1>6. /\ IsConfig(memory'[p]) /\ CallTyped(call'[p]) /\ next'[p] \in {"none", "FileGetKey"}
    BY <1>1 DEF CliInv, CliShape, CallsTyped
<1>7. inStep'[p] => SameKeys(memory'[p], file[dir'[p]])
    BY <1>1, <1>5 DEF CliInv, InStepAgrees
<1> QED BY <1>1, <1>2, <1>3, <1>4, <1>5, <1>6, <1>7, NothingSaved

\* mIRC loads the library.
LEMMA HostLoadKeeps == ASSUME CliInv, HostLoad PROVE CliInv'
<1>1. /\ at' = [at EXCEPT ![Host] = "ready"] /\ ReadConfig(Host, dir[Host])
      /\ UNCHANGED <<file, dir, call, next, answer, told>>
    BY DEF HostLoad
<1>2. Host \in Procs /\ dir[Host] \in Dirs BY DEF Procs, CliInv, CliShape
<1>3. /\ Touches(memory, memory', Host) /\ Touches(inStep, inStep', Host)
      /\ IsConfig(memory'[Host]) /\ inStep'[Host] \in BOOLEAN
      /\ inStep'[Host] => SameKeys(memory'[Host], file[dir[Host]])
    BY <1>1, <1>2, ReadConfigKeys
<1>4. /\ Touches(at, at', Host) /\ Touches(dir, dir', Host)
      /\ Touches(call, call', Host) /\ Touches(next, next', Host)
      /\ Touches(answer, answer', Host)
    BY <1>1, <1>2 DEF Touches, CliInv, CliShape
<1>5. dir'[Host] = dir[Host] /\ at'[Host] = "ready"
    BY <1>1, <1>2 DEF CliInv, CliShape
<1>6. CallTyped(call'[Host]) /\ next'[Host] \in {"none", "FileGetKey"}
    BY <1>1, <1>2 DEF CliInv, CliShape, CallsTyped
<1> QED BY <1>1, <1>2, <1>3, <1>4, <1>5, <1>6, NothingSaved

\* A call of mIRC, its return, and the second call of genkey.
LEMMA CallKeeps ==
    ASSUME CliInv,
           \/ \E r \in HostRequests : HostCall(r)
           \/ HostReturn
           \/ \E p \in Procs : AskForKey(p)
    PROVE  CliInv'
<1>1. Host \in Procs BY DEF Procs
<1>2. ASSUME NEW r \in HostRequests, HostCall(r) PROVE CliInv'
    <2> DEFINE c == [function |-> r.function, params |-> r.params]
    <2>1. /\ at[Host] = "ready" /\ at' = [at EXCEPT ![Host] = "call"]
          /\ call' = [call EXCEPT ![Host] = c]
          /\ UNCHANGED <<file, memory, dir, next, answer, inStep, told>>
        BY <1>2 DEF HostCall, Enter, ghosts
    <2>2. CallTyped(c) BY RequestAssumption DEF CallTyped
    <2> HIDE DEF c
    <2>3. /\ Touches(at, at', Host) /\ at'[Host] = "call"
          /\ Touches(call, call', Host) /\ call'[Host] = c
          /\ Touches(next, next', Host) /\ next'[Host] \in {"none", "FileGetKey"}
          /\ Touches(answer, answer', Host)
        BY <1>1, <2>1 DEF Touches, CliInv, CliShape
    <2> QED BY <1>1, <2>1, <2>2, <2>3, EnterKeeps
<1>3. CASE HostReturn
    <2>1. /\ at[Host] = "answer" /\ at' = [at EXCEPT ![Host] = "ready"]
          /\ call' = [call EXCEPT ![Host] = NoCall]
          /\ answer' = [answer EXCEPT ![Host] = NoAnswer]
          /\ UNCHANGED <<file, memory, dir, next, inStep, told>>
        BY <1>3 DEF HostReturn, ghosts
    <2>2. CallTyped(NoCall) BY DEF CallTyped, ParamsTyped, NoCall
    <2>3. /\ Touches(at, at', Host) /\ at'[Host] = "ready"
          /\ Touches(call, call', Host) /\ call'[Host] = NoCall
          /\ Touches(next, next', Host) /\ next'[Host] \in {"none", "FileGetKey"}
          /\ Touches(answer, answer', Host)
        BY <1>1, <2>1 DEF Touches, CliInv, CliShape
    <2> QED BY <1>1, <2>1, <2>2, <2>3, EnterKeeps
<1>4. ASSUME NEW p \in Procs, AskForKey(p) PROVE CliInv'
    <2> DEFINE c == [function |-> next[p], params |-> <<call[p].params[1]>>]
    <2>1. /\ at[p] = "answer" /\ next[p] # "none" /\ at' = [at EXCEPT ![p] = "call"]
          /\ call' = [call EXCEPT ![p] = c]
          /\ next' = [next EXCEPT ![p] = "none"] /\ answer' = [answer EXCEPT ![p] = NoAnswer]
          /\ UNCHANGED <<file, memory, dir, inStep, told>>
        BY <1>4 DEF AskForKey, Enter, ghosts
    <2>2. CallTyped(c)
        <3>1. next[p] = "FileGetKey" BY <2>1 DEF CliInv, CliShape
        <3> QED BY <3>1 DEF CallTyped, ParamsTyped
    <2> HIDE DEF c
    <2>3. /\ Touches(at, at', p) /\ at'[p] = "call"
          /\ Touches(call, call', p) /\ call'[p] = c
          /\ Touches(next, next', p) /\ next'[p] \in {"none", "FileGetKey"}
          /\ Touches(answer, answer', p)
        BY <2>1 DEF Touches, CliInv, CliShape
    <2> QED BY <2>1, <2>2, <2>3, EnterKeeps
<1> QED BY <1>2, <1>3, <1>4

\* Every reachable state satisfies the inductive invariant, whatever the processes
\* are told to do and wherever they are interrupted.
THEOREM CliInvariant == CliSpec => []CliInv
<1>1. CliInit => CliInv
    <2> SUFFICES ASSUME CliInit PROVE CliInv OBVIOUS
    <2> USE DEF CliInit
    <2>1. IsConfig(Empty) BY DEF IsConfig, Empty
    <2>2. \A c \in Saved : IsConfig(c) BY SavedAssumption DEF Config, IsConfig
    <2>3. CliShape BY <2>1, <2>2, CommandLineAssumption DEF CliShape
    <2>4. CallsTyped BY DEF CallsTyped, CallTyped, ParamsTyped, NoCall
    <2>5. InStepAgrees /\ ToldIsStored /\ MappedIsStored
        BY DEF InStepAgrees, ToldIsStored, MappedIsStored
    <2> QED BY <2>3, <2>4, <2>5 DEF CliInv
<1>2. CliInv /\ [CliNext]_cliVars => CliInv'
    <2> SUFFICES ASSUME CliInv, [CliNext]_cliVars PROVE CliInv' OBVIOUS
    <2>1. ASSUME NEW p \in Runs, NEW r \in Requests, NEW d \in RunDirs, Invoke(p, r, d)
          PROVE  CliInv'
        BY <2>1, InvokeKeeps
    <2>2. CASE HostLoad BY <2>2, HostLoadKeeps
    <2>3. CASE HostUnload
        <3>1. Host \in Procs BY DEF Procs
        <3> QED BY <2>3, <3>1, OffKeeps DEF HostUnload
    <2>4. CASE \/ HostReturn
               \/ \E r \in HostRequests : HostCall(r)
               \/ \E p \in Procs : AskForKey(p)
        BY <2>4, CallKeeps
    <2>5. ASSUME NEW p \in Procs, Return(p) \/ End(p) PROVE CliInv'
        BY <2>5, OffKeeps DEF Return, End
    <2>6. ASSUME NEW p \in Procs, GenKey(p) PROVE CliInv' BY <2>6, GenKeyKeeps
    <2>7. ASSUME NEW p \in Procs, SetKey(p) PROVE CliInv'
        BY <2>7, SetGivenKeeps DEF SetKey
    <2>8. ASSUME NEW p \in Procs, SetKeyFromPlaintext(p) PROVE CliInv'
        BY <2>8, SetGivenKeeps DEF SetKeyFromPlaintext
    <2>9. ASSUME NEW p \in Procs, SetMapping(p) PROVE CliInv' BY <2>9, SetMappingKeeps
    <2>10. ASSUME NEW p \in Procs, FileDelKey(p) PROVE CliInv' BY <2>10, FileDelKeyKeeps
    <2>11. ASSUME NEW p \in Procs,
                  \/ FileGetKey(p) \/ FileListKeys(p) \/ FileListKeysItem(p) \/ GetConfigPath(p)
                  \/ \E f \in {"INI_GetString", "INI_GetInt"} : IniGet(p, f)
           PROVE  CliInv'
        BY <2>11, ReadingKeeps
    <2>12. ASSUME NEW p \in Procs, SetNetwork(p) PROVE CliInv' BY <2>12, SetNetworkKeeps
    <2>13. ASSUME NEW p \in Procs, SetMircDir(p) PROVE CliInv' BY <2>13, SetMircDirKeeps
    <2>14. ASSUME NEW p \in Procs, NEW f \in {"INI_SetString", "INI_SetInt"}, IniSet(p, f)
           PROVE  CliInv'
        BY <2>14, IniSetKeeps
    <2>15. CASE UNCHANGED cliVars
        <3>1. UNCHANGED <<file, memory, at, dir, call, next, answer, inStep, told>>
            BY <2>15 DEF cliVars, process, ghosts
        <3>2. CliShape' BY <3>1 DEF CliInv, CliShape, IsConfig
        <3>3. CallsTyped' BY <3>1 DEF CliInv, CallsTyped, CallTyped, ParamsTyped
        <3>4. InStepAgrees' BY <3>1 DEF CliInv, InStepAgrees, SameKeys
        <3>5. ToldIsStored' /\ MappedIsStored'
            BY <3>1 DEF CliInv, ToldIsStored, MappedIsStored
        <3> QED BY <3>2, <3>3, <3>4, <3>5 DEF CliInv
    <2> QED BY <2>1, <2>2, <2>3, <2>4, <2>5, <2>6, <2>7, <2>8, <2>9, <2>10, <2>11, <2>12,
               <2>13, <2>14, <2>15
            DEF CliNext
<1> QED BY <1>1, <1>2, PTL DEF CliSpec

\* FiSH11_GenKey replaces no key of a nickname in the file, whether or not its save
\* fails, if the process has read the whole file, no other one has changed it since
\* and none is saving there; for any number of processes, directories and networks.
THEOREM GenerateKeepsKeysHolds == CliSpec => GenerateKeepsKeys
<1>1. ASSUME CliInv, NEW p \in Procs, NEW n \in Nicks, NEW net \in Networks, GenKey(p),
             inStep[p], AlsoSaving(p) = {}, file[dir[p]].keys[<<n, net>>] # NoKey
      PROVE  file'[dir[p]].keys[<<n, net>>] = file[dir[p]].keys[<<n, net>>]
    <2> DEFINE name == Target(call[p])
               to == ResolveFull(p, name, Given(call[p]))
    <2>1. at[p] = "call" /\ dir[p] \in Dirs /\ IsConfig(memory[p])
        BY <1>1 DEF GenKey, Calling, CliInv, CliShape
    <2>2. memory[p].keys[<<n, net>>] = file[dir[p]].keys[<<n, net>>]
        BY <1>1, <2>1 DEF CliInv, InStepAgrees, SameKeys
    <2>3. ASSUME NEW c, IsConfig(c), Save(p, c), c.keys[<<n, net>>] = memory[p].keys[<<n, net>>]
          PROVE  file'[dir[p]].keys[<<n, net>>] = file[dir[p]].keys[<<n, net>>]
        <3>1. PICK f : f \in {c, file[dir[p]]} /\ SavedAs(p, c, f) BY <1>1, <2>3, SavedFile
        <3>2. file'[dir[p]] = f BY <1>1, <2>1, <3>1 DEF SavedAs, CliInv, CliShape
        <3> QED BY <2>2, <2>3, <3>1, <3>2
    <2>4. CASE /\ memory[p].keys[<<name, to>>] = NoKey
               /\ \E key \in Keys : Store(p, name, to, key)
        <3> HIDE DEF name, to
        <3>1. PICK key \in Keys : Store(p, name, to, key) BY <2>4
        <3> DEFINE c == [memory[p] EXCEPT !.keys[<<name, to>>] = key]
        <3>2. Save(p, c) BY <3>1 DEF Store
        <3>3. /\ IsConfig(c)
              /\ \A s \in Slots : c.keys[s] = IF s = <<name, to>> THEN key ELSE memory[p].keys[s]
            BY <2>1, WithEntry
        <3> HIDE DEF c
        <3>4. <<n, net>> \in Slots /\ <<n, net>> # <<name, to>>
            BY <1>1, <2>2, <2>4 DEF Slots, Names
        <3> QED BY <2>3, <3>2, <3>3, <3>4
    <2>5. CASE Save(p, memory[p]) BY <2>1, <2>3, <2>5
    <2> QED BY <1>1, <2>4, <2>5 DEF GenKey
<1>2. CliInv /\ [CliNext]_cliVars =>
          [\A p \in Procs, n \in Nicks, net \in Networks :
              GenKey(p) /\ inStep[p] /\ AlsoSaving(p) = {} /\ file[dir[p]].keys[<<n, net>>] # NoKey
              => file'[dir[p]].keys[<<n, net>>] = file[dir[p]].keys[<<n, net>>]]_cliVars
    BY <1>1
<1> QED BY <1>2, CliInvariant, PTL DEF CliSpec, GenerateKeepsKeys

\* The key that SetKey left for a nickname on "default" is the one FiSH11_FileGetKey
\* tells, in whatever process has read the whole file since or saved it, whatever
\* was done to other names, whichever saves failed, and wherever runs were
\* interrupted.
THEOREM ToldKeyIsKeptHolds == CliSpec => ToldKeyIsKept
<1>1. ASSUME CliInv, NEW p \in Procs, NEW n \in Nicks, n = call[p].params[1],
             FileGetKey(p), inStep[p], told[dir[p]][n] # NoKey
      PROVE  answer'[p] = KeyText(told[dir[p]][n])
    <2>1. at[p] = "call" /\ dir[p] \in Dirs
        BY <1>1 DEF FileGetKey, Calling, CliInv, CliShape
    <2>2. file[dir[p]].keys[<<n, DefaultNet>>] = told[dir[p]][n]
        BY <1>1, <2>1 DEF CliInv, ToldIsStored
    <2>3. memory[p].keys[<<n, DefaultNet>>] = told[dir[p]][n]
        BY <1>1, <2>1, <2>2, CommandLineAssumption DEF CliInv, InStepAgrees, SameKeys
    <2>4. Found(memory[p], n) = {KeyText(told[dir[p]][n])}
        <3> DEFINE others == {w \in Networks : memory[p].keys[<<n, w>>] # NoKey}
        <3>1. n \notin Channels BY CommandLineAssumption
        <3>2. DefaultNet \in others BY <1>1, <2>3, CommandLineAssumption
        <3>3. others # {} BY <3>2
        <3> QED BY <1>1, <2>3, <3>1, <3>3 DEF Found
    <2>5. answer' = [answer EXCEPT ![p] = KeyText(told[dir[p]][n])]
        BY <1>1, <2>4 DEF FileGetKey, Reply, Answers
    <2> QED BY <1>1, <2>5 DEF CliInv, CliShape
<1>2. CliInv /\ [CliNext]_cliVars =>
          [\A p \in Procs : LET n == call[p].params[1] IN
              FileGetKey(p) /\ inStep[p] /\ n \in Nicks /\ told[dir[p]][n] # NoKey
              => answer'[p] = KeyText(told[dir[p]][n])]_cliVars
    BY <1>1
<1> QED BY <1>2, CliInvariant, PTL DEF CliSpec, ToldKeyIsKept

-----------------------------------------------------------------------------
(* CommandLine: the types.                                                  *)

Places == {"off", "ready", "call", "map", "answer"}
Answered == {"none", "done", "error", "key", "list", "item", "value"}
KeyCalls == {"GenKey", "SetKey", "SetKeyFromPlaintext"}

\* Only a call that sets a key has a mapping to write.
MapIsOfKey == \A p \in Procs : at[p] = "map" => call[p].function \in KeyCalls

CliTypes == CliTypeOK /\ MapIsOfKey

\* A configuration is its keys, its mappings and its settings.
LEMMA ConfigParts ==
    ASSUME NEW c
    PROVE  c \in Config <=>
               /\ IsConfig(c)
               /\ c.nets \in [Names -> Networks \cup {NoNet}]
               /\ c.fish11 \in Settings
BY DEF Config, IsConfig

\* Some entries and mappings of a configuration.
LEMMA OnlyTyped ==
    ASSUME NEW c \in Config, NEW slots, NEW names
    PROVE  Only(c, slots, names) \in Config
<1> DEFINE e == Only(c, slots, names)
<1>1. IsConfig(c) /\ c.nets \in [Names -> Networks \cup {NoNet}] /\ c.fish11 \in Settings
    BY ConfigParts
<1>2. IsConfig(e) /\ e.fish11 = c.fish11 /\ e.nets \in [Names -> Networks \cup {NoNet}]
    BY <1>1, OnlyParts
<1> HIDE DEF e
<1>3. e \in Config BY <1>1, <1>2, ConfigParts
<1> QED BY <1>3 DEF e

\* What is read from a file, and what a process without one starts with.
LEMMA LoadedTyped ==
    Empty \in Config /\ \A c \in Config : Loaded(c) \subseteq Config
<1>1. Empty \in Config
    <2> DEFINE settings == [s \in {MarkText, MarkPosition} |->
                                IF s = MarkText THEN DefaultText ELSE 1]
    <2>1. settings \in Settings BY CommandLineAssumption DEF Settings
    <2>2. Empty.fish11 = settings BY DEF Empty
    <2> HIDE DEF settings
    <2>3. IsConfig(Empty) /\ Empty.nets \in [Names -> Networks \cup {NoNet}]
        BY DEF Empty, IsConfig
    <2> QED BY <2>1, <2>2, <2>3, ConfigParts
<1>2. ASSUME NEW c \in Config, NEW m \in Loaded(c) PROVE m \in Config
    <2>1. PICK slots, names : m = Only(c, slots, names) BY DEF Loaded
    <2> QED BY <2>1, OnlyTyped
<1> QED BY <1>1, <1>2

\* What a save that was torn leaves.
LEMMA MixedTyped ==
    ASSUME CliTypeOK, NEW p \in Procs, NEW c \in Config
    PROVE  Mixed(p, c) \subseteq Config
<1> SUFFICES ASSUME NEW f \in Mixed(p, c), f # Empty PROVE f \in Config BY LoadedTyped
<1>1. PICK m \in {c} \cup {memory[q] : q \in AlsoSaving(p)} :
          \E slots : f = Only(m, slots, Names)
    BY DEF Mixed
<1>2. m \in Config BY <1>1 DEF AlsoSaving, CliTypeOK
<1> QED BY <1>1, <1>2, OnlyTyped

\* A step of p, which saves what it leaves in memory or touches no file.
LEMMA TypesStep ==
    ASSUME CliInv, CliInv', CliTypeOK, NEW p \in Procs,
           \/ file' = file /\ Touches(memory, memory', p) /\ memory'[p] \in Config
           \/ \E c \in Config : Save(p, c),
           Touches(at, at', p), at'[p] \in Places,
           Touches(current, current', p), current'[p] \in Networks \cup {NoNet},
           Touches(call, call', p), DOMAIN call'[p] = {"function", "params"},
           Touches(answer, answer', p), answer'[p].is \in Answered,
           calls' \in 0..MaxCalls
    PROVE  CliTypeOK'
<1> USE DEF CliTypeOK, Touches
<1>1. dir[p] \in Dirs OBVIOUS
<1>2. file' \in [Dirs -> Config] /\ memory' \in [Procs -> Config]
    <2>1. CASE file' = file /\ Touches(memory, memory', p) /\ memory'[p] \in Config
        BY <2>1
    <2>2. ASSUME NEW c \in Config, Save(p, c)
          PROVE  file' \in [Dirs -> Config] /\ memory' \in [Procs -> Config]
        <3>1. PICK f \in {c, file[dir[p]]} \cup Mixed(p, c) :
                  file' = [file EXCEPT ![dir[p]] = f] /\ memory' = [memory EXCEPT ![p] = c]
            BY <2>2 DEF Save
        <3>2. Mixed(p, c) \subseteq Config BY <2>2, MixedTyped
        <3>3. f \in Config BY <1>1, <2>2, <3>1, <3>2
        <3> QED BY <1>1, <2>2, <3>1, <3>3
    <2> QED BY <2>1, <2>2
<1>3. at' \in [Procs -> Places] BY DEF Places
<1>4. current' \in [Procs -> Networks \cup {NoNet}] OBVIOUS
<1>5. \A q \in Procs : DOMAIN call'[q] = {"function", "params"} BY DEF CliInv, CliShape
<1>6. \A q \in Procs : answer'[q].is \in Answered BY DEF CliInv, CliShape, Answered
<1>7. /\ dir' \in [Procs -> Dirs] /\ next' \in [Procs -> {"none", "FileGetKey"}]
      /\ inStep' \in [Procs -> BOOLEAN] /\ told' \in [Dirs -> [Nicks -> Keys \cup {NoKey}]]
    BY DEF CliInv, CliShape
<1> QED BY <1>2, <1>3, <1>4, <1>5, <1>6, <1>7 DEF Places, Answered

\* What a call writes into memory is a configuration again.
LEMMA WrittenTyped ==
    ASSUME NEW c \in Config
    PROVE  /\ \A s : \A key \in Keys \cup {NoKey} : [c EXCEPT !.keys[s] = key] \in Config
           /\ \A name : \A net \in Networks \cup {NoNet} :
                  [c EXCEPT !.nets[name] = net] \in Config
           /\ \A settings \in Settings : [c EXCEPT !.fish11 = settings] \in Config
<1>1. IsConfig(c) /\ c.nets \in [Names -> Networks \cup {NoNet}] /\ c.fish11 \in Settings
    BY ConfigParts
<1>2. ASSUME NEW s, NEW key \in Keys \cup {NoKey} PROVE [c EXCEPT !.keys[s] = key] \in Config
    <2> DEFINE e == [c EXCEPT !.keys[s] = key]
    <2>1. IsConfig(e) BY <1>1, WithEntry
    <2>2. e.nets = c.nets /\ e.fish11 = c.fish11 BY <1>1 DEF IsConfig
    <2> HIDE DEF e
    <2>3. e \in Config BY <1>1, <2>1, <2>2, ConfigParts
    <2> QED BY <2>3 DEF e
<1>3. ASSUME NEW name, NEW net \in Networks \cup {NoNet}
      PROVE  [c EXCEPT !.nets[name] = net] \in Config
    <2> DEFINE e == [c EXCEPT !.nets[name] = net]
    <2>1. IsConfig(e) BY <1>1, WithMapping
    <2>2. e.nets = [c.nets EXCEPT ![name] = net] /\ e.fish11 = c.fish11 BY <1>1 DEF IsConfig
    <2> HIDE DEF e
    <2>3. e.nets \in [Names -> Networks \cup {NoNet}] BY <1>1, <2>2
    <2>4. e \in Config BY <1>1, <2>1, <2>2, <2>3, ConfigParts
    <2> QED BY <2>4 DEF e
<1>4. ASSUME NEW settings \in Settings PROVE [c EXCEPT !.fish11 = settings] \in Config
    <2> DEFINE e == [c EXCEPT !.fish11 = settings]
    <2>1. IsConfig(e) BY <1>1, WithSettings
    <2>2. e.nets = c.nets /\ e.fish11 = settings BY <1>1 DEF IsConfig
    <2> HIDE DEF e
    <2>3. e \in Config BY <1>1, <2>1, <2>2, ConfigParts
    <2> QED BY <2>3 DEF e
<1> QED BY <1>2, <1>3, <1>4

\* A call that answers without a save.
LEMMA ReplyTyped ==
    ASSUME CliInv, CliInv', CliTypeOK, NEW p \in Procs, NEW text, Reply(p, text),
           text.is \in Answered
    PROVE  CliTypeOK'
<1>1. /\ at' = [at EXCEPT ![p] = "answer"] /\ answer' = [answer EXCEPT ![p] = text]
      /\ UNCHANGED <<file, memory, current, call, calls>>
    BY DEF Reply, Answers
<1>2. /\ Touches(at, at', p) /\ at'[p] = "answer" /\ Touches(answer, answer', p)
      /\ answer'[p] = text /\ Touches(memory, memory', p) /\ Touches(call, call', p)
    BY <1>1 DEF Touches, CliInv, CliShape
<1>3. /\ memory'[p] \in Config /\ current'[p] \in Networks \cup {NoNet}
      /\ DOMAIN call'[p] = {"function", "params"} /\ calls' \in 0..MaxCalls
      /\ Touches(current, current', p)
    BY <1>1 DEF CliTypeOK, Touches
<1> QED BY <1>1, <1>2, <1>3, TypesStep DEF Places

\* A call that saves, and answers or goes on to the mapping.
LEMMA SaveTyped ==
    ASSUME CliInv, CliInv', CliTypeOK, NEW p \in Procs, NEW c \in Config, Save(p, c),
           at' = [at EXCEPT ![p] = "map"] \/ at' = [at EXCEPT ![p] = "answer"],
           answer' = answer \/ \E text \in {Done, Failed} : answer' = [answer EXCEPT ![p] = text],
           UNCHANGED <<current, call, calls>>
    PROVE  CliTypeOK'
<1>1. /\ Touches(at, at', p) /\ at'[p] \in Places
    BY DEF Touches, CliInv, CliShape, Places
<1>2. Touches(answer, answer', p) /\ answer'[p].is \in Answered
    BY DEF Touches, CliInv, CliShape, CliTypeOK, Done, Failed, Answered
<1>3. /\ Touches(current, current', p) /\ Touches(call, call', p)
      /\ current'[p] \in Networks \cup {NoNet}
      /\ DOMAIN call'[p] = {"function", "params"} /\ calls' \in 0..MaxCalls
    BY DEF Touches, CliInv, CliShape, CliTypeOK
<1> QED BY <1>1, <1>2, <1>3, TypesStep

\* The text of an answer that was only read.
LEMMA ReadingTyped ==
    ASSUME CliInv, CliInv', CliTypeOK, NEW p \in Procs,
           \/ FileGetKey(p) \/ FileListKeys(p) \/ FileListKeysItem(p) \/ GetConfigPath(p)
           \/ \E f \in {"INI_GetString", "INI_GetInt"} : IniGet(p, f)
    PROVE  CliTypeOK'
<1>1. Failed.is \in Answered /\ Done.is \in Answered BY DEF Failed, Done, Answered
<1>2. CASE FileGetKey(p)
    <2>1. PICK text \in Found(memory[p], call[p].params[1]) : Reply(p, text)
        BY <1>2 DEF FileGetKey
    <2>2. Failed.is \in Answered /\ \A key : KeyText(key).is \in Answered
        BY DEF KeyText, Failed, Answered
    <2>3. text = Failed \/ \E key : text = KeyText(key) BY <2>1 DEF Found
    <2> QED BY <2>1, <2>2, <2>3, ReplyTyped
<1>3. CASE FileListKeys(p)
    <2>1. PICK text \in Listing(memory[p]) : Reply(p, text) BY <1>3 DEF FileListKeys
    <2>2. text.is \in Answered BY <2>1 DEF Listing, Cut, Done, Answered
    <2> QED BY <2>1, <2>2, ReplyTyped
<1>4. CASE FileListKeysItem(p)
    <2>1. \A s : [is |-> "item", slot |-> s].is \in Answered BY DEF Answered
    <2> QED BY <1>1, <1>4, <2>1, ReplyTyped DEF FileListKeysItem
<1>5. \A v : Value(v).is \in Answered BY DEF Value, Answered
<1>6. CASE GetConfigPath(p) BY <1>5, <1>6, ReplyTyped DEF GetConfigPath
<1>7. ASSUME NEW f \in {"INI_GetString", "INI_GetInt"}, IniGet(p, f) PROVE CliTypeOK'
    <2>1. \E text : Reply(p, text) /\ text.is \in Answered
        BY <1>1, <1>5, <1>7 DEF IniGet
    <2> QED BY <2>1, ReplyTyped
<1> QED BY <1>2, <1>3, <1>4, <1>6, <1>7

\* The network that a key is kept under is a network.
LEMMA ResolvedTyped ==
    ASSUME CliInv, CliTypeOK, NEW p \in Procs,
           call[p].function \in {"GenKey", "SetKey", "SetKeyFromPlaintext"}
    PROVE  Orelse(Given(call[p]), Orelse(current[p], DefaultNet)) \in Networks
<1>1. current[p] \in Networks \cup {NoNet} BY DEF CliTypeOK
<1>2. Given(call[p]) \in Networks \cup {NoNet}
    BY DEF CliInv, CallsTyped, CallTyped, ParamsTyped, Given
<1> QED BY <1>1, <1>2, CommandLineAssumption DEF Orelse

\* GenKey, SetKey and SetKeyFromPlaintext: the entry.
LEMMA StoreTyped ==
    ASSUME CliInv, CliInv', CliTypes, NEW p \in Procs, NEW name, NEW net, NEW key \in Keys,
           Store(p, name, net, key), call[p].function \in KeyCalls
    PROVE  CliTypes'
<1>1. memory[p] \in Config BY DEF CliTypes, CliTypeOK
<1> DEFINE c == [memory[p] EXCEPT !.keys[<<name, net>>] = key]
<1>2. c \in Config BY <1>1, WrittenTyped
<1>3. /\ Save(p, c) /\ at' = [at EXCEPT ![p] = "map"]
      /\ answer' = answer /\ UNCHANGED <<current, call, calls>>
    BY DEF Store
<1> HIDE DEF c
<1>4. CliTypeOK' BY <1>2, <1>3, SaveTyped DEF CliTypes
<1>5. MapIsOfKey' BY <1>3 DEF CliTypes, MapIsOfKey, CliInv, CliShape
<1> QED BY <1>4, <1>5 DEF CliTypes

\* Steps that leave the call alone and do not go on to the mapping.
LEMMA MapUnmoved ==
    ASSUME CliInv, MapIsOfKey, NEW p \in Procs, Touches(at, at', p), at'[p] # "map",
           Touches(call, call', p)
    PROVE  MapIsOfKey'
BY DEF MapIsOfKey, Touches, CliInv, CliShape

\* The functions that set, generate or delete a key.
LEMMA KeyCallsTyped ==
    ASSUME CliInv, CliInv', CliTypes, NEW p \in Procs,
           GenKey(p) \/ SetKey(p) \/ SetKeyFromPlaintext(p) \/ SetMapping(p) \/ FileDelKey(p)
    PROVE  CliTypes'
<1>1. memory[p] \in Config BY DEF CliTypes, CliTypeOK
<1>2. ASSUME NEW c \in Config, NEW text \in {Done, Failed}, Save(p, c), Answers(p, text)
      PROVE  CliTypes'
    <2>1. /\ at' = [at EXCEPT ![p] = "answer"] /\ answer' = [answer EXCEPT ![p] = text]
          /\ UNCHANGED <<current, call, calls>>
        BY <1>2 DEF Answers
    <2>2. CliTypeOK' BY <1>2, <2>1, SaveTyped DEF CliTypes
    <2>3. MapIsOfKey' BY <2>1 DEF CliTypes, MapIsOfKey, CliInv, CliShape
    <2> QED BY <2>2, <2>3 DEF CliTypes
<1>3. CASE GenKey(p)
    <2>1. call[p].function \in KeyCalls BY <1>3 DEF GenKey, Calling, KeyCalls
    <2>2. \/ \E name, net : \E key \in Keys : Store(p, name, net, key)
          \/ Save(p, memory[p]) /\ Answers(p, Failed)
        BY <1>3 DEF GenKey
    <2> QED BY <1>1, <1>2, <2>1, <2>2, StoreTyped
<1>4. ASSUME NEW function \in KeyCalls, NEW lengths, SetGiven(p, function, lengths)
      PROVE  CliTypes'
    <2>1. call[p].function \in KeyCalls BY <1>4 DEF SetGiven, Calling
    <2>2. \/ \E name, net : \E key \in Keys : Store(p, name, net, key)
          \/ Reply(p, Failed)
        BY <1>4 DEF SetGiven
    <2>3. CASE Reply(p, Failed)
        <3>1. Failed.is \in Answered BY DEF Failed, Answered
        <3>2. CliTypeOK' BY <2>3, <3>1, ReplyTyped DEF CliTypes
        <3>3. MapIsOfKey' BY <2>3 DEF Reply, Answers, CliTypes, MapIsOfKey, CliInv, CliShape
        <3> QED BY <3>2, <3>3 DEF CliTypes
    <2> QED BY <2>1, <2>2, <2>3, StoreTyped
<1>5. CASE SetKey(p) \/ SetKeyFromPlaintext(p)
    BY <1>4, <1>5 DEF SetKey, SetKeyFromPlaintext, KeyCalls
<1>6. CASE SetMapping(p)
    <2> DEFINE name == Target(call[p])
               net == Orelse(Given(call[p]), Orelse(current[p], DefaultNet))
               c == [memory[p] EXCEPT !.nets[name] = net]
    <2>1. at[p] = "map" /\ Save(p, c) /\ Answers(p, Done) BY <1>6 DEF SetMapping
    <2>2. net \in Networks
        <3>1. call[p].function \in {"GenKey", "SetKey", "SetKeyFromPlaintext"}
            BY <2>1 DEF CliTypes, MapIsOfKey, KeyCalls
        <3> QED BY <3>1, ResolvedTyped DEF CliTypes
    <2> HIDE DEF name, net
    <2>3. c \in Config BY <1>1, <2>2, WrittenTyped
    <2> HIDE DEF c
    <2> QED BY <1>2, <2>1, <2>3
<1>7. CASE FileDelKey(p)
    <2> DEFINE ps == call[p].params
               name == ps[Len(ps)]
               net == IF Len(ps) = 2 THEN ps[1] ELSE DefaultNet
               c == [memory[p] EXCEPT !.keys[<<name, net>>] = NoKey]
               text == IF memory[p].keys[<<name, net>>] # NoKey THEN Done ELSE Failed
    <2>1. Save(p, c) /\ Answers(p, text) BY <1>7 DEF FileDelKey
    <2>2. text \in {Done, Failed} OBVIOUS
    <2> HIDE DEF name, net, text
    <2>3. c \in Config BY <1>1, WrittenTyped
    <2> HIDE DEF c
    <2> QED BY <1>2, <2>1, <2>2, <2>3
<1> QED BY <1>3, <1>5, <1>6, <1>7

\* INI_SetString and INI_SetInt: a text for the one setting, a byte for the other.
LEMMA IniSetTyped ==
    ASSUME CliInv, CliInv', CliTypes, NEW p \in Procs,
           NEW f \in {"INI_SetString", "INI_SetInt"}, IniSet(p, f)
    PROVE  CliTypes'
<1> DEFINE ps == call[p].params
           value == IF Len(ps) = 1 THEN NoText
                    ELSE IF f = "INI_SetInt" THEN ps[2] % 256 ELSE ps[2]
           settings == IF ps[1] \in Known(f) THEN [memory[p].fish11 EXCEPT ![ps[1]] = value]
                       ELSE memory[p].fish11
<1>1. memory[p] \in Config BY DEF CliTypes, CliTypeOK
<1>2. memory[p].fish11 \in Settings BY <1>1, ConfigParts
<1>3. call[p].function = f /\ ParamsTyped(f, ps)
    BY DEF IniSet, Calling, CliInv, CallsTyped, CallTyped
<1>4. \/ Reply(p, Failed)
      \/ Update(p, settings) /\ (f = "INI_SetString" \/ Len(ps) = 2)
    BY DEF IniSet
<1>5. MapIsOfKey'
    <2>1. at' = [at EXCEPT ![p] = "answer"] /\ call' = call
        BY <1>4 DEF Reply, Update, Answers
    <2> QED BY <2>1 DEF CliTypes, MapIsOfKey, CliInv, CliShape
<1>6. CASE Reply(p, Failed)
    <2>1. Failed.is \in Answered BY DEF Failed, Answered
    <2> QED BY <1>5, <1>6, <2>1, ReplyTyped DEF CliTypes
<1>7. CASE Update(p, settings) /\ (f = "INI_SetString" \/ Len(ps) = 2)
    <2>1. settings \in Settings
        <3>1. CASE ps[1] \notin Known(f) BY <1>2, <3>1
        <3>2. CASE f = "INI_SetString" /\ ps[1] \in Known(f)
            <4>1. ps[1] = MarkText BY <3>2 DEF Known
            <4>2. value \in Texts BY <1>3, <3>2, <4>1, CommandLineAssumption DEF ParamsTyped
            <4> HIDE DEF value
            <4> QED BY <1>2, <3>2, <4>1, <4>2, CommandLineAssumption DEF Settings
        <3>3. CASE f = "INI_SetInt" /\ ps[1] \in Known(f)
            <4>1. ps[1] = MarkPosition BY <3>3 DEF Known
            <4>2. ps[2] \in Int /\ Len(ps) = 2 BY <1>3, <1>7, <3>3, <4>1 DEF ParamsTyped
            <4>3. value \in 0..255 BY <3>3, <4>2
            <4> HIDE DEF value
            <4> QED BY <1>2, <3>3, <4>1, <4>3, CommandLineAssumption DEF Settings
        <3> QED BY <3>1, <3>2, <3>3
    <2> HIDE DEF settings
    <2> DEFINE c == [memory[p] EXCEPT !.fish11 = settings]
    <2>2. Save(p, c) /\ Answers(p, Done) BY <1>7 DEF Update
    <2>3. c \in Config BY <1>1, <2>1, WrittenTyped
    <2> HIDE DEF c
    <2>4. /\ at' = [at EXCEPT ![p] = "answer"] /\ answer' = [answer EXCEPT ![p] = Done]
          /\ UNCHANGED <<current, call, calls>>
        BY <2>2 DEF Answers
    <2>5. CliTypeOK' BY <2>2, <2>3, <2>4, SaveTyped DEF CliTypes
    <2> QED BY <1>5, <2>5 DEF CliTypes
<1> QED BY <1>4, <1>6, <1>7

\* The network and the directory of a process.
LEMMA PlaceSetTyped ==
    ASSUME CliInv, CliInv', CliTypes, NEW p \in Procs, SetNetwork(p) \/ SetMircDir(p)
    PROVE  CliTypes'
<1>1. /\ at' = [at EXCEPT ![p] = "answer"] /\ UNCHANGED <<file, memory, call, calls>>
      /\ \E text \in {Done, Failed} : answer' = [answer EXCEPT ![p] = text]
    BY DEF SetNetwork, SetMircDir
<1>2. Touches(current, current', p) /\ current'[p] \in Networks \cup {NoNet}
    <2>1. CASE current' = current BY <2>1 DEF Touches, CliTypes, CliTypeOK
    <2>2. CASE SetNetwork(p)
        <3>1. call[p].params # <<>> => call[p].params[1] \in Networks
            BY <2>2 DEF SetNetwork, Calling, CliInv, CallsTyped, CallTyped, ParamsTyped
        <3> QED BY <2>2, <3>1 DEF SetNetwork, Touches, CliTypes, CliTypeOK
    <2> QED BY <2>1, <2>2 DEF SetMircDir
<1>3. /\ Touches(at, at', p) /\ at'[p] = "answer" /\ Touches(memory, memory', p)
      /\ Touches(call, call', p)
    BY <1>1 DEF Touches, CliInv, CliShape
<1>4. Touches(answer, answer', p) /\ answer'[p].is \in Answered
    BY <1>1 DEF Touches, CliInv, CliShape, Done, Failed, Answered
<1>5. memory'[p] \in Config /\ DOMAIN call'[p] = {"function", "params"} /\ calls' \in 0..MaxCalls
    BY <1>1 DEF CliTypes, CliTypeOK
<1>6. CliTypeOK' BY <1>1, <1>2, <1>3, <1>4, <1>5, TypesStep DEF CliTypes, Places
<1>7. MapIsOfKey' BY <1>3, MapUnmoved DEF CliTypes
<1> QED BY <1>6, <1>7 DEF CliTypes

\* A process starts, makes a call, gets its answer or ends.
LEMMA ProcessTyped ==
    ASSUME CliInv, CliInv', CliTypes,
           \/ \E p \in Runs, r \in Requests, d \in RunDirs : Invoke(p, r, d)
           \/ HostLoad \/ HostUnload \/ HostReturn
           \/ \E r \in HostRequests : HostCall(r)
           \/ \E p \in Procs : Return(p) \/ AskForKey(p) \/ End(p)
    PROVE  CliTypes'
<1>1. Host \in Procs /\ Runs \subseteq Procs BY DEF Procs
<1>2. NoAnswer.is \in Answered BY DEF NoAnswer, Answered
<1>3. DOMAIN NoCall = {"function", "params"} BY DEF NoCall
<1>4. \A function, params : DOMAIN [function |-> function, params |-> params]
                                = {"function", "params"}
    OBVIOUS
<1>5. ASSUME NEW p \in Procs, file' = file,
             Touches(memory, memory', p), memory'[p] \in Config,
             Touches(at, at', p), at'[p] \in Places \ {"map"},
             Touches(current, current', p), current'[p] \in Networks \cup {NoNet},
             Touches(call, call', p), DOMAIN call'[p] = {"function", "params"},
             Touches(answer, answer', p), answer'[p].is \in Answered,
             calls' \in 0..MaxCalls
      PROVE  CliTypes'
    <2>1. CliTypeOK' BY <1>5, TypesStep DEF CliTypes
    <2>2. MapIsOfKey' BY <1>5, MapUnmoved DEF CliTypes
    <2> QED BY <2>1, <2>2 DEF CliTypes
<1>6. \A p \in Procs :
          /\ memory[p] \in Config /\ at[p] \in Places /\ current[p] \in Networks \cup {NoNet}
          /\ DOMAIN call[p] = {"function", "params"} /\ answer[p].is \in Answered
    BY DEF CliTypes, CliTypeOK, Places, Answered
<1>7. calls \in 0..MaxCalls /\ (calls < MaxCalls => calls + 1 \in 0..MaxCalls)
    BY CommandLineAssumption DEF CliTypes, CliTypeOK
<1>8. ASSUME NEW p \in Procs, Off(p), file' = file, calls' = calls PROVE CliTypes'
    <2>1. /\ at' = [at EXCEPT ![p] = "off"] /\ memory' = [memory EXCEPT ![p] = Empty]
          /\ current' = [current EXCEPT ![p] = NoNet] /\ call' = [call EXCEPT ![p] = NoCall]
          /\ answer' = [answer EXCEPT ![p] = NoAnswer]
        BY <1>8 DEF Off
    <2>2. /\ Touches(memory, memory', p) /\ memory'[p] = Empty
          /\ Touches(at, at', p) /\ at'[p] = "off"
          /\ Touches(call, call', p) /\ call'[p] = NoCall
          /\ Touches(answer, answer', p) /\ answer'[p] = NoAnswer
        BY <2>1 DEF Touches, CliInv, CliShape
    <2>3. Touches(current, current', p) /\ current'[p] = NoNet
        BY <2>1 DEF Touches, CliTypes, CliTypeOK
    <2> QED BY <1>2, <1>3, <1>5, <1>7, <1>8, <2>2, <2>3, LoadedTyped DEF Places
<1>9. ASSUME NEW p \in Procs, NEW d \in Dirs, ReadConfig(p, d)
      PROVE  Touches(memory, memory', p) /\ memory'[p] \in Config
    <2>1. file[d] \in Config BY DEF CliTypes, CliTypeOK
    <2> QED BY <1>9, <2>1, ReadConfigKeys, LoadedTyped
<1>10. ASSUME NEW p \in Runs, NEW r \in Requests, NEW d \in RunDirs, Invoke(p, r, d)
      PROVE  CliTypes'
    <2> DEFINE c == [function |-> Function[Command(r.command)], params |-> r.params]
    <2>1. /\ at' = [at EXCEPT ![p] = "call"] /\ call' = [call EXCEPT ![p] = c]
          /\ ReadConfig(p, d)
          /\ calls < MaxCalls /\ calls' = calls + 1 /\ UNCHANGED <<file, current, answer>>
        BY <1>10 DEF Invoke, Enter
    <2>2. DOMAIN c = {"function", "params"} BY <1>4
    <2> HIDE DEF c
    <2>3. p \in Procs /\ d \in Dirs BY <1>1, CommandLineAssumption
    <2>4. /\ Touches(at, at', p) /\ at'[p] = "call"
          /\ Touches(call, call', p) /\ call'[p] = c /\ Touches(answer, answer', p)
        BY <2>1, <2>3 DEF Touches, CliInv, CliShape
    <2>5. Touches(current, current', p) BY <2>1, <2>3 DEF Touches, CliTypes, CliTypeOK
    <2>6. current'[p] \in Networks \cup {NoNet} /\ answer'[p].is \in Answered
        BY <1>6, <2>1, <2>3
    <2>7. Touches(memory, memory', p) /\ memory'[p] \in Config BY <1>9, <2>1, <2>3
    <2> QED BY <1>5, <1>7, <2>1, <2>2, <2>3, <2>4, <2>5, <2>6, <2>7 DEF Places
<1>11. ASSUME NEW p \in Procs, UNCHANGED <<file, memory, current>>,
              calls' = calls \/ (calls < MaxCalls /\ calls' = calls + 1),
              NEW place \in {"call", "ready"}, at' = [at EXCEPT ![p] = place],
              NEW c, call' = [call EXCEPT ![p] = c], DOMAIN c = {"function", "params"},
              answer' = answer \/ answer' = [answer EXCEPT ![p] = NoAnswer]
       PROVE  CliTypes'
    <2>1. /\ Touches(memory, memory', p) /\ Touches(at, at', p) /\ at'[p] = place
          /\ Touches(call, call', p) /\ call'[p] = c /\ Touches(answer, answer', p)
        BY <1>11 DEF Touches, CliInv, CliShape
    <2>2. answer'[p] = answer[p] \/ answer'[p] = NoAnswer BY <1>11 DEF CliInv, CliShape
    <2>3. Touches(current, current', p) BY <1>11 DEF Touches, CliTypes, CliTypeOK
    <2>4. memory'[p] \in Config /\ current'[p] \in Networks \cup {NoNet} BY <1>6, <1>11
    <2>5. answer'[p].is \in Answered BY <1>2, <1>6, <2>2
    <2>6. at'[p] \in Places \ {"map"} BY <1>11, <2>1 DEF Places
    <2>7. calls' \in 0..MaxCalls BY <1>7, <1>11
    <2>8. file' = file /\ DOMAIN call'[p] = {"function", "params"} BY <1>11, <2>1
    <2> QED BY <1>5, <2>1, <2>3, <2>4, <2>5, <2>6, <2>7, <2>8
<1>12. CASE HostLoad
    <2>1. /\ at' = [at EXCEPT ![Host] = "ready"]
          /\ ReadConfig(Host, dir[Host])
          /\ UNCHANGED <<file, current, call, answer, calls>>
        BY <1>12 DEF HostLoad
    <2>2. dir[Host] \in Dirs BY <1>1 DEF CliInv, CliShape
    <2>3. /\ Touches(memory, memory', Host) /\ memory'[Host] \in Config
        BY <1>1, <1>9, <2>1, <2>2
    <2>4. /\ Touches(at, at', Host) /\ at'[Host] = "ready"
          /\ Touches(call, call', Host) /\ Touches(answer, answer', Host)
        BY <1>1, <2>1 DEF Touches, CliInv, CliShape
    <2>5. Touches(current, current', Host) BY <1>1, <2>1 DEF Touches, CliTypes, CliTypeOK
    <2>6. /\ current'[Host] \in Networks \cup {NoNet} /\ answer'[Host].is \in Answered
          /\ DOMAIN call'[Host] = {"function", "params"} /\ calls' \in 0..MaxCalls
        BY <1>1, <1>6, <1>7, <2>1
    <2> QED BY <1>1, <1>5, <2>1, <2>3, <2>4, <2>5, <2>6 DEF Places
<1>13. CASE HostReturn
    BY <1>1, <1>3, <1>11, <1>13 DEF HostReturn
<1>14. ASSUME NEW r \in HostRequests, HostCall(r) PROVE CliTypes'
    BY <1>1, <1>4, <1>11, <1>14 DEF HostCall, Enter
<1>15. ASSUME NEW p \in Procs, AskForKey(p) PROVE CliTypes'
    BY <1>4, <1>11, <1>15 DEF AskForKey, Enter
<1>16. CASE HostUnload BY <1>1, <1>8, <1>16 DEF HostUnload
<1>17. ASSUME NEW p \in Procs, Return(p) \/ End(p) PROVE CliTypes'
    BY <1>8, <1>17 DEF Return, End
<1> QED BY <1>10, <1>12, <1>13, <1>14, <1>15, <1>16, <1>17

\* Every variable of CommandLine keeps its type, for any processes, directories and
\* requests.
THEOREM CliTypeCorrect == CliSpec => []CliTypeOK
<1>1. CliInit => CliTypes
    <2> SUFFICES ASSUME CliInit PROVE CliTypes OBVIOUS
    <2> USE DEF CliInit
    <2>1. file \in [Dirs -> Config] BY SavedAssumption
    <2>2. memory \in [Procs -> Config] BY LoadedTyped
    <2>3. calls \in 0..MaxCalls /\ dir \in [Procs -> Dirs] BY CommandLineAssumption
    <2>4. \A p \in Procs : DOMAIN call[p] = {"function", "params"} /\ answer[p].is = "none"
        BY DEF NoCall, NoAnswer
    <2>5. MapIsOfKey BY DEF MapIsOfKey
    <2>6. /\ at \in [Procs -> {"off", "ready", "call", "map", "answer"}]
          /\ current \in [Procs -> Networks \cup {NoNet}]
          /\ next \in [Procs -> {"none", "FileGetKey"}]
          /\ inStep \in [Procs -> BOOLEAN]
          /\ told \in [Dirs -> [Nicks -> Keys \cup {NoKey}]]
        OBVIOUS
    <2> QED BY <2>1, <2>2, <2>3, <2>4, <2>5, <2>6 DEF CliTypes, CliTypeOK
<1>2. CliInv /\ CliInv' /\ CliTypes /\ [CliNext]_cliVars => CliTypes'
    <2> SUFFICES ASSUME CliInv, CliInv', CliTypes, [CliNext]_cliVars PROVE CliTypes' OBVIOUS
    <2>1. CASE \/ \E p \in Runs, r \in Requests, d \in RunDirs : Invoke(p, r, d)
               \/ HostLoad \/ HostUnload \/ HostReturn
               \/ \E r \in HostRequests : HostCall(r)
               \/ \E p \in Procs : Return(p) \/ AskForKey(p) \/ End(p)
        BY <2>1, ProcessTyped
    <2>2. ASSUME NEW p \in Procs,
                 GenKey(p) \/ SetKey(p) \/ SetKeyFromPlaintext(p) \/ SetMapping(p) \/ FileDelKey(p)
          PROVE  CliTypes'
        BY <2>2, KeyCallsTyped
    <2>3. ASSUME NEW p \in Procs,
                 \/ FileGetKey(p) \/ FileListKeys(p) \/ FileListKeysItem(p) \/ GetConfigPath(p)
                 \/ \E f \in {"INI_GetString", "INI_GetInt"} : IniGet(p, f)
          PROVE  CliTypes'
        <3>1. CliTypeOK' BY <2>3, ReadingTyped DEF CliTypes
        <3>2. \E text : Reply(p, text)
            BY <2>3 DEF FileGetKey, FileListKeys, FileListKeysItem, GetConfigPath, IniGet
        <3>3. MapIsOfKey' BY <3>2 DEF Reply, Answers, CliTypes, MapIsOfKey, CliInv, CliShape
        <3> QED BY <3>1, <3>3 DEF CliTypes
    <2>4. ASSUME NEW p \in Procs, SetNetwork(p) \/ SetMircDir(p) PROVE CliTypes'
        BY <2>4, PlaceSetTyped
    <2>5. ASSUME NEW p \in Procs, NEW f \in {"INI_SetString", "INI_SetInt"}, IniSet(p, f)
          PROVE  CliTypes'
        BY <2>5, IniSetTyped
    <2>6. CASE UNCHANGED cliVars
        BY <2>6 DEF cliVars, process, ghosts, CliTypes, CliTypeOK, MapIsOfKey
    <2> QED BY <2>1, <2>2, <2>3, <2>4, <2>5, <2>6 DEF CliNext
<1>3. CliTypes => CliTypeOK BY DEF CliTypes
<1> QED BY <1>1, <1>2, <1>3, CliInvariant, PTL DEF CliSpec
=============================================================================
