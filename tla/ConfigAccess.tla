---------------------------- MODULE ConfigAccess ----------------------------
(***************************************************************************)
(* The process-wide CONFIG of fish_11_dll and its file on disk:            *)
(* with_config_mut and ConfigWriteGuard (config/config_access.rs),         *)
(* save_config and load_config (config/file_storage.rs), the dirty flag    *)
(* (config/models.rs) and the snapshot save of FiSH11_ExchangeKey          *)
(* (dll_interface/fish11_exchangekey.rs).                                  *)
(*                                                                         *)
(* The content of a configuration is a version number: every closure that  *)
(* changes the persisted part makes a new version.  The temporary file is  *)
(* opened, written and renamed in separate steps, because a snapshot save  *)
(* runs without the lock and shares the one temporary path.                *)
(***************************************************************************)
EXTENDS Integers

CONSTANTS
    Threads,        \* threads that call into the DLL
    Exchangers,     \* those of them that run FiSH11_ExchangeKey
    Nobody,         \* no thread holds the lock
    MaxVersion,     \* bound on the versions made
    MaxFaults,      \* bound on the failures of file operations
    MaxCrashes      \* bound on the ends of the process

ASSUME ConfigAssumption ==
    /\ Exchangers \subseteq Threads
    /\ Nobody \notin Threads
    /\ MaxVersion \in Nat /\ MaxFaults \in Nat /\ MaxCrashes \in Nat

Default  == 0       \* what FishConfig::new() holds
Torn     == -1      \* a file that was truncated and not written to its end
NoFile   == -2
Versions == 0..MaxVersion

VARIABLES
    mem,        \* version held by CONFIG
    dirty,      \* CONFIG's dirty flag
    writer,     \* holder of CONFIG.write()
    pc,         \* where each thread is
    result,     \* what the closure of each thread's call returned
    image,      \* version each thread is writing out
    io,         \* progress of each thread's save_config
    handle,     \* which name the file a thread writes has now
    disk,       \* content of the configuration file
    tmp,        \* content of the temporary file
    faults, crashes,
    newest,     \* not in the code: the newest version made
    snapshots,  \* not in the code: a clone was saved without the lock
    unread      \* not in the code: the file was not read when the process started,
                \* although it is good, and has not been replaced since

access == <<mem, dirty, writer, pc, result, image>>
files  == <<io, handle, disk, tmp>>
budget == <<faults, crashes, newest, snapshots, unread>>
vars   == <<access, files, budget>>

TypeOK ==
    /\ mem \in Versions
    /\ dirty \in BOOLEAN
    /\ writer \in Threads \cup {Nobody}
    /\ pc \in [Threads -> {"idle", "closure", "save", "drop", "exchange", "snapshot", "count"}]
    /\ result \in [Threads -> {"Ok", "Err", "Counted"}]
    /\ image \in [Threads -> Versions]
    /\ io \in [Threads -> {"none", "opened", "written"}]
    /\ handle \in [Threads -> {"none", "tmp", "disk", "gone"}]
    /\ disk \in Versions \cup {Torn, NoFile}
    /\ tmp \in Versions \cup {Torn, NoFile}
    /\ faults \in 0..MaxFaults
    /\ crashes \in 0..MaxCrashes
    /\ newest \in Versions
    /\ snapshots \in BOOLEAN /\ unread \in BOOLEAN

\* The process has loaded its configuration: from the file, or, when the first
\* save failed or the file could not be read, from FishConfig::new().
Init ==
    /\ \/ mem = 1 /\ disk = 1 /\ newest = 1 /\ unread = FALSE /\ MaxVersion > 0
       \/ mem = Default /\ disk = 1 /\ newest = 1 /\ unread = TRUE /\ MaxVersion > 0
       \/ mem = Default /\ disk = NoFile /\ newest = Default /\ unread = FALSE
    /\ dirty = FALSE
    /\ writer = Nobody
    /\ pc = [t \in Threads |-> "idle"]
    /\ result = [t \in Threads |-> "Ok"]
    /\ image = [t \in Threads |-> Default]
    /\ io = [t \in Threads |-> "none"]
    /\ handle = [t \in Threads |-> "none"]
    /\ tmp = NoFile
    /\ faults = 0
    /\ crashes = 0
    /\ snapshots = FALSE

-----------------------------------------------------------------------------
(* with_config_mut: lock, run the closure, save, drop the guard.           *)

\* (Mutant: the closure runs under a shared lock.)
AcquireShared(t) ==
    /\ pc[t] = "idle"
    /\ writer' = t
    /\ dirty' = TRUE
    /\ pc' = [pc EXCEPT ![t] = "closure"]
    /\ UNCHANGED <<mem, result, image, files, budget>>

\* CONFIG.write(), then guard.config_mut(), which sets both flags.
Acquire(t) ==
    /\ pc[t] = "idle"
    /\ writer = Nobody
    /\ writer' = t
    /\ dirty' = TRUE
    /\ pc' = [pc EXCEPT ![t] = "closure"]
    /\ UNCHANGED <<mem, result, image, files, budget>>

\* The closure: it may change the configuration and still return Err.
Closure(t) ==
    /\ pc[t] = "closure"
    /\ \/ UNCHANGED <<mem, newest>>
       \/ newest < MaxVersion /\ newest' = newest + 1 /\ mem' = newest + 1
    /\ \E r \in {"Ok", "Err"} :
         /\ result' = [result EXCEPT ![t] = r]
         /\ pc' = [pc EXCEPT ![t] = IF r = "Ok" THEN "save" ELSE "drop"]
    /\ UNCHANGED <<dirty, writer, image, files, faults, crashes, snapshots, unread>>

\* (Mutant: the counter's call at the end of an exchange starts it again.)
UnlockAgain(t) ==
    /\ writer' = Nobody
    /\ \/ pc' = [pc EXCEPT ![t] = "idle"]
       \/ /\ t \in Exchangers /\ result[t] # "Err"
          /\ pc' = [pc EXCEPT ![t] = "exchange"]

\* Drop of the guard when nothing is (or remains) to be saved: the lock is
\* released and the call returns.  A thread running FiSH11_ExchangeKey whose
\* call stored a new key goes on to the snapshot save.
Unlock(t) ==
    /\ writer' = Nobody
    /\ \/ pc' = [pc EXCEPT ![t] = "idle"]
       \/ /\ t \in Exchangers /\ result[t] = "Ok"
          /\ pc' = [pc EXCEPT ![t] = "exchange"]

Release(t) ==
    /\ pc[t] = "drop"
    /\ io[t] = "none"
    /\ ~dirty
    /\ Unlock(t)
    /\ UNCHANGED <<mem, dirty, result, image, files, budget>>

\* fish11_exchangekey.rs: the configuration is cloned under the lock, which is
\* released before the clone is saved.
Clone(t) ==
    /\ pc[t] = "exchange"
    /\ writer = Nobody
    /\ image' = [image EXCEPT ![t] = mem]
    /\ pc' = [pc EXCEPT ![t] = "snapshot"]
    /\ snapshots' = TRUE
    /\ UNCHANGED <<mem, dirty, writer, result, files, faults, crashes, newest, unread>>

\* increment_key_exchange_counter, at the end of FiSH11_ExchangeKey: a
\* with_config_mut call whose closure changes only what is not persisted.
Count(t) ==
    /\ pc[t] = "count"
    /\ writer = Nobody
    /\ writer' = t
    /\ dirty' = TRUE
    /\ result' = [result EXCEPT ![t] = "Counted"]
    /\ pc' = [pc EXCEPT ![t] = "save"]
    /\ UNCHANGED <<mem, image, files, budget>>

-----------------------------------------------------------------------------
(* save_config: truncate the temporary file, write it, rename it.          *)

\* The guard saves what it locked; a snapshot save writes the earlier clone.
\* In "save" a flag is always set; in "drop" only the dirty flag can be.
Saving(t) ==
    \/ pc[t] = "save"
    \/ pc[t] = "drop" /\ dirty
    \/ pc[t] = "snapshot"

\* (Mutant: the configuration file is written in place.)
OpenInPlace(t) ==
    /\ Saving(t)
    /\ io[t] = "none"
    /\ io' = [io EXCEPT ![t] = "opened"]
    /\ handle' = [handle EXCEPT ![t] = "disk"]
    /\ disk' = Torn
    /\ image' = [image EXCEPT ![t] = IF pc[t] = "snapshot" THEN @ ELSE mem]
    /\ UNCHANGED <<mem, dirty, writer, pc, result, tmp, budget>>

\* (Mutant: a temporary file that is there is used as it is.)
OpenExisting(t) ==
    /\ Saving(t)
    /\ io[t] = "none"
    /\ io' = [io EXCEPT ![t] = IF tmp \in Versions THEN "written" ELSE "opened"]
    /\ handle' = [handle EXCEPT ![t] = "tmp"]
    /\ tmp' = IF tmp \in Versions THEN tmp ELSE Torn
    /\ image' = [image EXCEPT ![t] = IF pc[t] = "snapshot" THEN @ ELSE mem]
    /\ UNCHANGED <<mem, dirty, writer, pc, result, disk, budget>>

OpenTmp(t) ==
    /\ Saving(t)
    /\ io[t] = "none"
    /\ io' = [io EXCEPT ![t] = "opened"]
    /\ handle' = [handle EXCEPT ![t] = "tmp"]
    /\ tmp' = Torn
    /\ image' = [image EXCEPT ![t] = IF pc[t] = "snapshot" THEN @ ELSE mem]
    /\ UNCHANGED <<mem, dirty, writer, pc, result, disk, budget>>

\* What the file holds when t finishes writing: a mixture is possible if
\* another thread wrote to the same file, or already moved it into place.
Written(t) ==
    IF handle[t] = "tmp" /\ \A u \in Threads \ {t} : handle[u] # "tmp"
    THEN {image[t]}
    ELSE {image[t], Torn}

WriteTmp(t) ==
    /\ io[t] = "opened"
    /\ io' = [io EXCEPT ![t] = "written"]
    /\ \E content \in Written(t) :
         /\ tmp'  = IF handle[t] = "tmp"  THEN content ELSE tmp
         /\ disk' = IF handle[t] = "disk" THEN content ELSE disk
    /\ UNCHANGED <<access, handle, budget>>

\* The handles of the other threads follow the file when its name changes.
Moved(h, t) ==
    [u \in Threads |-> IF u = t THEN "none"
                       ELSE IF h[u] = "tmp" THEN "disk"
                       ELSE IF h[u] = "disk" THEN "gone" ELSE h[u]]

Removed(h, t) ==
    [u \in Threads |-> IF u = t THEN "none"
                       ELSE IF h[u] = "tmp" THEN "gone" ELSE h[u]]

\* A save that ends, well or not: with_config_mut drops the guard next, Drop
\* releases the lock, and ExchangeKey either returns the error of its snapshot
\* save or goes on to its counter.
AfterSave(t, ok) ==
    \/ /\ pc[t] = "save"
       /\ pc' = [pc EXCEPT ![t] = "drop"]
       /\ UNCHANGED writer
    \/ /\ pc[t] = "drop"
       /\ Unlock(t)
    \/ /\ pc[t] = "snapshot"
       /\ pc' = [pc EXCEPT ![t] = IF ok THEN "count" ELSE "idle"]
       /\ UNCHANGED writer

\* The rename succeeds and mark_clean() clears the flag of the configuration
\* that was saved: CONFIG's, or the clone's own copy of it.
RenameTmp(t) ==
    /\ io[t] = "written"
    /\ tmp # NoFile
    /\ disk' = tmp
    /\ tmp' = NoFile
    /\ io' = [io EXCEPT ![t] = "none"]
    /\ handle' = Moved(handle, t)
    /\ dirty' = (dirty /\ pc[t] = "snapshot")
    /\ unread' = FALSE
    /\ AfterSave(t, TRUE)
    /\ UNCHANGED <<mem, result, image, faults, crashes, newest, snapshots>>

\* (Mutant: the flag is cleared whether or not the rename succeeds.)
RenameFailsClean(t) ==
    /\ io[t] = "written"
    /\ tmp # NoFile /\ faults < MaxFaults /\ faults' = faults + 1
    /\ tmp' = NoFile
    /\ io' = [io EXCEPT ![t] = "none"]
    /\ handle' = Removed(handle, t)
    /\ dirty' = FALSE
    /\ AfterSave(t, FALSE)
    /\ UNCHANGED <<mem, result, image, disk, crashes, newest, snapshots, unread>>

\* The rename fails, by itself or because the file is gone; the temporary
\* file is removed and the error is dropped by every caller that holds the lock.
RenameFails(t) ==
    /\ io[t] = "written"
    /\ \/ tmp = NoFile /\ UNCHANGED faults
       \/ tmp # NoFile /\ faults < MaxFaults /\ faults' = faults + 1
    /\ tmp' = NoFile
    /\ io' = [io EXCEPT ![t] = "none"]
    /\ handle' = Removed(handle, t)
    /\ AfterSave(t, FALSE)
    /\ UNCHANGED <<mem, dirty, result, image, disk, crashes, newest, snapshots, unread>>

\* The write fails: nothing is renamed and the temporary file stays as it is.
WriteFails(t) ==
    /\ io[t] = "opened"
    /\ faults < MaxFaults
    /\ faults' = faults + 1
    /\ io' = [io EXCEPT ![t] = "none"]
    /\ handle' = [handle EXCEPT ![t] = "none"]
    /\ AfterSave(t, FALSE)
    /\ UNCHANGED <<mem, dirty, result, image, disk, tmp, crashes, newest, snapshots, unread>>

-----------------------------------------------------------------------------
\* What load_config makes of the file: a usable file is read back; a missing
\* one is replaced by a new configuration if that can be saved; a torn one, or
\* one that cannot be parsed, leaves the defaults in memory.
Load ==
    /\ \/ disk \in Versions /\ mem' = disk /\ UNCHANGED <<disk, newest>>
       \/ /\ disk = NoFile /\ newest < MaxVersion
          /\ mem' = newest + 1 /\ disk' = newest + 1 /\ newest' = newest + 1
       \/ disk \in {NoFile, Torn} /\ mem' = Default /\ UNCHANGED <<disk, newest>>
    /\ unread' = FALSE
    /\ UNCHANGED faults

\* load_config fails on a file that is good: it is locked by another program, or
\* five seconds are over.  CONFIG takes the defaults, as clean ones, and the next
\* save puts them over the file.
LoadFails ==
    /\ disk \in Versions /\ faults < MaxFaults /\ faults' = faults + 1
    /\ mem' = Default
    /\ unread' = TRUE
    /\ UNCHANGED <<disk, newest>>

\* The process ends at any point and is started again.
Restart ==
    /\ crashes < MaxCrashes
    /\ crashes' = crashes + 1
    /\ Load \/ LoadFails
    /\ dirty' = FALSE
    /\ writer' = Nobody
    /\ pc' = [t \in Threads |-> "idle"]
    /\ io' = [t \in Threads |-> "none"]
    /\ handle' = [t \in Threads |-> "none"]
    /\ UNCHANGED <<result, image, tmp, snapshots>>

Step(t) ==
    \/ Closure(t) \/ Release(t) \/ Clone(t) \/ Count(t)
    \/ OpenTmp(t) \/ WriteTmp(t) \/ RenameTmp(t)
    \/ RenameFails(t) \/ WriteFails(t)

Next ==
    \/ \E t \in Threads : Acquire(t) \/ Step(t)
    \/ Restart

Spec == Init /\ [][Next]_vars

\* A thread inside a call keeps running, and does not wait for ever for a lock
\* that is free again and again (parking_lot hands it over eventually).
\* Nothing makes an idle thread start a call.
Fairness ==
    \A t \in Threads :
        /\ WF_vars(Step(t))
        /\ SF_vars(Clone(t))
        /\ SF_vars(Count(t))

FairSpec == Spec /\ Fairness

-----------------------------------------------------------------------------
(* Properties.                                                             *)

\* The file says what memory says; or memory only has the defaults and there
\* is nothing usable in the file.
Persisted ==
    \/ disk = mem
    \/ mem = Default /\ disk \in {Torn, NoFile}

\* The dirty flag is the only thing that makes a later access repair a failed
\* save, so whenever the lock is free a clean configuration must be on disk
\* (config_access.rs: save_if_modified and Drop skip the save when clean).
\* A snapshot save can break this and NeverTorn: it may put an older version
\* over a newer one and shares the temporary file.  After a load that failed the
\* defaults are clean too, until the first save.
CleanMeansPersisted ==
    writer = Nobody /\ ~dirty /\ ~snapshots /\ ~unread => Persisted

\* A process that stops at any point leaves a whole file behind: the file is
\* only replaced by the rename of a finished temporary file.
NeverTorn == ~snapshots => disk # Torn

\* The file never has a version that memory does not have or has passed, except
\* for a file that could not be read, until it is replaced; in particular what a
\* dead process left in the temporary file is never used.
DiskNotAheadOfMemory == disk <= mem \/ unread

\* To the process every save under the lock is one step that puts what memory
\* holds into the file, whatever is interrupted or fails (save_config renames a
\* finished file); a snapshot save may leave an older version or a damaged
\* file, but never a later version.  A restart goes on from the file, or from the
\* defaults when it cannot be read.
Stored == INSTANCE ConfigFile WITH memory <- mem, file <- disk, loose <- snapshots

ImplementsConfigFile == Stored!Spec

\* In particular the file moves forward only, but for snapshot saves and for a
\* file that could not be read, which the next save replaces whatever it holds.
DiskNeverRegresses == [][snapshots \/ unread \/ disk' >= disk]_disk

\* Every call returns, whatever fails in its saves, so no thread keeps the
\* lock.
CallsReturn ==
    \A t \in Threads : pc[t] # "idle" ~> pc[t] = "idle"
=============================================================================
