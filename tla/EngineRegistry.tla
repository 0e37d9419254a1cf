--------------------------- MODULE EngineRegistry ---------------------------
(***************************************************************************)
(* The engines registered with fish_11_inject (engines.rs), the sockets    *)
(* whose lines they see (ACTIVE_SOCKETS, get_or_create_socket and          *)
(* hooked_closesocket in hook_socket.rs) and the DLLs the engines live in  *)
(* (engine_registration.rs and dll_interface/core.rs of fish_11_dll).      *)
(*                                                                         *)
(* Four locks meet here: the ENGINES mutex, the write and read sides of    *)
(* the pre and post lists, and the shard of ACTIVE_SOCKETS.  One shard     *)
(* stands for all: sockets of one shard block each other, others do not.   *)
(* The system is modelled between LoadDll and UnloadDll, so ENGINES holds  *)
(* one InjectEngines throughout.                                           *)
(***************************************************************************)
EXTENDS Naturals

CONSTANTS
    Threads, Engines, Sockets,
    Post,           \* the engines whose is_postprocessor is set
    Forgetful,      \* the engines whose DLL is unloaded without UnregisterEngine
    Infos,          \* SocketInfo objects
    NoInfo, Nobody, NoEngine, NoSocket

ASSUME EngineAssumption ==
    /\ Post \subseteq Engines /\ Forgetful \subseteq Engines
    /\ NoInfo \notin Infos /\ Nobody \notin Threads
    /\ NoEngine \notin Engines /\ NoSocket \notin Sockets

VARIABLES
    loaded,         \* engines whose DLL is in the process
    engineLock,     \* holder of ENGINES
    registered,     \* registered_ptrs
    listed,         \* how often an engine is in pre_engines or post_engines
    asked,          \* threads parked in write() of a list
    shard,          \* holder of the write side of the ACTIVE_SOCKETS shard
    tracked,        \* ACTIVE_SOCKETS
    at,             \* where each thread is
    eng,            \* engine it registers or unregisters
    sock,           \* socket it works on
    why,            \* what it tells the engines
    pass,           \* list it works on
    left            \* engines it has still to call in this pass

registry == <<loaded, engineLock, registered, listed, asked>>
sockets  == <<shard, tracked>>
calls    == <<sock, why, pass, left>>
vars     == <<registry, sockets, at, eng, calls>>

List(p) == IF p = "pre" THEN Engines \ Post ELSE Post

TypeOK ==
    /\ loaded \subseteq Engines
    /\ engineLock \in Threads \cup {Nobody}
    /\ registered \subseteq Engines
    /\ listed \in [Engines -> Nat]
    /\ asked \subseteq Threads
    /\ shard \in Threads \cup {Nobody}
    /\ tracked \in [Sockets -> Infos \cup {NoInfo}]
    /\ at \in [Threads -> {"idle", "push", "retain", "engines", "insert", "inserted",
                           "gap", "calls", "untrack", "info", "names"}]
    /\ eng \in [Threads -> Engines \cup {NoEngine}]
    /\ sock \in [Threads -> Sockets \cup {NoSocket}]
    /\ why \in [Threads -> {"line", "close"}]
    /\ pass \in [Threads -> {"pre", "post"}]
    /\ left \in [Threads -> SUBSET Engines]

Init ==
    /\ loaded = {} /\ registered = {} /\ asked = {}
    /\ engineLock = Nobody
    /\ listed = [e \in Engines |-> 0]
    /\ shard = Nobody
    /\ tracked = [s \in Sockets |-> NoInfo]
    /\ at = [t \in Threads |-> "idle"]
    /\ eng = [t \in Threads |-> NoEngine]
    /\ sock = [t \in Threads |-> NoSocket]
    /\ why = [t \in Threads |-> "line"]
    /\ pass = [t \in Threads |-> "pre"]
    /\ left = [t \in Threads |-> {}]

Goto(t, place) == at' = [at EXCEPT ![t] = place]

-----------------------------------------------------------------------------
(* The engine DLLs.                                                        *)

LoadEngine(e) ==
    /\ e \notin loaded
    /\ loaded' = loaded \cup {e}
    /\ UNCHANGED <<engineLock, registered, listed, asked, sockets, at, eng, calls>>

\* An engine's DLL may go once its UnregisterEngine has returned.  A forgetful one
\* goes at any time, while it is listed and while calls into it are under way:
\* UnloadDll of fish_11_dll calls no UnregisterEngine.
UnloadEngine(e) ==
    /\ e \in loaded
    /\ \A t \in Threads : at[t] \in {"push", "retain"} => eng[t] # e
    /\ e \in registered => e \in Forgetful
    /\ loaded' = loaded \ {e}
    /\ UNCHANGED <<engineLock, registered, listed, asked, sockets, at, eng, calls>>

-----------------------------------------------------------------------------
(* RegisterEngine and UnregisterEngine.                                    *)

\* (Mutant: ENGINES is not kept locked while the engine is added.)
RegisterUnlocked(t, e) ==
    /\ at[t] = "idle" /\ engineLock = Nobody
    /\ e \in loaded \ registered
    /\ registered' = registered \cup {e}
    /\ eng' = [eng EXCEPT ![t] = e]
    /\ Goto(t, "push")
    /\ UNCHANGED <<loaded, engineLock, listed, asked, sockets, calls>>

\* ENGINES is locked until the call returns; a registered pointer is refused.
Register(t, e) ==
    /\ at[t] = "idle" /\ engineLock = Nobody
    /\ e \in loaded \ registered
    /\ engineLock' = t
    /\ registered' = registered \cup {e}
    /\ eng' = [eng EXCEPT ![t] = e]
    /\ Goto(t, "push")
    /\ UNCHANGED <<loaded, listed, asked, sockets, calls>>

Unregister(t, e) ==
    /\ at[t] = "idle" /\ engineLock = Nobody
    /\ e \in loaded \cap registered
    /\ engineLock' = t
    /\ registered' = registered \ {e}
    /\ eng' = [eng EXCEPT ![t] = e]
    /\ pass' = [pass EXCEPT ![t] = "pre"]
    /\ Goto(t, "retain")
    /\ UNCHANGED <<loaded, listed, asked, sockets, sock, why, left>>

\* write() of a list: from here on the lock admits no new reader.
AskWrite(t) ==
    /\ at[t] \in {"push", "retain"} /\ t \notin asked
    /\ asked' = asked \cup {t}
    /\ UNCHANGED <<loaded, engineLock, registered, listed, sockets, at, eng, calls>>

Readers(p)  == {u \in Threads : at[u] = "calls" /\ pass[u] = p}

\* The list whose write lock t is to take is p.
Wants(t, p) == IF at[t] = "push" THEN eng[t] \in List(p) ELSE pass[t] = p

Push(t) ==
    /\ at[t] = "push" /\ t \in asked
    /\ \A p \in {"pre", "post"} : Wants(t, p) => Readers(p) = {}
    /\ listed' = [listed EXCEPT ![eng[t]] = @ + 1]
    /\ asked' = asked \ {t}
    /\ engineLock' = Nobody
    /\ Goto(t, "idle")
    /\ UNCHANGED <<loaded, registered, sockets, eng, calls>>

\* On to the other list, or ENGINES is unlocked and the call returns.
NextList(t) ==
    \/ /\ pass[t] = "pre"
       /\ pass' = [pass EXCEPT ![t] = "post"]
       /\ UNCHANGED <<engineLock, at>>
    \/ /\ pass[t] = "post"
       /\ engineLock' = Nobody
       /\ Goto(t, "idle")
       /\ UNCHANGED pass

\* (Mutant: the engine is dropped without waiting for the readers.)
RetainNow(t) ==
    /\ at[t] = "retain" /\ t \in asked
    /\ listed' = [listed EXCEPT ![eng[t]] = IF eng[t] \in List(pass[t]) THEN 0 ELSE @]
    /\ asked' = asked \ {t}
    /\ NextList(t)
    /\ UNCHANGED <<loaded, registered, sockets, eng, sock, why, left>>

\* retain() on the pre list, then on the post list.
Retain(t) ==
    /\ at[t] = "retain" /\ t \in asked
    /\ Readers(pass[t]) = {}
    /\ listed' = [listed EXCEPT ![eng[t]] = IF eng[t] \in List(pass[t]) THEN 0 ELSE @]
    /\ asked' = asked \ {t}
    /\ NextList(t)
    /\ UNCHANGED <<loaded, registered, sockets, eng, sock, why, left>>

-----------------------------------------------------------------------------
(* Hooked socket calls.                                                    *)

\* A hooked recv, send, SSL_read... looks its socket up; on_incoming and
\* on_outgoing start with the pre list.
Line(t, s) ==
    /\ at[t] = "idle" /\ shard = Nobody
    /\ sock' = [sock EXCEPT ![t] = s]
    /\ why' = [why EXCEPT ![t] = "line"]
    /\ pass' = [pass EXCEPT ![t] = "pre"]
    /\ Goto(t, IF tracked[s] = NoInfo THEN "engines" ELSE "gap")
    /\ UNCHANGED <<registry, sockets, eng, left>>

\* (Mutant: ENGINES is locked inside or_insert_with, under the shard's lock.)
TakeEnginesInside(t) ==
    /\ at[t] = "engines"
    /\ \/ /\ shard = Nobody
          /\ \A u \in Threads : ~(why[u] = "close" /\ at[u] \in {"gap", "calls"})
          /\ shard' = t
          /\ UNCHANGED at
       \/ /\ shard = t /\ engineLock = Nobody
          /\ Goto(t, "inserted")
          /\ UNCHANGED shard
    /\ UNCHANGED <<registry, tracked, eng, calls>>

\* get_or_create_socket: the Arc in ENGINES is cloned under its mutex.
TakeEngines(t) ==
    /\ at[t] = "engines" /\ engineLock = Nobody
    /\ Goto(t, "insert")
    /\ UNCHANGED <<registry, sockets, eng, calls>>

\* hooked_closesocket keeps a read guard on the shard while it notifies.
Guards == {u \in Threads : why[u] = "close" /\ at[u] \in {"gap", "calls"}}

LockShard(t) ==
    /\ at[t] = "insert" /\ shard = Nobody /\ Guards = {}
    /\ shard' = t
    /\ Goto(t, "inserted")
    /\ UNCHANGED <<registry, tracked, eng, calls>>

\* (Mutant: insert() in place of entry().or_insert_with().)
InsertAlways(t) ==
    /\ at[t] = "inserted"
    /\ \E i \in Infos \ {tracked[sock[t]]} : tracked' = [tracked EXCEPT ![sock[t]] = i]
    /\ shard' = Nobody
    /\ \/ Goto(t, "gap") \/ Goto(t, "idle")
    /\ UNCHANGED <<registry, eng, calls>>

\* entry().or_insert_with(): the caller goes on with the line, or, like
\* hooked_connect, has none.
Insert(t) ==
    /\ at[t] = "inserted"
    /\ IF tracked[sock[t]] = NoInfo
       THEN \E i \in Infos : tracked' = [tracked EXCEPT ![sock[t]] = i]
       ELSE UNCHANGED tracked
    /\ shard' = Nobody
    /\ \/ Goto(t, "gap") \/ Goto(t, "idle")
    /\ UNCHANGED <<registry, eng, calls>>

\* hooked_closesocket on a tracked socket: every engine is told first.
Close(t, s) ==
    /\ at[t] = "idle" /\ shard = Nobody /\ tracked[s] # NoInfo
    /\ sock' = [sock EXCEPT ![t] = s]
    /\ why' = [why EXCEPT ![t] = "close"]
    /\ pass' = [pass EXCEPT ![t] = "pre"]
    /\ Goto(t, "gap")
    /\ UNCHANGED <<registry, sockets, eng, left>>

\* read() of a list; a parked writer goes first.
StartPass(t) ==
    /\ at[t] = "gap"
    /\ \A w \in asked : ~Wants(w, pass[t])
    /\ left' = [left EXCEPT ![t] = {e \in List(pass[t]) : listed[e] > 0}]
    /\ Goto(t, "calls")
    /\ UNCHANGED <<registry, sockets, eng, sock, why, pass>>

\* One callback returns.  For a line the engine asks GetNetworkName, which
\* reads ACTIVE_SOCKETS; on_close does nothing.
Callback(t) ==
    /\ at[t] = "calls"
    /\ why[t] = "line" => shard = Nobody
    /\ \E e \in left[t] : left' = [left EXCEPT ![t] = @ \ {e}]
    /\ UNCHANGED <<registry, sockets, at, eng, sock, why, pass>>

\* The read lock is dropped between the lists.
EndPass(t) ==
    /\ at[t] = "calls" /\ left[t] = {}
    /\ IF pass[t] = "pre"
       THEN /\ pass' = [pass EXCEPT ![t] = "post"]
            /\ Goto(t, "gap")
       ELSE /\ Goto(t, IF why[t] = "line" THEN "idle" ELSE "untrack")
            /\ UNCHANGED pass
    /\ UNCHANGED <<registry, sockets, eng, sock, why, left>>

\* ACTIVE_SOCKETS.remove, after the read guard of the notification is gone.
Untrack(t) ==
    /\ at[t] = "untrack" /\ shard = Nobody /\ Guards = {}
    /\ tracked' = [tracked EXCEPT ![sock[t]] = NoInfo]
    /\ Goto(t, "idle")
    /\ UNCHANGED <<registry, shard, eng, calls>>

-----------------------------------------------------------------------------
(* FiSH11_InjectDebugInfo.                                                 *)

\* The statistics of the sockets, one shard after the other; nothing else is
\* locked meanwhile.
Statistics(t) ==
    /\ at[t] = "idle" /\ shard = Nobody
    /\ Goto(t, "info")
    /\ UNCHANGED <<registry, sockets, eng, calls>>

\* get_engine_list is called with ENGINES locked.
LockForNames(t) ==
    /\ at[t] = "info" /\ engineLock = Nobody
    /\ engineLock' = t
    /\ pass' = [pass EXCEPT ![t] = "pre"]
    /\ Goto(t, "names")
    /\ UNCHANGED <<loaded, registered, listed, asked, sockets, eng, sock, why, left>>

\* The names of one list are read under its read lock, which a writer that
\* waits for the list would keep it from.
Names(t) ==
    /\ at[t] = "names"
    /\ \A w \in asked : ~Wants(w, pass[t])
    /\ NextList(t)
    /\ UNCHANGED <<loaded, registered, listed, asked, sockets, eng, sock, why, left>>

-----------------------------------------------------------------------------
Next ==
    \/ \E e \in Engines : LoadEngine(e) \/ UnloadEngine(e)
    \/ \E t \in Threads :
         \/ \E e \in Engines : Register(t, e) \/ Unregister(t, e)
         \/ \E s \in Sockets : Line(t, s) \/ Close(t, s)
         \/ AskWrite(t) \/ Push(t) \/ Retain(t)
         \/ TakeEngines(t) \/ LockShard(t) \/ Insert(t)
         \/ StartPass(t) \/ Callback(t) \/ EndPass(t) \/ Untrack(t)
         \/ Statistics(t) \/ LockForNames(t) \/ Names(t)

Spec == Init /\ [][Next]_vars

-----------------------------------------------------------------------------
(* Properties.                                                             *)

\* Between calls the lists hold exactly the registered engines, once each:
\* registered_ptrs is unlocked before the list is changed, so this rests on
\* ENGINES being locked for the whole of RegisterEngine and UnregisterEngine.
ListsMatchPointers ==
    engineLock = Nobody =>
        \A e \in Engines : listed[e] = IF e \in registered THEN 1 ELSE 0

\* For an engine that unregisters before its DLL goes UnregisterEngine is enough: no
\* pass still has it to call then, not even one that began before.  (engines.rs says
\* of all stored pointers that they "are valid as long as the engine DLL is loaded,
\* which is guaranteed by the engine lifecycle management"; nothing guarantees it for
\* the forgetful engines, of which fish_11_dll is one.)
CallbacksReachLoaded ==
    \A t \in Threads : at[t] = "calls" => left[t] \ Forgetful \subseteq loaded

\* A SocketInfo in use is never replaced by another (its buffers would be
\* lost), whichever threads see the new socket first.
OneInfoPerSocket ==
    [][\A s \in Sockets :
          tracked[s] # NoInfo => tracked'[s] \in {tracked[s], NoInfo}]_tracked

\* The lock order that get_or_create_socket documents leaves no deadlock
\* between ENGINES, the lists and ACTIVE_SOCKETS: in every group of threads
\* one waits for nobody of the group.
Waits(t) ==
    CASE at[t] \in {"engines", "info"} -> {engineLock}
      [] at[t] = "insert" \/ at[t] = "untrack" -> {shard} \cup Guards
      [] t \in asked -> {u \in Threads : at[u] = "calls" /\ Wants(t, pass[u])}
      [] at[t] \in {"gap", "names"} -> {w \in asked : Wants(w, pass[t])}
      [] at[t] = "calls" /\ why[t] = "line" -> {shard}
      [] OTHER -> {}

NoCircularWait ==
    \A group \in SUBSET Threads :
        group # {} => \E t \in group : Waits(t) \cap group = {}
=============================================================================
