---------------------------- MODULE HookLifeCycle ----------------------------
(***************************************************************************)
(* The detours of fish_11_inject from LoadDll to UnloadDll: install_hooks, *)
(* cleanup_hooks (helpers_inject.rs), install_ssl_hooks and the hook       *)
(* functions (hook_ssl.rs, hook_socket.rs), while threads of the client    *)
(* call the hooked functions.                                              *)
(*                                                                         *)
(* A detour patches the beginning of a function with a jump to its hook;   *)
(* the trampoline of the detour still reaches the function itself.  What a *)
(* hook does with the data is for RecvPipeline and EngineRegistry.  mIRC   *)
(* calls UnloadDll before it frees the DLL, after a failed LoadDll too.    *)
(***************************************************************************)
EXTENDS Naturals, Sequences

CONSTANTS
    Threads,        \* threads of the client that call hooked functions
    Loader,         \* the thread that runs LoadDll and UnloadDll
    Nobody

ASSUME HookAssumption == Loader \notin Threads /\ Nobody \notin Threads \cup {Loader}

\* install_hooks and uninstall_socket_hooks go through them in these orders.
InstallOrder == <<"recv", "send", "connect", "closesocket">>
RemoveOrder == <<"closesocket", "connect", "send", "recv">>

Winsock == {"recv", "send", "connect", "closesocket"}
Ssl == {"SSL_read", "SSL_write"}
Functions == Winsock \cup Ssl

VARIABLES
    patched,        \* functions that jump to their hook
    stored,         \* those whose detour is in its static
    original,       \* ORIGINAL_SSL_WRITE is set
    installed,      \* SSL_HOOKS_INSTALLED
    lock,           \* holder of the mutex the hook of a function takes: that
                    \* of its detour or, for SSL_write, ORIGINAL_SSL_WRITE
    stage,          \* where LoadDll or UnloadDll is
    todo,           \* Winsock functions this stage has still to deal with
    at,             \* where each thread is in its call
    fn,             \* the function it has called
    transit,        \* not in the code: the calls during which LoadDll or
                    \* UnloadDll was running
    refused,        \* not in the code: threads whose last call a hook refused
    nested,         \* not in the code: threads that have entered a hook from
                    \* itself
    spoiled         \* not in the code: UnloadDll timed out on a lock, or a
                    \* detour could not be disabled

statics == <<patched, stored, original, installed>>
calls == <<at, fn, transit, refused, nested>>
vars == <<statics, lock, stage, todo, calls, spoiled>>

Busy == stage \notin {"loaded", "failed", "gone"}

TypeOK ==
    /\ patched \subseteq Functions /\ stored \subseteq Functions
    /\ original \in BOOLEAN /\ installed \in BOOLEAN
    /\ lock \in [Functions -> Threads \cup {Loader, Nobody}]
    /\ stage \in {"install", "store", "ssl_read", "ssl_write", "loaded", "failed",
                  "remove_read", "remove_write", "clear", "remove", "gone"}
    /\ todo \in Seq(Winsock)
    /\ at \in [Threads -> {"out", "hook", "locked", "call"}]
    /\ fn \in [Threads -> Functions]
    /\ transit \subseteq Threads /\ refused \subseteq Threads /\ nested \subseteq Threads
    /\ spoiled \in BOOLEAN

\* The DLL has just been loaded and mIRC calls LoadDll.
Init ==
    /\ patched = {} /\ stored = {}
    /\ original = FALSE /\ installed = FALSE
    /\ lock = [f \in Functions |-> Nobody]
    /\ stage = "install"
    /\ todo = InstallOrder
    /\ at = [t \in Threads |-> "out"]
    /\ fn = [t \in Threads |-> "recv"]
    /\ transit = {} /\ refused = {} /\ nested = {}
    /\ spoiled = FALSE

-----------------------------------------------------------------------------
(* LoadDll.                                                                *)

\* A stage of the loader; it makes every call under way one in transit.
Goto(s) ==
    /\ stage' = s
    /\ transit' = transit \cup {t \in Threads : at[t] # "out"}
    /\ UNCHANGED <<at, fn, refused, nested>>

\* install_socket_hook makes a detour and enables it.
Enable ==
    /\ stage = "install" /\ todo # <<>>
    /\ patched' = patched \cup {Head(todo)}
    /\ Goto("store")
    /\ UNCHANGED <<stored, original, installed, lock, todo, spoiled>>

\* The detour is stored after it has been enabled.
Store ==
    /\ stage = "store" /\ lock[Head(todo)] = Nobody
    /\ stored' = stored \cup {Head(todo)}
    /\ todo' = Tail(todo)
    /\ Goto("install")
    /\ UNCHANGED <<patched, original, installed, lock, spoiled>>

\* (Mutant: the error may come between the enabling and the storing.)
InstallFailsBetween ==
    /\ stage \in {"install", "store"} /\ todo # <<>>
    /\ Goto("failed")
    /\ UNCHANGED <<statics, lock, todo, spoiled>>

\* A function is not found, or its detour cannot be made or enabled: those
\* already enabled stay, and mIRC is told to unload the DLL.
InstallFails ==
    /\ stage = "install" /\ todo # <<>>
    /\ Goto("failed")
    /\ UNCHANGED <<statics, lock, todo, spoiled>>

\* Without an SSL library LoadDll is done.
SkipSsl ==
    /\ stage = "install" /\ todo = <<>>
    /\ Goto("loaded")
    /\ UNCHANGED <<statics, lock, todo, spoiled>>

SslLocks(t) == [f \in Functions |-> IF f \in Ssl THEN t ELSE lock[f]]

\* (Mutant: SSL_write gets no slot.)
PrepareSslHalf ==
    /\ stage = "install" /\ todo = <<>>
    /\ ~installed
    /\ \A f \in Ssl : lock[f] = Nobody
    /\ lock' = SslLocks(Loader)
    /\ stored' = stored \cup Ssl
    /\ Goto("ssl_read")
    /\ UNCHANGED <<patched, original, installed, todo, spoiled>>

\* install_ssl_hooks takes all its locks, sets the slots and makes both
\* detours before it enables them.
PrepareSsl ==
    /\ stage = "install" /\ todo = <<>>
    /\ ~installed
    /\ \A f \in Ssl : lock[f] = Nobody
    /\ lock' = SslLocks(Loader)
    /\ original' = TRUE
    /\ stored' = stored \cup Ssl
    /\ Goto("ssl_read")
    /\ UNCHANGED <<patched, installed, todo, spoiled>>

EnableRead ==
    /\ stage = "ssl_read"
    /\ patched' = patched \cup {"SSL_read"}
    /\ Goto("ssl_write")
    /\ UNCHANGED <<stored, original, installed, lock, todo, spoiled>>

EnableWrite ==
    /\ stage = "ssl_write"
    /\ patched' = patched \cup {"SSL_write"}
    /\ installed' = TRUE
    /\ lock' = SslLocks(Nobody)
    /\ Goto("loaded")
    /\ UNCHANGED <<stored, original, todo, spoiled>>

\* (Mutant: SSL_read is left enabled when SSL_write fails.)
SslFailsHalf ==
    /\ stage \in {"ssl_read", "ssl_write"}
    /\ stored' = stored \ Ssl
    /\ original' = FALSE
    /\ lock' = SslLocks(Nobody)
    /\ Goto("loaded")
    /\ UNCHANGED <<patched, installed, todo, spoiled>>

\* A detour cannot be made or enabled: SSL_read is disabled again if it was
\* enabled, and the hooks are done without.
SslFails ==
    /\ stage \in {"ssl_read", "ssl_write"}
    /\ stored' = stored \ Ssl
    /\ original' = FALSE
    /\ lock' = SslLocks(Nobody)
    /\ \/ patched' = patched \ Ssl /\ UNCHANGED spoiled
       \/ "SSL_read" \in patched /\ spoiled' = TRUE /\ UNCHANGED patched
    /\ Goto("loaded")
    /\ UNCHANGED <<installed, todo>>

-----------------------------------------------------------------------------
(* UnloadDll.                                                              *)

\* UnloadDll with any action but 1, which does nothing.
Unload ==
    /\ stage \in {"loaded", "failed"}
    /\ Goto("remove_read")
    /\ UNCHANGED <<statics, lock, todo, spoiled>>

\* The detour of f is taken out of its static, if it is there, and disabled,
\* which may fail.
Removed(f) ==
    /\ stored' = stored \ {f}
    /\ \/ patched' = patched \ (stored \cap {f}) /\ UNCHANGED spoiled
       \/ f \in stored \cap patched /\ spoiled' = TRUE /\ UNCHANGED patched

\* (Mutant: the mutex is locked without a time limit.)
RemoveWaiting(f) == lock[f] = Nobody /\ Removed(f)

\* uninstall_one_winsock_hook, uninstall_one_ssl_detour: someone who holds the
\* mutex for five seconds keeps his detour.
Remove(f) ==
    \/ lock[f] = Nobody /\ Removed(f)
    \/ lock[f] # Nobody /\ spoiled' = TRUE /\ UNCHANGED <<patched, stored>>

RemoveRead ==
    /\ stage = "remove_read"
    /\ Remove("SSL_read")
    /\ Goto("remove_write")
    /\ UNCHANGED <<original, installed, lock, todo>>

\* No hook takes the mutex of this detour.
RemoveWrite ==
    /\ stage = "remove_write"
    /\ Removed("SSL_write")
    /\ Goto("clear")
    /\ UNCHANGED <<original, installed, lock, todo>>

\* clear_ssl_slot of each slot.
ClearSlots ==
    /\ stage = "clear"
    /\ \/ lock["SSL_write"] = Nobody /\ original' = FALSE /\ UNCHANGED spoiled
       \/ lock["SSL_write"] # Nobody /\ spoiled' = TRUE /\ UNCHANGED original
    /\ installed' = FALSE
    /\ todo' = RemoveOrder
    /\ Goto("remove")
    /\ UNCHANGED <<patched, stored, lock>>

RemoveNext ==
    /\ stage = "remove" /\ todo # <<>>
    /\ Remove(Head(todo))
    /\ todo' = Tail(todo)
    /\ Goto("remove")
    /\ UNCHANGED <<original, installed, lock>>

\* UnloadDll after cleanup_hooks.  It waits for ENGINES too, without a limit:
\* EngineRegistry shows that no waiting for ENGINES is part of a circle.
Finish ==
    /\ stage = "remove" /\ todo = <<>>
    /\ Goto("gone")
    /\ UNCHANGED <<statics, lock, todo, spoiled>>

-----------------------------------------------------------------------------
(* Calls of hooked functions.                                              *)

Enter(t, f) ==
    /\ at[t] = "out" /\ f \in patched
    /\ stage # "gone"
    /\ at' = [at EXCEPT ![t] = "hook"]
    /\ fn' = [fn EXCEPT ![t] = f]
    /\ transit' = IF Busy THEN transit \cup {t} ELSE transit \ {t}
    /\ refused' = refused \ {t}
    /\ nested' = nested \ {t}
    /\ UNCHANGED <<statics, lock, stage, todo, spoiled>>

\* The hook takes its mutex.
Lock(t) ==
    /\ at[t] = "hook" /\ lock[fn[t]] = Nobody
    /\ lock' = [lock EXCEPT ![fn[t]] = t]
    /\ at' = [at EXCEPT ![t] = "locked"]
    /\ UNCHANGED <<statics, stage, todo, fn, transit, refused, nested, spoiled>>

\* try_lock_timeout gives up; SSL_write waits for its slot without limit.
TimeOut(t) ==
    /\ at[t] = "hook" /\ lock[fn[t]] # Nobody
    /\ fn[t] # "SSL_write"
    /\ at' = [at EXCEPT ![t] = "out"]
    /\ UNCHANGED <<statics, lock, stage, todo, fn, transit, refused, nested, spoiled>>

Available(f) == IF f = "SSL_write" THEN original ELSE f \in stored

\* The pointer to the original function is copied and the mutex released.
Fetch(t) ==
    /\ at[t] = "locked"
    /\ lock' = [lock EXCEPT ![fn[t]] = Nobody]
    /\ IF Available(fn[t])
       THEN at' = [at EXCEPT ![t] = "call"] /\ UNCHANGED refused
       ELSE at' = [at EXCEPT ![t] = "out"] /\ refused' = refused \cup {t}
    /\ UNCHANGED <<statics, stage, todo, fn, transit, nested, spoiled>>

\* The original function returns.  ORIGINAL_SSL_WRITE is not a trampoline but
\* SSL_write itself, which jumps to the hook again while it is patched.
Call(t) ==
    /\ at[t] = "call"
    /\ IF fn[t] = "SSL_write" /\ fn[t] \in patched
       THEN at' = [at EXCEPT ![t] = "hook"] /\ nested' = nested \cup {t}
       ELSE at' = [at EXCEPT ![t] = "out"] /\ UNCHANGED nested
    /\ UNCHANGED <<statics, lock, stage, todo, fn, transit, refused, spoiled>>

-----------------------------------------------------------------------------
LoaderStep ==
    \/ Enable \/ Store \/ InstallFails
    \/ SkipSsl \/ PrepareSsl \/ EnableRead \/ EnableWrite \/ SslFails
    \/ RemoveRead \/ RemoveWrite \/ ClearSlots \/ RemoveNext \/ Finish

CallStep(t) == Lock(t) \/ TimeOut(t) \/ Fetch(t) \/ Call(t)

Next ==
    \/ LoaderStep
    \/ Unload
    \/ \E t \in Threads : CallStep(t) \/ (\E f \in Functions : Enter(t, f))

Spec == Init /\ [][Next]_vars

\* The loader runs.  Nothing is assumed of the threads that hold its locks.
FairSpec == Spec /\ WF_vars(LoaderStep)

-----------------------------------------------------------------------------
(* Properties.                                                             *)

\* Whatever step of the installation failed, UnloadDll leaves no function that
\* jumps into the DLL that is freed next, unless a hook held a mutex for five
\* seconds or a detour could not be disabled: install_hooks rolls nothing back
\* and relies on cleanup_hooks.
UnloadRemovesAll ==
    stage = "gone" /\ ~spoiled => patched = {} /\ stored = {} /\ ~original /\ ~installed

\* SSL_read and SSL_write are hooked together or not at all, and exactly when
\* SSL_HOOKS_INSTALLED and the slot of the original say so: the four ways out of
\* install_ssl_hooks.
SslTogether ==
    stage \in {"loaded", "failed"} /\ ~spoiled =>
        /\ ("SSL_read" \in patched) <=> installed
        /\ ("SSL_write" \in patched) <=> installed
        /\ original <=> installed

\* A hook refuses a call (no detour in its static, no original in its slot)
\* only if LoadDll or UnloadDll ran during the call: between the two of them no
\* connection of the client fails because of a hook without a trampoline.
RefusedOnlyInTransit == ~spoiled => refused \subseteq transit

\* UnloadDll returns although hooked calls hold the mutexes for as long as they
\* like: try_lock_timeout gives up, and mIRC does not hang when it unloads.
UnloadReturns == stage = "remove_read" ~> stage = "gone"

\* A call of a hooked function enters the hook once and then the function: "All
\* actual SSL operations (read/write/free) are performed through the original
\* OpenSSL function pointers, never through Rust" (hook_ssl.rs).
HookEnteredOnce == nested = {}
=============================================================================
