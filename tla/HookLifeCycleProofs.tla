------------------------- MODULE HookLifeCycleProofs -------------------------
(***************************************************************************)
(* Proofs about HookLifeCycle for any number of client threads.            *)
(*                                                                         *)
(* The invariant says what is hooked at each stage of LoadDll and          *)
(* UnloadDll, as long as no lock timed out and every detour could be       *)
(* disabled: a detour is enabled exactly when it is in its static, but for *)
(* the one being installed (Statics), and a call that no stage of the      *)
(* loader has overlapped finds its function available (Quiet).             *)
(***************************************************************************)
EXTENDS HookLifeCycle, TLAPS

Elems(s) == {s[i] : i \in 1..Len(s)}

\* What install_hooks, and uninstall_socket_hooks, have still to deal with.
InstallRests ==
    {InstallOrder, <<"send", "connect", "closesocket">>, <<"connect", "closesocket">>,
     <<"closesocket">>, <<>>}
RemoveRests ==
    {RemoveOrder, <<"connect", "send", "recv">>, <<"send", "recv">>, <<"recv">>, <<>>}

\* The SSL functions are hooked, or not, as SSL_HOOKS_INSTALLED says.
SslAgrees ==
    /\ ("SSL_read" \in patched) <=> installed
    /\ ("SSL_write" \in patched) <=> installed
    /\ original <=> installed

\* How far the two lists have been worked off.
Lists ==
    /\ stage \in {"install", "store"} => todo \in InstallRests
    /\ stage = "store" => todo # <<>>
    /\ stage = "remove" => todo \in RemoveRests

\* What is hooked at each stage.
Statics ==
    /\ stage \in {"install", "store"} =>
          /\ stored = Winsock \ Elems(todo)
          /\ ~original /\ ~installed
    /\ stage = "install" => patched = stored
    /\ stage = "store" => patched = stored \cup {Head(todo)}
    /\ stage \in {"ssl_read", "ssl_write"} =>
          /\ stored = Functions /\ original /\ ~installed
          /\ patched = IF stage = "ssl_read" THEN Winsock ELSE Winsock \cup {"SSL_read"}
    /\ stage \in {"loaded", "failed", "remove_read"} => patched = stored /\ SslAgrees
    /\ stage = "remove_write" => patched = stored /\ "SSL_read" \notin patched
    /\ stage = "clear" => patched = stored /\ patched \subseteq Winsock
    /\ stage = "remove" =>
          /\ patched = stored /\ patched \subseteq Elems(todo)
          /\ ~original /\ ~installed
    /\ stage = "gone" => patched = {} /\ stored = {} /\ ~original /\ ~installed

\* A call out of transit began, and is, between LoadDll and UnloadDll.
Quiet ==
    /\ \A t \in Threads \ transit : at[t] # "out" =>
          stage \in {"loaded", "failed"} /\ Available(fn[t])
    /\ refused \subseteq transit

HookInv == TypeOK /\ Lists /\ (~spoiled => Statics /\ Quiet)

-----------------------------------------------------------------------------
(* What is left of the two lists of functions.                             *)

\* One entry less: the first entry of a list is a Winsock function that the
\* rest does not name again, and the rest is again one of the lists.
LEMMA InstallTail ==
  ASSUME NEW s \in InstallRests, s # <<>>
  PROVE  /\ Tail(s) \in InstallRests /\ Head(s) \in Winsock
         /\ Winsock \ Elems(Tail(s)) = (Winsock \ Elems(s)) \cup {Head(s)}
<1> USE DEF InstallRests, InstallOrder, Elems, Winsock
<1>1. CASE s = <<"recv", "send", "connect", "closesocket">>
  BY <1>1
<1>2. CASE s = <<"send", "connect", "closesocket">>
  BY <1>2
<1>3. CASE s = <<"connect", "closesocket">>
  BY <1>3
<1>4. CASE s = <<"closesocket">>
  BY <1>4
<1> QED
  BY <1>1, <1>2, <1>3, <1>4

\* The same of the order in which they are removed.
LEMMA RemoveTail ==
  ASSUME NEW s \in RemoveRests, s # <<>>
  PROVE  /\ Tail(s) \in RemoveRests /\ Head(s) \in Winsock
         /\ Elems(s) \ {Head(s)} \subseteq Elems(Tail(s))
<1> USE DEF RemoveRests, RemoveOrder, Elems, Winsock
<1>1. CASE s = <<"closesocket", "connect", "send", "recv">>
  BY <1>1
<1>2. CASE s = <<"connect", "send", "recv">>
  BY <1>2
<1>3. CASE s = <<"send", "recv">>
  BY <1>3
<1>4. CASE s = <<"recv">>
  BY <1>4
<1> QED
  BY <1>1, <1>2, <1>3, <1>4

\* Both kinds of lists are of Winsock functions.
LEMMA RestsAreLists == InstallRests \cup RemoveRests \subseteq Seq(Winsock)
  BY DEF InstallRests, RemoveRests, InstallOrder, RemoveOrder, Winsock

\* At the ends nothing, or everything, is left.
LEMMA Ends ==
  /\ InstallOrder \in InstallRests /\ Elems(InstallOrder) = Winsock
  /\ RemoveOrder \in RemoveRests /\ Elems(RemoveOrder) = Winsock
  /\ Elems(<<>>) = {}
  BY DEF InstallRests, RemoveRests, InstallOrder, RemoveOrder, Elems, Winsock

-----------------------------------------------------------------------------
(* The invariant.                                                          *)

\* The initial states satisfy the invariant.
LEMMA HookInvInit == ASSUME Init PROVE HookInv
<1> USE HookAssumption, Ends DEF Init
<1>1. TypeOK
  <2>1. todo \in Seq(Winsock)
    BY RestsAreLists
  <2>2. /\ lock \in [Functions -> Threads \cup {Loader, Nobody}]
        /\ at \in [Threads -> {"out", "hook", "locked", "call"}]
        /\ fn \in [Threads -> Functions]
    BY DEF Functions, Winsock
  <2> QED
    BY <2>1, <2>2 DEF TypeOK
<1>2. Lists
  BY DEF Lists
<1>3. Statics
  BY DEF Statics, InstallOrder, SslAgrees
<1>4. Quiet
  BY DEF Quiet
<1> QED
  BY <1>1, <1>2, <1>3, <1>4 DEF HookInv

\* A list being worked off stays one of the lists.
LEMMA ListsStep == ASSUME TypeOK, Lists, [Next]_vars PROVE Lists'
<1> USE InstallTail, RemoveTail, Ends DEF Lists, Goto
<1>1. CASE LoaderStep
  BY <1>1 DEF LoaderStep, Enable, Store, InstallFails, SkipSsl, PrepareSsl, EnableRead,
              EnableWrite, SslFails, RemoveRead, RemoveWrite, ClearSlots, RemoveNext, Finish
<1>2. CASE Unload
  BY <1>2 DEF Unload
<1>3. ASSUME NEW t \in Threads, CallStep(t) \/ \E f \in Functions : Enter(t, f)
      PROVE  Lists'
  BY <1>3 DEF CallStep, Lock, TimeOut, Fetch, Call, Enter
<1>4. CASE UNCHANGED vars
  BY <1>4 DEF vars
<1> QED
  BY <1>1, <1>2, <1>3, <1>4 DEF Next

\* Every step keeps the variables within their types.
LEMMA TypeStep == ASSUME TypeOK, Lists, [Next]_vars PROVE TypeOK'
<1> USE HookAssumption DEF TypeOK, Goto, statics
<1>1. ASSUME Enable PROVE TypeOK'
  BY <1>1, InstallTail DEF Enable, Lists, Functions
<1>2. ASSUME Store PROVE TypeOK'
  <2>1. Head(todo) \in Functions /\ Tail(todo) \in Seq(Winsock)
    BY <1>2, InstallTail, RestsAreLists DEF Store, Lists, Functions
  <2> QED
    BY <1>2, <2>1 DEF Store
<1>3. ASSUME InstallFails \/ SkipSsl PROVE TypeOK'
  BY <1>3 DEF InstallFails, SkipSsl
<1>4. ASSUME PrepareSsl PROVE TypeOK'
  BY <1>4 DEF PrepareSsl, SslLocks, Functions
<1>5. ASSUME EnableRead PROVE TypeOK'
  BY <1>5 DEF EnableRead, Functions, Ssl
<1>6. ASSUME EnableWrite PROVE TypeOK'
  BY <1>6 DEF EnableWrite, SslLocks, Functions, Ssl
<1>7. ASSUME SslFails PROVE TypeOK'
  BY <1>7 DEF SslFails, SslLocks
<1>8. ASSUME RemoveRead \/ RemoveWrite PROVE TypeOK'
  BY <1>8 DEF RemoveRead, RemoveWrite, Remove, Removed
<1>9. ASSUME ClearSlots PROVE TypeOK'
  <2>1. RemoveOrder \in Seq(Winsock)
    BY Ends, RestsAreLists
  <2> QED
    BY <1>9, <2>1 DEF ClearSlots
<1>10. ASSUME RemoveNext PROVE TypeOK'
  <2>1. Tail(todo) \in Seq(Winsock)
    BY <1>10, RemoveTail, RestsAreLists DEF RemoveNext, Lists
  <2> QED
    BY <1>10, <2>1 DEF RemoveNext, Remove, Removed
<1>11. ASSUME Finish \/ Unload PROVE TypeOK'
  BY <1>11 DEF Finish, Unload
<1>12. ASSUME NEW t \in Threads, NEW f \in Functions, Enter(t, f) PROVE TypeOK'
  BY <1>12 DEF Enter
<1>13. ASSUME NEW t \in Threads, Lock(t) \/ TimeOut(t) PROVE TypeOK'
  BY <1>13 DEF Lock, TimeOut
<1>14. ASSUME NEW t \in Threads, Fetch(t) \/ Call(t) PROVE TypeOK'
  BY <1>14 DEF Fetch, Call
<1>15. CASE UNCHANGED vars
  BY <1>15 DEF vars, calls
<1> QED
  BY <1>1, <1>2, <1>3, <1>4, <1>5, <1>6, <1>7, <1>8, <1>9, <1>10, <1>11, <1>12, <1>13,
     <1>14, <1>15 DEF Next, LoaderStep, CallStep

\* What has been spoiled stays so: the rest of the invariant is about
\* behaviours in which nothing ever was.
LEMMA SpoiledStays == ASSUME [Next]_vars, ~spoiled' PROVE ~spoiled
<1>1. CASE LoaderStep
  BY <1>1 DEF LoaderStep, Enable, Store, InstallFails, SkipSsl, PrepareSsl, EnableRead,
              EnableWrite, SslFails, RemoveRead, RemoveWrite, ClearSlots, RemoveNext, Finish,
              Remove, Removed
<1>2. CASE Unload
  BY <1>2 DEF Unload
<1>3. ASSUME NEW t \in Threads, CallStep(t) \/ \E f \in Functions : Enter(t, f)
      PROVE  ~spoiled
  BY <1>3 DEF CallStep, Lock, TimeOut, Fetch, Call, Enter
<1>4. CASE UNCHANGED vars
  BY <1>4 DEF vars
<1> QED
  BY <1>1, <1>2, <1>3, <1>4 DEF Next

\* Every stage of the loader leaves hooked what the next one expects.
LEMMA StaticsStep ==
  ASSUME TypeOK, Lists, Statics, [Next]_vars, ~spoiled, ~spoiled'
  PROVE  Statics'
<1> USE DEF TypeOK, Statics, Goto, statics
<1>1. ASSUME Enable PROVE Statics'
  BY <1>1 DEF Enable
<1>2. ASSUME Store PROVE Statics'
  <2>1. Winsock \ Elems(todo') = (Winsock \ Elems(todo)) \cup {Head(todo)}
    BY <1>2, InstallTail DEF Store, Lists
  <2> QED
    BY <1>2, <2>1 DEF Store
<1>3. ASSUME InstallFails \/ SkipSsl PROVE Statics'
  <2>1. {"SSL_read", "SSL_write"} \cap patched = {}
    BY <1>3 DEF InstallFails, SkipSsl, Winsock
  <2> QED
    BY <1>3, <2>1 DEF InstallFails, SkipSsl, SslAgrees
<1>4. ASSUME PrepareSsl PROVE Statics'
  BY <1>4, Ends DEF PrepareSsl, Functions
<1>5. ASSUME EnableRead PROVE Statics'
  BY <1>5 DEF EnableRead
<1>6. ASSUME EnableWrite PROVE Statics'
  BY <1>6 DEF EnableWrite, SslAgrees, Functions, Ssl
<1>7. ASSUME SslFails PROVE Statics'
  <2>1. patched' = Winsock /\ stored' = Winsock
    BY <1>7 DEF SslFails, Functions, Winsock, Ssl
  <2> QED
    BY <1>7, <2>1 DEF SslFails, SslAgrees, Winsock
<1>8. ASSUME Unload PROVE Statics'
  BY <1>8 DEF Unload, SslAgrees
<1>9. ASSUME RemoveRead PROVE Statics'
  BY <1>9 DEF RemoveRead, Remove, Removed
<1>10. ASSUME RemoveWrite PROVE Statics'
  BY <1>10 DEF RemoveWrite, Removed, Functions, Ssl
<1>11. ASSUME ClearSlots PROVE Statics'
  BY <1>11, Ends DEF ClearSlots
<1>12. ASSUME RemoveNext PROVE Statics'
  <2>1. Elems(todo) \ {Head(todo)} \subseteq Elems(todo')
    BY <1>12, RemoveTail DEF RemoveNext, Lists
  <2> QED
    BY <1>12, <2>1 DEF RemoveNext, Remove, Removed
<1>13. ASSUME Finish PROVE Statics'
  BY <1>13, Ends DEF Finish
<1>14. ASSUME NEW t \in Threads, CallStep(t) \/ \E f \in Functions : Enter(t, f)
       PROVE  Statics'
  BY <1>14 DEF CallStep, Lock, TimeOut, Fetch, Call, Enter, SslAgrees
<1>15. CASE UNCHANGED vars
  BY <1>15 DEF vars, SslAgrees
<1> QED
  BY <1>1, <1>2, <1>3, <1>4, <1>5, <1>6, <1>7, <1>8, <1>9, <1>10, <1>11, <1>12, <1>13,
     <1>14, <1>15 DEF Next, LoaderStep

\* A step of the loader puts every call in transit; a call that begins, or goes
\* on, while the loader rests finds every hooked function available.
LEMMA QuietStep ==
  ASSUME TypeOK, Statics, Quiet, [Next]_vars
  PROVE  Quiet'
<1> USE DEF TypeOK, Quiet
<1>1. ASSUME NEW s, Goto(s) PROVE Quiet'
  BY <1>1 DEF Goto
<1>2. ASSUME LoaderStep \/ Unload PROVE Quiet'
  BY <1>1, <1>2 DEF LoaderStep, Enable, Store, InstallFails, SkipSsl, PrepareSsl, EnableRead,
              EnableWrite, SslFails, RemoveRead, RemoveWrite, ClearSlots, RemoveNext, Finish,
              Unload
<1>3. ASSUME NEW t \in Threads, NEW f \in Functions, Enter(t, f) PROVE Quiet'
  <2>1. stage \in {"loaded", "failed"} => Available(f)
    BY <1>3 DEF Enter, Statics, SslAgrees, Available
  <2> QED
    BY <1>3, <2>1 DEF Enter, Busy, Available, statics
<1>4. ASSUME NEW t \in Threads, Lock(t) \/ TimeOut(t) PROVE Quiet'
  BY <1>4 DEF Lock, TimeOut, Available, statics
<1>5. ASSUME NEW t \in Threads, Fetch(t) PROVE Quiet'
  BY <1>5 DEF Fetch, Available, statics
<1>6. ASSUME NEW t \in Threads, Call(t) PROVE Quiet'
  BY <1>6 DEF Call, Available, statics
<1>7. CASE UNCHANGED vars
  BY <1>7 DEF vars, calls, statics, Available
<1> QED
  BY <1>2, <1>3, <1>4, <1>5, <1>6, <1>7 DEF Next, CallStep

\* Every step keeps the invariant.
LEMMA HookInvStep == ASSUME HookInv, [Next]_vars PROVE HookInv'
  BY TypeStep, ListsStep, SpoiledStays, StaticsStep, QuietStep DEF HookInv

\* The invariant holds of every state, for any threads.
THEOREM HookInvariant == Spec => []HookInv
  BY HookInvInit, HookInvStep, PTL DEF Spec

-----------------------------------------------------------------------------
(* The properties.                                                         *)

\* TypeOK for any threads.
THEOREM TypeCorrect == Spec => []TypeOK
<1>1. HookInv => TypeOK
  BY DEF HookInv
<1> QED
  BY <1>1, HookInvariant, PTL

\* UnloadRemovesAll for any threads: whichever step of the installation failed,
\* what UnloadDll leaves behind does not jump into the DLL that is freed next.
THEOREM UnloadRemovesAllHolds == Spec => []UnloadRemovesAll
<1>1. HookInv => UnloadRemovesAll
  BY DEF HookInv, Statics, UnloadRemovesAll
<1> QED
  BY <1>1, HookInvariant, PTL

\* SslTogether for any threads: the ways out of install_ssl_hooks.
THEOREM SslTogetherHolds == Spec => []SslTogether
<1>1. HookInv => SslTogether
  BY DEF HookInv, Statics, SslAgrees, SslTogether
<1> QED
  BY <1>1, HookInvariant, PTL

\* RefusedOnlyInTransit for any threads: a hook has its trampoline whenever the
\* loader rests.
THEOREM RefusedOnlyInTransitHolds == Spec => []RefusedOnlyInTransit
<1>1. HookInv => RefusedOnlyInTransit
  BY DEF HookInv, Quiet, RefusedOnlyInTransit
<1> QED
  BY <1>1, HookInvariant, PTL
=============================================================================
