------------------------ MODULE EngineRegistryProofs ------------------------
(***************************************************************************)
(* Proofs about EngineRegistry for any threads, engines and sockets.       *)
(*                                                                         *)
(* The invariant follows one engine through the gap between                *)
(* registered_ptrs and the lists: the thread that holds ENGINES is the     *)
(* only one in that gap (Holding), so each list differs from the pointers  *)
(* at most in the engine that thread works on (Counted), and the engines   *)
(* of a pass stay in the list while it is read (Passing).                  *)
(***************************************************************************)
EXTENDS EngineRegistry, TLAPS

InGap(t) == at[t] \in {"push", "retain"}

Holding ==
    /\ \A t \in Threads : InGap(t) => engineLock = t /\ eng[t] \in Engines
    /\ \A t \in Threads : at[t] = "names" => engineLock = t
    /\ engineLock # Nobody => InGap(engineLock) \/ at[engineLock] = "names"
    /\ \A t \in asked : InGap(t)

\* t still has to take e off the list it is on.
Dropping(t, e) == at[t] = "retain" /\ eng[t] = e /\ (pass[t] = "pre" \/ e \in Post)

Counted ==
    \A e \in Engines :
        /\ e \in registered =>
             listed[e] = IF \E t \in Threads : at[t] = "push" /\ eng[t] = e THEN 0 ELSE 1
        /\ e \notin registered =>
             /\ listed[e] = IF \E t \in Threads : Dropping(t, e) THEN 1 ELSE 0
             /\ \A t \in Threads : at[t] = "push" => eng[t] # e
        /\ \A t \in Threads : at[t] = "retain" /\ eng[t] = e => e \notin registered

Passing ==
    \A t \in Threads : at[t] = "calls" =>
        left[t] \subseteq {e \in List(pass[t]) : listed[e] > 0}

ListInv == TypeOK /\ Holding /\ Counted /\ Passing

\* The initial states satisfy the invariant.
LEMMA ListInvInit == ASSUME Init PROVE ListInv
  BY EngineAssumption DEF Init, ListInv, TypeOK, Holding, Counted, Passing, InGap, Dropping

\* Every operation keeps the variables within their types.
LEMMA TypeStep == ASSUME TypeOK, Holding, [Next]_vars PROVE TypeOK'
<1> USE EngineAssumption DEF TypeOK, Goto
<1>1. ASSUME NEW e \in Engines, LoadEngine(e) PROVE TypeOK'
  BY <1>1 DEF LoadEngine, sockets, calls
<1>2. ASSUME NEW e \in Engines, UnloadEngine(e) PROVE TypeOK'
  BY <1>2 DEF UnloadEngine, sockets, calls
<1>3. ASSUME NEW t \in Threads, NEW e \in Engines, Register(t, e) PROVE TypeOK'
  BY <1>3 DEF Register, sockets, calls
<1>4. ASSUME NEW t \in Threads, NEW e \in Engines, Unregister(t, e) PROVE TypeOK'
  BY <1>4 DEF Unregister, sockets
<1>5. ASSUME NEW t \in Threads, NEW s \in Sockets, Line(t, s) PROVE TypeOK'
  BY <1>5 DEF Line, registry, sockets
<1>6. ASSUME NEW t \in Threads, NEW s \in Sockets, Close(t, s) PROVE TypeOK'
  BY <1>6 DEF Close, registry, sockets
<1>7. ASSUME NEW t \in Threads, AskWrite(t) PROVE TypeOK'
  BY <1>7 DEF AskWrite, sockets, calls
<1>8. ASSUME NEW t \in Threads, Push(t) PROVE TypeOK'
  BY <1>8 DEF Push, sockets, calls, Holding, InGap
<1>9. ASSUME NEW t \in Threads, Retain(t) PROVE TypeOK'
  BY <1>9 DEF Retain, NextList, sockets, Holding, InGap
<1>10. ASSUME NEW t \in Threads, TakeEngines(t) PROVE TypeOK'
  BY <1>10 DEF TakeEngines, registry, sockets, calls
<1>11. ASSUME NEW t \in Threads, LockShard(t) PROVE TypeOK'
  BY <1>11 DEF LockShard, registry, calls
<1>12. ASSUME NEW t \in Threads, Insert(t) PROVE TypeOK'
  BY <1>12 DEF Insert, registry, calls
<1>13. ASSUME NEW t \in Threads, StartPass(t) PROVE TypeOK'
  BY <1>13 DEF StartPass, registry, sockets, List
<1>14. ASSUME NEW t \in Threads, Callback(t) PROVE TypeOK'
  BY <1>14 DEF Callback, registry, sockets
<1>15. ASSUME NEW t \in Threads, EndPass(t) PROVE TypeOK'
  BY <1>15 DEF EndPass, registry, sockets
<1>16. ASSUME NEW t \in Threads, Untrack(t) PROVE TypeOK'
  BY <1>16 DEF Untrack, registry, calls
<1>17. ASSUME NEW t \in Threads, Statistics(t) \/ LockForNames(t) PROVE TypeOK'
  BY <1>17 DEF Statistics, LockForNames, registry, sockets, calls
<1>18. ASSUME NEW t \in Threads, Names(t) PROVE TypeOK'
  BY <1>18 DEF Names, NextList, sockets
<1>19. CASE UNCHANGED vars
  BY <1>19 DEF vars, registry, sockets, calls
<1> QED
  BY <1>1, <1>2, <1>3, <1>4, <1>5, <1>6, <1>7, <1>8, <1>9, <1>10, <1>11, <1>12,
     <1>13, <1>14, <1>15, <1>16, <1>17, <1>18, <1>19 DEF Next

\* The registry's own operations keep the rest of the invariant.
LEMMA RegistryStep ==
  ASSUME ListInv, NEW t \in Threads,
         \/ \E e \in Engines : Register(t, e) \/ Unregister(t, e)
         \/ AskWrite(t) \/ Push(t) \/ Retain(t)
  PROVE  Holding' /\ Counted' /\ Passing'
<1> USE EngineAssumption DEF ListInv, TypeOK, Holding, Counted, Passing, InGap, Dropping,
                             Goto, List
<1>1. ASSUME NEW e \in Engines, Register(t, e) PROVE Holding' /\ Counted' /\ Passing'
  <2>1. Holding'
    BY <1>1 DEF Register
  <2>2. Counted'
    BY <1>1 DEF Register
  <2>3. Passing'
    BY <1>1 DEF Register, calls
  <2> QED
    BY <2>1, <2>2, <2>3
<1>2. ASSUME NEW e \in Engines, Unregister(t, e) PROVE Holding' /\ Counted' /\ Passing'
  <2>1. Holding'
    BY <1>2 DEF Unregister
  <2>2. Counted'
    BY <1>2 DEF Unregister
  <2>3. Passing'
    BY <1>2 DEF Unregister, calls
  <2> QED
    BY <2>1, <2>2, <2>3
<1>3. ASSUME AskWrite(t) PROVE Holding' /\ Counted' /\ Passing'
  <2>1. Holding'
    BY <1>3 DEF AskWrite, calls
  <2>2. Counted'
    BY <1>3 DEF AskWrite, calls
  <2>3. Passing'
    BY <1>3 DEF AskWrite, calls
  <2> QED
    BY <2>1, <2>2, <2>3
<1>4. ASSUME Push(t) PROVE Holding' /\ Counted' /\ Passing'
  <2>1. Holding'
    BY <1>4 DEF Push, Wants, Readers
  <2>2. Counted'
    BY <1>4 DEF Push, Wants, Readers
  <2>3. Passing'
    BY <1>4 DEF Push, Wants, Readers, calls
  <2> QED
    BY <2>1, <2>2, <2>3
<1>5. ASSUME Retain(t) PROVE Holding' /\ Counted' /\ Passing'
  <2>1. Holding'
    BY <1>5 DEF Retain, NextList, Readers
  <2>2. Counted'
    BY <1>5 DEF Retain, NextList, Readers
  <2>3. Passing'
    BY <1>5 DEF Retain, NextList, Readers, calls
  <2> QED
    BY <2>1, <2>2, <2>3
<1> QED
  BY <1>1, <1>2, <1>3, <1>4, <1>5

\* A socket call in progress changes neither the pointers nor the lists.
LEMMA SocketStep ==
  ASSUME ListInv, NEW t \in Threads,
         \/ \E s \in Sockets : Line(t, s) \/ Close(t, s)
         \/ TakeEngines(t) \/ LockShard(t) \/ Insert(t)
         \/ StartPass(t) \/ Callback(t) \/ EndPass(t) \/ Untrack(t)
  PROVE  Holding' /\ Counted' /\ Passing'
<1> USE DEF ListInv, TypeOK, InGap, Goto, registry
<1>1. /\ UNCHANGED <<engineLock, registered, listed, asked, eng>>
      /\ ~InGap(t) /\ ~InGap(t)' /\ at[t] # "names" /\ at'[t] # "names"
      /\ \A u \in Threads \ {t} : at'[u] = at[u] /\ pass'[u] = pass[u] /\ left'[u] = left[u]
  BY DEF Line, Close, TakeEngines, LockShard, Insert, StartPass, Callback, EndPass, Untrack,
         calls
<1>2. Holding'
  BY <1>1 DEF Holding
<1>3. Counted'
  BY <1>1 DEF Counted, Dropping
<1>4. at'[t] = "calls" => left'[t] \subseteq {e \in List(pass'[t]) : listed[e] > 0}
  <2>1. CASE StartPass(t)
    BY <2>1 DEF StartPass
  <2>2. CASE Callback(t)
    BY <2>2 DEF Callback, Passing
  <2>3. CASE ~StartPass(t) /\ ~Callback(t)
    BY <2>3 DEF Line, Close, TakeEngines, LockShard, Insert, EndPass, Untrack
  <2> QED
    BY <2>1, <2>2, <2>3
<1>5. Passing'
  BY <1>1, <1>4 DEF Passing, List
<1> QED
  BY <1>2, <1>3, <1>5

\* The listing of the engines takes ENGINES, and changes neither the pointers nor
\* the lists.
LEMMA InfoStep ==
  ASSUME ListInv, NEW t \in Threads, Statistics(t) \/ LockForNames(t) \/ Names(t)
  PROVE  Holding' /\ Counted' /\ Passing'
<1> USE EngineAssumption DEF ListInv, TypeOK, InGap, Goto, registry
<1>1. /\ UNCHANGED <<registered, listed, asked, eng, left>>
      /\ ~InGap(t) /\ ~InGap(t)'
      /\ at[t] # "calls" /\ at'[t] # "calls"
      /\ \A u \in Threads \ {t} : at'[u] = at[u] /\ pass'[u] = pass[u]
  BY DEF Statistics, LockForNames, Names, NextList, calls
<1>2. Holding'
  BY DEF Statistics, LockForNames, Names, NextList, Holding
<1>3. Counted'
  BY <1>1 DEF Counted, Dropping
<1>4. Passing'
  BY <1>1 DEF Passing, List
<1> QED
  BY <1>2, <1>3, <1>4

\* The invariant is inductive.
LEMMA ListInvStep == ASSUME ListInv, [Next]_vars PROVE ListInv'
<1>1. TypeOK'
  BY TypeStep DEF ListInv
<1>2. ASSUME NEW e \in Engines, LoadEngine(e) \/ UnloadEngine(e)
      PROVE  Holding' /\ Counted' /\ Passing'
  BY <1>2 DEF LoadEngine, UnloadEngine, ListInv, Holding, Counted, Passing, InGap, Dropping,
              calls, List
<1>3. CASE UNCHANGED vars
  BY <1>1, <1>3 DEF vars, registry, calls, ListInv, Holding, Counted, Passing, InGap, Dropping, List
<1> QED
  BY <1>1, <1>2, <1>3, RegistryStep, SocketStep, InfoStep DEF Next, ListInv

\* In every reachable state the variables have their types.
THEOREM TypeCorrect == Spec => []TypeOK
<1>1. ListInv => TypeOK
  BY DEF ListInv
<1> QED
  BY <1>1, ListInvInit, ListInvStep, PTL DEF Spec

\* However many threads register and unregister engines, the lists and the
\* registered pointers agree whenever ENGINES is free.
THEOREM ListsMatch == Spec => []ListsMatchPointers
<1>1. ListInv => ListsMatchPointers
  BY EngineAssumption
     DEF ListInv, TypeOK, Holding, Counted, InGap, Dropping, ListsMatchPointers
<1> QED
  BY <1>1, ListInvInit, ListInvStep, PTL DEF Spec

-----------------------------------------------------------------------------
\* Of the engines that unregister before they go, whatever the lists or a call in
\* progress refer to is loaded.
Alive ==
    /\ \A e \in Engines \ Forgetful : listed[e] > 0 \/ e \in registered => e \in loaded
    /\ \A t \in Threads : InGap(t) /\ eng[t] \notin Forgetful => eng[t] \in loaded

\* Every step preserves this, UnloadEngine because such an engine is unregistered.
LEMMA AliveStep ==
  ASSUME ListInv, Alive, [Next]_vars
  PROVE  Alive'
<1> USE DEF ListInv, TypeOK, Alive, InGap, Goto
<1>1. ASSUME NEW e \in Engines, LoadEngine(e) PROVE Alive'
  BY <1>1 DEF LoadEngine
<1>2. ASSUME NEW e \in Engines, UnloadEngine(e) PROVE Alive'
  BY <1>2 DEF UnloadEngine, Counted, Dropping
<1>3. ASSUME NEW t \in Threads, NEW e \in Engines, Register(t, e) \/ Unregister(t, e)
      PROVE  Alive'
  BY <1>3 DEF Register, Unregister
<1>4. ASSUME NEW t \in Threads, AskWrite(t) \/ Push(t) \/ Retain(t) PROVE Alive'
  BY <1>4 DEF AskWrite, Push, Retain, NextList, Holding
<1>5. ASSUME NEW t \in Threads,
             \/ \E s \in Sockets : Line(t, s) \/ Close(t, s)
             \/ TakeEngines(t) \/ LockShard(t) \/ Insert(t)
             \/ StartPass(t) \/ Callback(t) \/ EndPass(t) \/ Untrack(t)
      PROVE  Alive'
  BY <1>5 DEF Line, Close, TakeEngines, LockShard, Insert, StartPass, Callback, EndPass,
              Untrack, registry
<1>6. ASSUME NEW t \in Threads, Statistics(t) \/ LockForNames(t) \/ Names(t) PROVE Alive'
  BY <1>6 DEF Statistics, LockForNames, Names, NextList, registry
<1>7. CASE UNCHANGED vars
  BY <1>7 DEF vars, registry
<1> QED
  BY <1>1, <1>2, <1>3, <1>4, <1>5, <1>6, <1>7 DEF Next

\* No pass ever calls into the DLL of an engine that unregistered before it went,
\* whatever passes were in progress meanwhile and whatever forgetful engines do.
THEOREM CallbacksAlive == Spec => []CallbacksReachLoaded
<1>1. Init => Alive
  BY DEF Init, Alive, InGap
<1>2. ListInv /\ Alive => CallbacksReachLoaded
  BY DEF ListInv, TypeOK, Alive, Passing, List, CallbacksReachLoaded
<1> QED
  BY <1>1, <1>2, ListInvInit, ListInvStep, AliveStep, PTL DEF Spec

\* No step replaces the SocketInfo of a tracked socket by another one.
THEOREM OneInfo == Spec => OneInfoPerSocket
<1> DEFINE Kept == \A s \in Sockets :
                     tracked[s] # NoInfo => tracked'[s] \in {tracked[s], NoInfo}
<1>1. ASSUME TypeOK, [Next]_vars
      PROVE  [Kept]_tracked
  <2> USE DEF TypeOK
  <2>1. ASSUME NEW t \in Threads, Insert(t) PROVE Kept
    <3>1. CASE tracked[sock[t]] = NoInfo
      <4>1. PICK i \in Infos : tracked' = [tracked EXCEPT ![sock[t]] = i]
        BY <2>1, <3>1 DEF Insert
      <4> QED
        BY <1>1, <3>1, <4>1
    <3>2. CASE tracked[sock[t]] # NoInfo
      BY <1>1, <2>1, <3>2 DEF Insert
    <3> QED
      BY <3>1, <3>2
  <2>2. ASSUME NEW t \in Threads, Untrack(t) PROVE Kept
    BY <2>2 DEF Untrack
  <2>3. CASE \A t \in Threads : ~Insert(t) /\ ~Untrack(t)
    BY <1>1, <2>3 DEF Next, vars, LoadEngine, UnloadEngine, Register, Unregister, Line, Close,
       AskWrite, Push, Retain, TakeEngines, LockShard, StartPass, Callback, EndPass, sockets,
       Statistics, LockForNames, Names
  <2> QED
    BY <2>1, <2>2, <2>3
<1> QED
  BY <1>1, TypeCorrect, PTL DEF Spec, OneInfoPerSocket

-----------------------------------------------------------------------------
\* Only a thread about to insert holds the shard for more than one step.
Sharded == shard # Nobody => at[shard] = "inserted"

\* Every step keeps that.
LEMMA ShardedStep == ASSUME TypeOK, Sharded, [Next]_vars PROVE Sharded'
<1> USE EngineAssumption DEF TypeOK, Sharded, Goto
<1>1. ASSUME NEW e \in Engines, LoadEngine(e) \/ UnloadEngine(e) PROVE Sharded'
  BY <1>1 DEF LoadEngine, UnloadEngine, sockets
<1>2. ASSUME NEW t \in Threads, NEW e \in Engines, Register(t, e) \/ Unregister(t, e)
      PROVE  Sharded'
  BY <1>2 DEF Register, Unregister, sockets
<1>3. ASSUME NEW t \in Threads, AskWrite(t) \/ Push(t) \/ Retain(t) PROVE Sharded'
  BY <1>3 DEF AskWrite, Push, Retain, NextList, sockets
<1>4. ASSUME NEW t \in Threads,
             \/ \E s \in Sockets : Line(t, s) \/ Close(t, s)
             \/ TakeEngines(t) \/ LockShard(t) \/ Insert(t)
             \/ StartPass(t) \/ Callback(t) \/ EndPass(t) \/ Untrack(t)
      PROVE  Sharded'
  BY <1>4 DEF Line, Close, TakeEngines, LockShard, Insert, StartPass, Callback, EndPass,
              Untrack, sockets
<1>5. ASSUME NEW t \in Threads, Statistics(t) \/ LockForNames(t) \/ Names(t) PROVE Sharded'
  BY <1>5 DEF Statistics, LockForNames, Names, NextList, sockets
<1>6. CASE UNCHANGED vars
  BY <1>6 DEF vars, sockets
<1> QED
  BY <1>1, <1>2, <1>3, <1>4, <1>5, <1>6 DEF Next

\* The order in which locks are waited for: ENGINES and the shard before the
\* read side of a list, that before its write side, that before a callback.
Rank(t) ==
    CASE at[t] \in {"engines", "info", "insert", "untrack"} -> 4
      [] at[t] \in {"gap", "names"} -> 3
      [] at[t] \in {"push", "retain"} -> 2
      [] at[t] = "calls" -> 1
      [] OTHER -> 0

\* A thread only waits for threads of a lower rank.
LEMMA WaitsDown ==
  ASSUME TypeOK, Holding, Sharded, NEW t \in Threads, NEW u \in Threads, u \in Waits(t)
  PROVE  Rank(u) < Rank(t)
<1> USE EngineAssumption DEF TypeOK, Holding, Sharded, InGap, Rank, Waits
<1>1. CASE at[t] \in {"engines", "info"}
  BY <1>1
<1>2. CASE at[t] = "insert" \/ at[t] = "untrack"
  BY <1>2 DEF Guards
<1>3. CASE t \in asked
  BY <1>3
<1>4. CASE at[t] \in {"gap", "names"}
  BY <1>4
<1>5. CASE at[t] = "calls"
  BY <1>5
<1>6. CASE at[t] \in {"idle", "inserted"} \/ (InGap(t) /\ t \notin asked)
  BY <1>6
<1> QED
  BY <1>1, <1>2, <1>3, <1>4, <1>5, <1>6

\* No group of threads is ever deadlocked over ENGINES, the lists and the
\* shard of ACTIVE_SOCKETS.
THEOREM NoDeadlock == Spec => []NoCircularWait
<1>1. Init => Sharded
  BY DEF Init, Sharded
<1>2. ASSUME ListInv, Sharded PROVE NoCircularWait
  <2>1. SUFFICES ASSUME NEW group \in SUBSET Threads, group # {},
                        \A t \in group : Waits(t) \cap group # {}
                 PROVE  FALSE
    BY DEF NoCircularWait
  <2>2. \A t \in group : \E u \in group : Rank(u) < Rank(t)
    BY <1>2, <2>1, WaitsDown DEF ListInv
  <2>3. \A t \in group : Rank(t) \in 0..4
    BY DEF Rank
  <2>4. \A t \in group : Rank(t) # 0
    BY <2>2, <2>3
  <2>5. \A t \in group : Rank(t) # 1
    BY <2>2, <2>3, <2>4
  <2>6. \A t \in group : Rank(t) # 2
    BY <2>2, <2>3, <2>4, <2>5
  <2>7. \A t \in group : Rank(t) # 3
    BY <2>2, <2>3, <2>4, <2>5, <2>6
  <2> QED
    BY <2>1, <2>2, <2>3, <2>4, <2>5, <2>6, <2>7
<1>3. ListInv => TypeOK
  BY DEF ListInv
<1> QED
  BY <1>1, <1>2, <1>3, ListInvInit, ListInvStep, ShardedStep, PTL DEF Spec
=============================================================================
