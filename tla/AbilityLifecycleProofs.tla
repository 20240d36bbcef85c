----------------------- MODULE AbilityLifecycleProofs -----------------------
(***************************************************************************)
(* AbilityScheduler implements AbilityLifecycle, for any number of SAs,    *)
(* processes and callbacks and any bounds.  From the lifecycle alone       *)
(* follows that SAs and their processes stay in step.                      *)
(***************************************************************************)
EXTENDS AbilityCountProofs

-----------------------------------------------------------------------------
(* What the counts say.                                                    *)

(* The sizes of disjoint sets add up.                                      *)
LEMMA DisjointUnion ==
    ASSUME NEW S, NEW T, IsFiniteSet(S), IsFiniteSet(T), S \cap T = {}
    PROVE  /\ IsFiniteSet(S \cup T)
           /\ Cardinality(S \cup T) = Cardinality(S) + Cardinality(T)
<1>1. /\ IsFiniteSet(S \cup T)
      /\ Cardinality(S \cup T) = Cardinality(S) + Cardinality(T) - Cardinality(S \cap T)
    BY FS_Union, Zenon
<1>2. /\ Cardinality(S \cap T) = 0
      /\ Cardinality(S) \in Nat /\ Cardinality(T) \in Nat
    BY FS_EmptySet, FS_CardinalityType
<1> QED BY <1>1, <1>2

InState(p, x) == {s \in saList(p) : saState[s] = x}

(* CanUnloadAllSystemAbilityLocked reads three counts; it holds exactly if *)
(* no SA is in use or being loaded and some SA is idle or UNLOADING.       *)
LEMMA CanUnloadAllMeaning ==
    ASSUME AbilityInv, NEW p \in Procs, NEW checkRecycle \in BOOLEAN
    PROVE  CanUnloadAllSystemAbility(p, checkRecycle) <=>
            /\ \A s \in saList(p) : saState[s] \in {"NOT_LOADED", "UNLOADABLE", "UNLOADING"}
            /\ \E s \in saList(p) : saState[s] # "NOT_LOADED"
            /\ checkRecycle => p \in ImmediateRecycle
<1> DEFINE L == saList(p)
           A == InState(p, "NOT_LOADED")
           B == InState(p, "UNLOADABLE")
           C == InState(p, "UNLOADING")
           a == stateCount[p]["NOT_LOADED"]
           b == stateCount[p]["UNLOADABLE"]
           c == stateCount[p]["UNLOADING"]
<1>1. a = Cardinality(A) /\ b = Cardinality(B) /\ c = Cardinality(C)
    BY DEF AbilityInv, StateCountsMatch, AbilityStates, InState
<1>2. L \in SUBSET SAs /\ A \in SUBSET L /\ B \in SUBSET L /\ C \in SUBSET L
    BY DEF saList, InState
<1>3. A \in SUBSET SAs /\ B \in SUBSET SAs /\ C \in SUBSET SAs
    BY <1>2
<1>4. A \cap B = {} /\ (A \cup B) \cap C = {} /\ A \cup B \cup C \in SUBSET L
    BY DEF InState
<1>5. \A s \in L : saState[s] \in {"NOT_LOADED", "UNLOADABLE", "UNLOADING"} <=> s \in A \cup B \cup C
    BY DEF InState
<1>6. /\ (\E s \in L : saState[s] = "UNLOADABLE") <=> B # {}
      /\ (\E s \in L : saState[s] = "UNLOADING") <=> C # {}
    BY DEF InState
<1>7. CanUnloadAllSystemAbility(p, checkRecycle) <=>
        /\ b # 0 \/ c # 0
        /\ a + b + c = Cardinality(L)
        /\ checkRecycle => p \in ImmediateRecycle
    BY DEF CanUnloadAllSystemAbility
<1> HIDE DEF L, A, B, C, a, b, c
<1>8. /\ IsFiniteSet(A) /\ IsFiniteSet(B) /\ IsFiniteSet(C) /\ IsFiniteSet(L)
      /\ Cardinality(A) \in Nat /\ Cardinality(B) \in Nat /\ Cardinality(C) \in Nat
      /\ Cardinality(L) \in Nat
    BY <1>2, <1>3, SubsetsFinite
<1>9. /\ IsFiniteSet(A \cup B)
      /\ Cardinality(A \cup B) = Cardinality(A) + Cardinality(B)
    BY <1>4, <1>8, DisjointUnion
<1>10. Cardinality(A \cup B \cup C) = Cardinality(A \cup B) + Cardinality(C)
    BY <1>4, <1>8, <1>9, DisjointUnion
<1>11. Cardinality(A \cup B \cup C) = Cardinality(L) <=> A \cup B \cup C = L
    BY <1>4, <1>8, FS_Subset
<1>12. (b # 0 <=> B # {}) /\ (c # 0 <=> C # {})
    BY <1>1, <1>8, FS_EmptySet
<1>13. a + b + c = Cardinality(L) <=> A \cup B \cup C = L
    BY <1>1, <1>8, <1>9, <1>10, <1>11
<1>14. A \cup B \cup C = L <=> \A s \in L : s \in A \cup B \cup C
    BY <1>4
<1>15. ASSUME \A s \in L : saState[s] \in {"NOT_LOADED", "UNLOADABLE", "UNLOADING"}
       PROVE  (\E s \in L : saState[s] # "NOT_LOADED") <=> (B # {} \/ C # {})
    BY <1>6, <1>15
<1>16. CanUnloadAllSystemAbility(p, checkRecycle) <=>
        /\ \A s \in L : saState[s] \in {"NOT_LOADED", "UNLOADABLE", "UNLOADING"}
        /\ \E s \in L : saState[s] # "NOT_LOADED"
        /\ checkRecycle => p \in ImmediateRecycle
    BY <1>5, <1>7, <1>12, <1>13, <1>14, <1>15
<1> QED BY <1>16 DEF L

(* CanKillSystemProcessLocked holds exactly if every SA is NOT_LOADED.     *)
LEMMA CanKillMeaning ==
    ASSUME AbilityInv, NEW p \in Procs
    PROVE  CanKillSystemProcess(p) <=> \A s \in saList(p) : saState[s] = "NOT_LOADED"
<1>1. stateCount[p]["NOT_LOADED"] = Cardinality(InState(p, "NOT_LOADED"))
    BY DEF AbilityInv, StateCountsMatch, AbilityStates, InState
<1>2. InState(p, "NOT_LOADED") \in SUBSET saList(p) /\ saList(p) \in SUBSET SAs
    BY DEF saList, InState
<1>3. Cardinality(InState(p, "NOT_LOADED")) = Cardinality(saList(p))
        <=> InState(p, "NOT_LOADED") = saList(p)
    BY <1>2, SubsetsFinite, FS_Subset
<1>4. InState(p, "NOT_LOADED") = saList(p) <=> \A s \in saList(p) : saState[s] = "NOT_LOADED"
    BY DEF InState
<1> QED BY <1>1, <1>3, <1>4 DEF CanKillSystemProcess

-----------------------------------------------------------------------------
(* The scheduler implements AbilityLifecycle.                              *)

HostInv == NoLoadingWhileStopping /\ UnloadingOnlyWhileStopping /\ NoIdleInDeadProcess

(* Any step AbilityLifecycle allows keeps SAs and processes in step.       *)
LEMMA HostStep ==
    ASSUME TypeOK, HostInv, [Lifecycle!Next]_(Lifecycle!vars)
    PROVE  HostInv'
<1> USE SchedulerAssumption
<1> USE DEF TypeOK, HostInv, NoLoadingWhileStopping, UnloadingOnlyWhileStopping,
            NoIdleInDeadProcess
<1>1. ASSUME NEW s \in SAs,
             \/ Lifecycle!StartLoading(s) \/ Lifecycle!Load(s)
             \/ Lifecycle!Idle(s) \/ Lifecycle!Withdraw(s)
      PROVE  HostInv'
  <2>1. CASE Lifecycle!StartLoading(s)
    BY <2>1 DEF Lifecycle!StartLoading, Lifecycle!Become
  <2>2. CASE Lifecycle!Load(s)
    BY <2>2 DEF Lifecycle!Load, Lifecycle!Become
  <2>3. CASE Lifecycle!Idle(s)
    <3>1. CASE Lifecycle!Become(s, "UNLOADABLE")
        BY <2>3, <3>1 DEF Lifecycle!Idle, Lifecycle!Become
    <3>2. CASE s \in IndependentUnload /\ Lifecycle!Become(s, "UNLOADING")
        BY <2>3, <3>2 DEF Lifecycle!Idle, Lifecycle!Become
    <3> QED BY <2>3, <3>1, <3>2 DEF Lifecycle!Idle
  <2>4. CASE Lifecycle!Withdraw(s)
    BY <2>4 DEF Lifecycle!Withdraw, Lifecycle!Become
  <2> QED BY <1>1, <2>1, <2>2, <2>3, <2>4
<1>2. ASSUME NEW p \in Procs, Lifecycle!StartProcess(p) PROVE HostInv'
    BY <1>2 DEF Lifecycle!StartProcess
<1>3. ASSUME NEW p \in Procs, NEW S \in SUBSET Lifecycle!Hosted(p), Lifecycle!StopProcess(p, S)
      PROVE  HostInv'
  <2>1. /\ \A t \in SAs : saState'[t] = IF t \in S THEN "UNLOADING" ELSE saState[t]
        /\ \A q \in Procs : procState'[q] = IF q = p THEN "STOPPING" ELSE procState[q]
    BY <1>3 DEF Lifecycle!StopProcess
  <2>2. \A t \in SAs : ProcOf[t] \in Procs /\ (t \in S => ProcOf[t] = p)
    BY DEF Lifecycle!Hosted
  <2>3. \A t \in SAs : ProcOf[t] = p => saState[t] \in {"NOT_LOADED", "UNLOADABLE", "UNLOADING"}
    BY <1>3 DEF Lifecycle!StopProcess, Lifecycle!Hosted
  <2>4. NoLoadingWhileStopping'
    BY <2>1, <2>2, <2>3
  <2>5. UnloadingOnlyWhileStopping'
    BY <2>1, <2>2
  <2>6. NoIdleInDeadProcess'
    BY <2>1, <2>2
  <2> QED BY <2>4, <2>5, <2>6
<1>4. ASSUME NEW p \in Procs, NEW S \in SUBSET Lifecycle!Hosted(p), Lifecycle!EndProcess(p, S)
      PROVE  HostInv'
    BY <1>4 DEF Lifecycle!EndProcess, Lifecycle!Hosted
<1>5. CASE UNCHANGED Lifecycle!vars
    BY <1>5 DEF Lifecycle!vars
<1> QED BY <1>1, <1>2, <1>3, <1>4, <1>5 DEF Lifecycle!Next

(* UnloadAllSystemAbilityLocked, when CanUnloadAllSystemAbilityLocked      *)
(* allowed it, stops an idle process that is running.                      *)
LEMMA UnloadAllStep ==
    ASSUME CountInv, HostInv, NEW p \in Procs, NEW checkRecycle \in BOOLEAN,
           CanUnloadAllSystemAbility(p, checkRecycle),
           NEW told \in SUBSET saList(p), UnloadAllSystemAbility(p, told)
    PROVE  Lifecycle!StopProcess(p, told)
<1>1. AbilityInv
    BY DEF CountInv, TypeOK, AbilityInv
<1>2. /\ \A s \in saList(p) : saState[s] \in {"NOT_LOADED", "UNLOADABLE", "UNLOADING"}
      /\ \E s \in saList(p) : saState[s] # "NOT_LOADED"
    BY <1>1, CanUnloadAllMeaning
<1>3. procState[p] \in {"STARTED", "STOPPING"}
  <2>1. PICK s \in saList(p) : saState[s] # "NOT_LOADED"
    BY <1>2
  <2>2. s \in SAs /\ ProcOf[s] = p /\ saState[s] \in {"UNLOADABLE", "UNLOADING"}
    BY <1>2, <2>1 DEF saList
  <2>3. procState[p] # "NOT_STARTED"
    BY <2>2 DEF HostInv, NoIdleInDeadProcess
  <2> QED BY <2>3 DEF CountInv, TypeOK, ProcStates
<1>4. saState' = Moved(saState, told, "UNLOADING")
    BY <1>1, StoreTransition DEF UnloadAllSystemAbility, AbilityStates
<1>5. \A s \in told : saState[s] = "UNLOADABLE"
    BY DEF UnloadAllSystemAbility
<1>6. saState' = [s \in SAs |-> IF s \in told THEN "UNLOADING" ELSE saState[s]]
    BY <1>4, <1>5 DEF Moved, CanEnter
<1>7. procState' = [procState EXCEPT ![p] = "STOPPING"]
    BY <1>3 DEF UnloadAllSystemAbility, ProcessStateTransition, CanEnterProc, CountInv, TypeOK
<1> QED BY <1>2, <1>3, <1>5, <1>6, <1>7 DEF Lifecycle!StopProcess, Lifecycle!Hosted, saList

(* OnProcessNotStartedLocked ends a process.                               *)
LEMMA NotStartedEnds ==
    ASSUME CountInv, NEW p \in Procs, procState[p] \in {"STARTED", "STOPPING"},
           NEW loading \in SUBSET saList(p), NEW watermark \in BOOLEAN,
           NEW tooFast \in BOOLEAN, ProcessNotStarted(p, loading, watermark, tooFast)
    PROVE  Lifecycle!EndProcess(p, loading)
<1>1. AbilityInv
    BY DEF CountInv, TypeOK, AbilityInv
<1>2. saState' = [s \in SAs |-> IF s \in loading THEN "LOADING"
                                ELSE IF s \in saList(p) THEN "NOT_LOADED" ELSE saState[s]]
    BY <1>1, NotStartedStep
<1>3. procState' = [procState EXCEPT ![p] = "NOT_STARTED"]
    BY DEF ProcessNotStarted, ProcessStateTransition, CanEnterProc
<1> QED BY <1>2, <1>3 DEF Lifecycle!EndProcess, Lifecycle!Hosted, saList

(* Every handler, task and timer is a lifecycle step or leaves the states  *)
(* alone.                                                                  *)
LEMMA LifecycleStep ==
    ASSUME CountInv, HostInv, [Next]_vars
    PROVE  [Lifecycle!Next]_(Lifecycle!vars)
<1>0. AbilityInv /\ TypeOK
    BY DEF CountInv, TypeOK, AbilityInv
<1> USE SchedulerAssumption
<1>1. ASSUME UNCHANGED <<saState, procState>> PROVE UNCHANGED Lifecycle!vars
    BY <1>1 DEF Lifecycle!vars
<1>2. ASSUME NEW s \in SAs, SANext(s) PROVE [Lifecycle!Next]_(Lifecycle!vars)
  <2>0. ProcOf[s] \in Procs /\ {s} \in SUBSET saList(ProcOf[s])
    BY DEF saList
  <2>1. ASSUME Lifecycle!StartLoading(s) \/ Lifecycle!Load(s) \/ Lifecycle!Idle(s)
                  \/ Lifecycle!Withdraw(s)
        PROVE  [Lifecycle!Next]_(Lifecycle!vars)
    BY <2>1 DEF Lifecycle!Next
  <2>2. ASSUME NEW to \in AbilityStates, CanEnter(saState[s], to), UNCHANGED procState,
               Store(ProcOf[s], AbilityStateTransition(Context(ProcOf[s]), {s}, to))
        PROVE  Lifecycle!Become(s, to)
    <3>1. saState' = Moved(saState, {s}, to)
        BY <1>0, <2>0, <2>2, StoreTransition
    <3>2. saState' = [saState EXCEPT ![s] = to]
        BY <1>0, <2>2, <3>1 DEF Moved, AbilityInv
    <3> QED BY <2>2, <3>2 DEF Lifecycle!Become
  <2>3. CASE HandleLoadAbilityEvent(s)
    <3>1. CASE \E cb \in Callbacks, tooOld \in BOOLEAN : PendLoad(s, cb, tooOld)
        BY <1>1, <3>1 DEF PendLoad, abilityVars
    <3>2. ASSUME NEW ok \in BOOLEAN, LoadNow(s, ok) PROVE [Lifecycle!Next]_(Lifecycle!vars)
      <4>1. CASE saState[s] \in {"LOADING", "LOADED"}
        BY <1>1, <3>2, <4>1 DEF LoadNow, abilityVars
      <4>2. CASE saState[s] = "UNLOADABLE"
        <5>1. Lifecycle!Become(s, "LOADED")
            BY <2>2, <3>2, <4>2 DEF LoadNow, CanEnter, AbilityStates
        <5> QED BY <2>1, <4>2, <5>1 DEF Lifecycle!Load
      <4>3. CASE saState[s] = "NOT_LOADED"
        <5>1. Lifecycle!Become(s, "LOADING")
            BY <2>2, <3>2, <4>3 DEF LoadNow, CanEnter, AbilityStates
        <5> QED BY <2>1, <3>2, <4>3, <5>1 DEF Lifecycle!StartLoading, LoadNow
      <4> QED BY <3>2, <4>1, <4>2, <4>3 DEF LoadNow
    <3> QED BY <2>3, <3>1, <3>2 DEF HandleLoadAbilityEvent
  <2>4. CASE HandleCheckLoad(s)
    <3>1. Lifecycle!Become(s, "LOADING")
        BY <2>2, <2>4 DEF HandleCheckLoad, CanEnter, AbilityStates
    <3> QED BY <2>1, <2>4, <3>1 DEF Lifecycle!StartLoading, HandleCheckLoad
  <2>5. ASSUME UNCHANGED procState, saState[s] = "LOADED", NEW queue, NEW answer,
               NEW stopOk \in BOOLEAN, ProcessDelayUnload(s, queue, answer, stopOk)
        PROVE  [Lifecycle!Next]_(Lifecycle!vars)
    <3>1. CASE saState' = saState
        BY <1>1, <2>5, <3>1
    <3>2. CASE /\ saState' = [saState EXCEPT ![s] =
                                IF s \in IndependentUnload /\ stopOk
                                  THEN "UNLOADING" ELSE "UNLOADABLE"]
               /\ procState[ProcOf[s]] # "NOT_STARTED"
      <4>1. Lifecycle!Idle(s)
        BY <2>5, <3>2 DEF Lifecycle!Idle, Lifecycle!Become
      <4> QED BY <2>1, <4>1
    <3> QED BY <1>0, <2>5, <3>1, <3>2, DelayUnloadStep
  <2>6. CASE HandleUnloadAbilityEvent(s)
    BY <1>1, <2>5, <2>6 DEF HandleUnloadAbilityEvent, HandleUnload, abilityVars
  <2>7. CASE HandleCancelUnloadAbilityEvent(s)
    <3>1. Lifecycle!Become(s, "LOADED")
        BY <2>2, <2>7 DEF HandleCancelUnloadAbilityEvent, CanEnter, AbilityStates
    <3> QED BY <2>1, <2>7, <3>1 DEF Lifecycle!Load, HandleCancelUnloadAbilityEvent
  <2>8. CASE HandleLoadSuccessEvent(s)
    <3>1. Lifecycle!Become(s, "LOADED")
        BY <2>2, <2>8 DEF HandleLoadSuccessEvent, CanEnter, AbilityStates
    <3> QED BY <2>1, <2>8, <3>1 DEF Lifecycle!Load, HandleLoadSuccessEvent
  <2>9. CASE HandleLoadFailedEvent(s)
    <3>1. Lifecycle!Become(s, "NOT_LOADED")
        BY <2>2, <2>9 DEF HandleLoadFailedEvent, CanEnter, AbilityStates
    <3> QED BY <2>1, <2>9, <3>1 DEF Lifecycle!Withdraw, HandleLoadFailedEvent
  <2>10. CASE HandleUnloadSuccessEvent(s)
    <3>1. Lifecycle!Become(s, "NOT_LOADED")
        BY <2>2, <2>10 DEF HandleUnloadSuccessEvent, CanEnter, AbilityStates
    <3> QED BY <2>1, <2>10, <3>1 DEF Lifecycle!Withdraw, HandleUnloadSuccessEvent
  <2>11. CASE DelayUnloadFires(s)
    BY <1>1, <2>11 DEF DelayUnloadFires, abilityVars
  <2>12. CASE DelayUnloadRuns(s)
    BY <1>1, <2>5, <2>12 DEF DelayUnloadRuns, abilityVars
  <2>13. CASE HandlePendingUnloadEvent(s)
    BY <1>1, <2>5, <2>13 DEF HandlePendingUnloadEvent, HandleUnload, abilityVars
  <2>14. CASE OverflowClears(s)
    BY <1>1, <2>14 DEF OverflowClears, abilityVars
  <2> QED BY <1>2, <2>3, <2>4, <2>6, <2>7, <2>8, <2>9, <2>10, <2>11, <2>12, <2>13, <2>14
          DEF SANext
<1>3. ASSUME NEW p \in Procs, ProcNext(p) PROVE [Lifecycle!Next]_(Lifecycle!vars)
  <2>0. saList(p) = Lifecycle!Hosted(p)
    BY DEF saList, Lifecycle!Hosted
  <2>1. ASSUME NEW S \in SUBSET saList(p),
               Lifecycle!StopProcess(p, S) \/ Lifecycle!EndProcess(p, S)
        PROVE  [Lifecycle!Next]_(Lifecycle!vars)
    BY <2>0, <2>1 DEF Lifecycle!Next
  <2>2. CASE UnloadProcess(p)
    BY <2>1, <2>2, UnloadAllStep DEF UnloadProcess
  <2>3. CASE TryUnloadAllSystemAbility(p)
    BY <1>1, <2>1, <2>3, UnloadAllStep DEF TryUnloadAllSystemAbility, abilityVars
  <2>4. CASE TryKillSystemProcess(p)
    BY <1>1, <2>4 DEF TryKillSystemProcess, abilityVars
  <2>5. CASE UnloadTimeoutFires(p)
    BY <1>1, <2>5 DEF UnloadTimeoutFires, abilityVars
  <2>6. CASE UnloadTimeoutRuns(p)
    BY <1>1, <2>6 DEF UnloadTimeoutRuns, abilityVars
  <2>7. CASE HandleProcessStartedEvent(p)
    <3>1. Lifecycle!StartProcess(p)
        BY <2>7 DEF HandleProcessStartedEvent, ProcessStateTransition, CanEnterProc,
                    Lifecycle!StartProcess, abilityVars
    <3> QED BY <3>1 DEF Lifecycle!Next
  <2>8. CASE HandleProcessStoppedEvent(p)
    <3>1. procState[p] \in {"STARTED", "STOPPING"}
        BY <2>8 DEF HandleProcessStoppedEvent
    <3>2. PICK loading \in SUBSET saList(p), watermark \in BOOLEAN, tooFast \in BOOLEAN :
             ProcessNotStarted(p, loading, watermark, tooFast)
        BY <2>8 DEF HandleProcessStoppedEvent
    <3>3. Lifecycle!EndProcess(p, loading)
        BY <3>1, <3>2, NotStartedEnds
    <3> QED BY <2>1, <3>3
  <2>9. CASE OverflowStops(p)
    BY <1>1, <2>1, <2>9, NotStartedEnds DEF OverflowStops, abilityVars
  <2> QED BY <1>3, <2>2, <2>3, <2>4, <2>5, <2>6, <2>7, <2>8, <2>9 DEF ProcNext
<1>4. CASE UNCHANGED vars
    BY <1>1, <1>4 DEF vars, abilityVars
<1> QED BY <1>2, <1>3, <1>4 DEF Next

LifeInv == CountInv /\ HostInv

(* LifeInv is inductive.                                                   *)
LEMMA LifeInvInductive == (Init => LifeInv) /\ (LifeInv /\ [Next]_vars => LifeInv')
<1>1. Init => CountInv
    BY InitCounts DEF CountInv
<1>2. Init => HostInv
    BY SchedulerAssumption DEF Init, HostInv, NoLoadingWhileStopping,
       UnloadingOnlyWhileStopping, NoIdleInDeadProcess
<1>3. CountInv /\ [Next]_vars => CountInv'
    BY TypeStep, AbilityInvStep DEF CountInv, AbilityInv, TypeOK
<1>4. LifeInv /\ [Next]_vars => HostInv'
    BY LifecycleStep, HostStep DEF LifeInv, CountInv
<1> QED BY <1>1, <1>2, <1>3, <1>4 DEF LifeInv

(* The scheduler, with its counts, queues, timers, pending requests and    *)
(* restarts, implements the lifecycle of AbilityLifecycle: no interleaving *)
(* of handlers, tasks and timers takes an SA or a process through a step   *)
(* the lifecycle forbids.                                                  *)
THEOREM SchedulerImplementsLifecycle == Spec => ImplementsLifecycle
<1>1. (Init => LifeInv) /\ (LifeInv /\ [Next]_vars => LifeInv')
    BY LifeInvInductive
<1>2. Init => Lifecycle!Init
    BY DEF Init, Lifecycle!Init
<1>3. LifeInv /\ [Next]_vars => [Lifecycle!Next]_(Lifecycle!vars)
    BY LifecycleStep DEF LifeInv
<1> QED BY <1>1, <1>2, <1>3, PTL DEF Spec, ImplementsLifecycle, Lifecycle!Spec

(* A process that is being stopped loads nothing, only independent SAs     *)
(* unload while their process goes on, and a dead process hosts no idle or *)
(* UNLOADING SA.                                                           *)
THEOREM HostsInStep == Spec => []HostStatesFit
<1>1. (Init => LifeInv) /\ (LifeInv /\ [Next]_vars => LifeInv')
    BY LifeInvInductive
<1>2. LifeInv => HostStatesFit
    BY DEF LifeInv, HostInv, HostStatesFit
<1> QED BY <1>1, <1>2, PTL DEF Spec
=============================================================================
