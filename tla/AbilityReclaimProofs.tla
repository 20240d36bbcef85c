------------------------ MODULE AbilityReclaimProofs ------------------------
(***************************************************************************)
(* Nothing AbilityScheduler has to do later is forgotten: kept load        *)
(* requests keep their mark, a process being stopped stays watched, and    *)
(* every reclaim and kill that has become possible is posted.              *)
(***************************************************************************)
EXTENDS AbilityLifecycleProofs

-----------------------------------------------------------------------------
(* Kept load requests.                                                     *)

(* Requests are kept only for SAs of a STOPPING process, in which no SA is *)
(* LOADING, so no unload request overwrites the mark.                      *)
LEMMA PendingStep ==
    ASSUME LifeInv, PendingLoadsNotStranded, [Next]_vars
    PROVE  PendingLoadsNotStranded'
<1> USE SchedulerAssumption
<1> USE DEF PendingLoadsNotStranded
<1>0. TypeOK /\ HostInv
    BY DEF LifeInv, CountInv
<1>1. ASSUME UNCHANGED <<pendingLoads, pendingEvent, procState>>
      PROVE  PendingLoadsNotStranded'
    BY <1>1
<1>2. ASSUME NEW s \in SAs, UNCHANGED <<pendingLoads, procState>>,
             pendingEvent' = [pendingEvent EXCEPT ![s] = WithoutUnload(@)]
      PROVE  PendingLoadsNotStranded'
    BY <1>0, <1>2 DEF WithoutUnload, UnloadKinds, TypeOK
<1>3. ASSUME NEW s \in SAs, UNCHANGED <<pendingLoads, procState>>,
             s \notin IndependentUnload => pendingLoads[s] = {},
             NEW e, pendingEvent' = [pendingEvent EXCEPT ![s] = e]
      PROVE  PendingLoadsNotStranded'
  <2>1. \A q \in SAs : q # s => pendingEvent'[q] = pendingEvent[q]
    BY <1>0, <1>3 DEF TypeOK
  <2> QED BY <1>3, <2>1
<1>4. ASSUME NEW s \in SAs, SANext(s) PROVE PendingLoadsNotStranded'
  <2>1. ASSUME NEW cb \in Callbacks, NEW tooOld \in BOOLEAN, PendLoad(s, cb, tooOld)
        PROVE  PendingLoadsNotStranded'
    <3>1. s \notin IndependentUnload => procState[ProcOf[s]] = "STOPPING"
        BY <1>0, <2>1 DEF PendLoad, HostInv, UnloadingOnlyWhileStopping
    <3>2. CASE UNCHANGED <<pendingLoads, pendingEvent>>
        BY <1>1, <2>1, <3>2 DEF PendLoad
    <3>3. CASE /\ pendingLoads' = [pendingLoads EXCEPT ![s] = @ \cup {cb}]
               /\ pendingEvent' = [pendingEvent EXCEPT ![s] = "LOAD"]
        BY <1>0, <2>1, <3>1, <3>3 DEF PendLoad, TypeOK
    <3> QED BY <2>1, <3>2, <3>3 DEF PendLoad
  <2>2. ASSUME NEW ok \in BOOLEAN, LoadNow(s, ok) PROVE PendingLoadsNotStranded'
    BY <1>1, <1>2, <2>2 DEF LoadNow
  <2>3. CASE HandleCheckLoad(s)
    BY <1>1, <2>3 DEF HandleCheckLoad, pendingVars
  <2>4. CASE HandleUnloadAbilityEvent(s)
    <3>1. /\ UNCHANGED <<pendingLoads, procState>>
          /\ \/ saState[s] = "LOADING" /\ \E k \in UnloadKinds :
                    pendingEvent' = [pendingEvent EXCEPT ![s] = k]
             \/ pendingEvent' = [pendingEvent EXCEPT ![s] = pendingEvent[s]]
        BY <2>4 DEF HandleUnloadAbilityEvent, HandleUnload
    <3>2. CASE saState[s] = "LOADING"
      <4>1. s \notin IndependentUnload => pendingLoads[s] = {}
        BY <1>0, <3>2 DEF HostInv, NoLoadingWhileStopping
      <4>2. PICK e : pendingEvent' = [pendingEvent EXCEPT ![s] = e]
        BY <3>1
      <4> QED BY <1>3, <3>1, <4>1, <4>2
    <3>3. CASE pendingEvent' = [pendingEvent EXCEPT ![s] = pendingEvent[s]]
        BY <1>0, <3>1, <3>3 DEF TypeOK
    <3> QED BY <3>1, <3>2, <3>3
  <2>5. CASE HandleCancelUnloadAbilityEvent(s)
    BY <1>1, <2>5 DEF HandleCancelUnloadAbilityEvent, pendingVars
  <2>6. CASE HandleLoadSuccessEvent(s)
    BY <1>1, <2>6 DEF HandleLoadSuccessEvent, pendingVars
  <2>7. CASE HandleLoadFailedEvent(s)
    BY <1>2, <2>7 DEF HandleLoadFailedEvent, OnAbilityNotLoaded
  <2>8. CASE HandleUnloadSuccessEvent(s)
    BY <1>2, <2>8 DEF HandleUnloadSuccessEvent, OnAbilityNotLoaded
  <2>9. CASE DelayUnloadFires(s) \/ DelayUnloadRuns(s)
    BY <1>1, <2>9 DEF DelayUnloadFires, DelayUnloadRuns, pendingVars
  <2>10. CASE HandlePendingUnloadEvent(s)
    <3>1. CASE pendingEvent[s] \in UnloadKinds
      <4>1. s \notin IndependentUnload => pendingLoads[s] = {}
        BY <3>1 DEF UnloadKinds
      <4>2. /\ UNCHANGED <<pendingLoads, procState>>
            /\ \E e : pendingEvent' = [pendingEvent EXCEPT ![s] = e]
        BY <2>10, <3>1 DEF HandlePendingUnloadEvent, HandleUnload
      <4>3. PICK e : pendingEvent' = [pendingEvent EXCEPT ![s] = e]
        BY <4>2
      <4> QED BY <1>3, <4>1, <4>2, <4>3
    <3>2. CASE pendingEvent[s] \notin UnloadKinds
        BY <1>1, <2>10, <3>2 DEF HandlePendingUnloadEvent
    <3> QED BY <3>1, <3>2
  <2>11. CASE OverflowClears(s)
    <3>1. CASE UNCHANGED pendingLoads
        BY <1>1, <2>11, <3>1 DEF OverflowClears
    <3>2. CASE pendingLoads' = [pendingLoads EXCEPT ![s] = {}]
        BY <1>0, <2>11, <3>2 DEF OverflowClears, TypeOK
    <3> QED BY <2>11, <3>1, <3>2 DEF OverflowClears
  <2> QED BY <1>4, <2>1, <2>2, <2>3, <2>4, <2>5, <2>6, <2>7, <2>8, <2>9, <2>10, <2>11
          DEF SANext, HandleLoadAbilityEvent
<1>5. ASSUME NEW p \in Procs, ProcNext(p) PROVE PendingLoadsNotStranded'
  <2>1. ASSUME NEW loading, NEW watermark, NEW tooFast,
               ProcessNotStarted(p, loading, watermark, tooFast)
        PROVE  PendingLoadsNotStranded'
    <3>1. \A s \in SAs \ IndependentUnload : ProcOf[s] = p => pendingLoads'[s] = {}
        BY <1>0, <2>1 DEF ProcessNotStarted, Replayed, saList
    <3>2. \A s \in SAs : ProcOf[s] # p =>
             /\ pendingLoads'[s] = pendingLoads[s]
             /\ pendingEvent'[s] = pendingEvent[s]
             /\ procState'[ProcOf[s]] = procState[ProcOf[s]]
        BY <1>0, <2>1 DEF ProcessNotStarted, Replayed, saList, TypeOK
    <3> QED BY <3>1, <3>2
  <2>2. ASSUME UNCHANGED <<pendingLoads, pendingEvent>>,
               \A q \in Procs : procState[q] = "STOPPING" => procState'[q] = "STOPPING"
        PROVE  PendingLoadsNotStranded'
    BY <2>2
  <2>3. ASSUME NEW told, UnloadAllSystemAbility(p, told), NEW q \in Procs,
               procState[q] = "STOPPING"
        PROVE  procState'[q] = "STOPPING"
    BY <1>0, <2>3 DEF UnloadAllSystemAbility, ProcessStateTransition, CanEnterProc, TypeOK
  <2>4. CASE UnloadProcess(p)
    BY <2>2, <2>3, <2>4 DEF UnloadProcess, pendingVars
  <2>5. CASE TryUnloadAllSystemAbility(p)
    BY <1>1, <2>2, <2>3, <2>5 DEF TryUnloadAllSystemAbility, pendingVars
  <2>6. CASE TryKillSystemProcess(p)
    BY <1>1, <2>6 DEF TryKillSystemProcess, pendingVars
  <2>7. CASE UnloadTimeoutFires(p) \/ UnloadTimeoutRuns(p)
    BY <1>1, <2>7 DEF UnloadTimeoutFires, UnloadTimeoutRuns, pendingVars
  <2>8. CASE HandleProcessStartedEvent(p)
    <3>1. \A q \in Procs : procState[q] = "STOPPING" => procState'[q] = "STOPPING"
        BY <1>0, <2>8 DEF HandleProcessStartedEvent, TypeOK
    <3> QED BY <2>2, <2>8, <3>1 DEF HandleProcessStartedEvent, pendingVars
  <2>9. CASE HandleProcessStoppedEvent(p)
    BY <2>1, <2>9 DEF HandleProcessStoppedEvent
  <2>10. CASE OverflowStops(p)
    BY <1>1, <2>1, <2>10 DEF OverflowStops
  <2> QED BY <1>5, <2>4, <2>5, <2>6, <2>7, <2>8, <2>9, <2>10 DEF ProcNext
<1>6. CASE UNCHANGED vars
    BY <1>1, <1>6 DEF vars, pendingVars
<1> QED BY <1>4, <1>5, <1>6 DEF Next

(* A load request kept by PendLoadEventLocked for an SA that does not      *)
(* unload independently keeps its mark until the process has ended, which  *)
(* replays it.                                                             *)
THEOREM LoadsNotStranded == Spec => []PendingLoadsNotStranded
<1>1. Init => PendingLoadsNotStranded
    BY DEF Init, PendingLoadsNotStranded
<1>2. LifeInv /\ PendingLoadsNotStranded /\ [Next]_vars => PendingLoadsNotStranded'
    BY PendingStep
<1> QED BY <1>1, <1>2, LifeInvInductive, PTL DEF Spec

-----------------------------------------------------------------------------
(* A process being stopped stays watched.                                  *)

(* The last timer of a STOPPING process goes only when STOP is sent or the *)
(* process ends.                                                           *)
LEMMA WatchedStep ==
    ASSUME TypeOK, StoppingIsWatched, [Next]_vars
    PROVE  StoppingIsWatched'
<1> USE SchedulerAssumption
<1>1. ASSUME UNCHANGED <<procState, unloadTimers, timeoutRunning, stopSent>>
      PROVE  StoppingIsWatched'
    BY <1>1 DEF StoppingIsWatched
<1>2. ASSUME NEW s \in SAs, SANext(s) PROVE StoppingIsWatched'
  <2>1. UNCHANGED <<procState, timerVars, stopSent>>
    BY <1>2 DEF SANext, HandleLoadAbilityEvent, PendLoad, LoadNow, HandleCheckLoad,
         HandleUnloadAbilityEvent, HandleCancelUnloadAbilityEvent, HandleLoadSuccessEvent,
         HandleLoadFailedEvent, HandleUnloadSuccessEvent, DelayUnloadFires, DelayUnloadRuns,
         HandlePendingUnloadEvent, OverflowClears
  <2> QED BY <1>1, <2>1 DEF timerVars
<1>3. ASSUME NEW p \in Procs, ProcNext(p) PROVE StoppingIsWatched'
  <2>1. ASSUME \A q \in Procs \ {p} :
                    /\ procState'[q] = procState[q]
                    /\ unloadTimers'[q] = unloadTimers[q]
                    /\ timeoutRunning = q => timeoutRunning' = q
                    /\ stopSent'[q] = stopSent[q],
               procState'[p] = "STOPPING" =>
                    unloadTimers'[p] > 0 \/ timeoutRunning' = p \/ stopSent'[p]
        PROVE  StoppingIsWatched'
    BY <2>1 DEF StoppingIsWatched
  <2>2. ASSUME NEW told, UnloadAllSystemAbility(p, told), UNCHANGED <<timeoutRunning, stopSent>>
        PROVE  StoppingIsWatched'
    <3>1. unloadTimers'[p] > 0
        BY <2>2 DEF UnloadAllSystemAbility, TypeOK
    <3> QED BY <2>1, <2>2, <3>1 DEF UnloadAllSystemAbility, TypeOK
  <2>3. ASSUME NEW loading, NEW watermark, NEW tooFast, UNCHANGED timeoutRunning,
               ProcessNotStarted(p, loading, watermark, tooFast)
        PROVE  StoppingIsWatched'
    <3>1. procState'[p] = "NOT_STARTED"
        BY <2>3 DEF ProcessNotStarted, ProcessStateTransition, CanEnterProc, TypeOK
    <3> QED BY <2>1, <2>3, <3>1 DEF ProcessNotStarted, TypeOK
  <2>4. ASSUME ServiceControlStop(p), UNCHANGED <<procState, unloadTimers>>,
               timeoutRunning' = timeoutRunning \/ timeoutRunning = p
        PROVE  StoppingIsWatched'
    <3>1. procState'[p] = "STOPPING" => stopSent'[p]
        BY <2>4 DEF ServiceControlStop, TypeOK
    <3> QED BY <2>1, <2>4, <3>1 DEF ServiceControlStop, TypeOK
  <2>5. CASE UnloadProcess(p)
    BY <2>2, <2>5 DEF UnloadProcess
  <2>6. CASE TryUnloadAllSystemAbility(p)
    BY <1>1, <2>2, <2>6 DEF TryUnloadAllSystemAbility
  <2>7. CASE TryKillSystemProcess(p)
    BY <1>1, <2>4, <2>7 DEF TryKillSystemProcess, timerVars
  <2>8. CASE UnloadTimeoutFires(p)
    BY <2>1, <2>8 DEF UnloadTimeoutFires, TypeOK
  <2>9. CASE UnloadTimeoutRuns(p)
    <3>1. CASE procState[p] = "STOPPING"
        BY <2>4, <2>9, <3>1 DEF UnloadTimeoutRuns
    <3>2. CASE procState[p] # "STOPPING"
        BY <2>1, <2>9, <3>2 DEF UnloadTimeoutRuns
    <3> QED BY <3>1, <3>2
  <2>10. CASE HandleProcessStartedEvent(p)
    <3>1. procState'[p] = "STARTED" /\ \A q \in Procs \ {p} : procState'[q] = procState[q]
        BY <2>10 DEF HandleProcessStartedEvent, ProcessStateTransition, CanEnterProc, TypeOK
    <3> QED BY <2>1, <2>10, <3>1 DEF HandleProcessStartedEvent, timerVars
  <2>11. CASE HandleProcessStoppedEvent(p)
    BY <2>3, <2>11 DEF HandleProcessStoppedEvent
  <2>12. CASE OverflowStops(p)
    BY <2>3, <2>4, <2>12 DEF OverflowStops
  <2> QED BY <1>3, <2>5, <2>6, <2>7, <2>8, <2>9, <2>10, <2>11, <2>12 DEF ProcNext
<1>4. CASE UNCHANGED vars
    BY <1>1, <1>4 DEF vars, timerVars
<1> QED BY <1>2, <1>3, <1>4 DEF Next

(* UnloadAllSystemAbilityLocked sets the unload timer before the process   *)
(* is STOPPING, and no cancellation takes the last timer of a process that *)
(* is still STOPPING unless STOP has been sent.                            *)
THEOREM StoppingStaysWatched == Spec => []StoppingIsWatched
<1>1. Init => StoppingIsWatched
    BY DEF Init, StoppingIsWatched
<1>2. TypeOK /\ StoppingIsWatched /\ [Next]_vars => StoppingIsWatched'
    BY WatchedStep
<1> QED BY <1>1, <1>2, TypeCorrect, PTL DEF Spec

-----------------------------------------------------------------------------
(* What a process may be stopped for.                                      *)

(* CanUnloadAllSystemAbilityLocked is asked under the same lock that puts  *)
(* the process into STOPPING.                                              *)
LEMMA StopsOnlyIdle == Spec => StopsOnlyIdleProcess
<1> DEFINE A == \A s \in SAs :
        procState[ProcOf[s]] # "STOPPING" /\ procState'[ProcOf[s]] = "STOPPING" =>
            saState[s] \in {"NOT_LOADED", "UNLOADABLE", "UNLOADING"}
<1>1. ASSUME LifeInv, [Next]_vars PROVE A
  <2>1. [Lifecycle!Next]_(Lifecycle!vars)
    BY <1>1, LifecycleStep DEF LifeInv
  <2>2. ProcOf \in [SAs -> Procs] /\ procState \in [Procs -> ProcStates]
    BY <1>1, SchedulerAssumption DEF LifeInv, CountInv, TypeOK
  <2>3. CASE UNCHANGED procState
    BY <2>3
  <2>4. ASSUME NEW p \in Procs, Lifecycle!StartProcess(p) PROVE A
    BY <2>2, <2>4 DEF Lifecycle!StartProcess
  <2>5. ASSUME NEW p \in Procs, NEW S \in SUBSET Lifecycle!Hosted(p),
               Lifecycle!StopProcess(p, S)
        PROVE  A
    BY <2>2, <2>5 DEF Lifecycle!StopProcess, Lifecycle!Hosted
  <2>6. ASSUME NEW p \in Procs, NEW S, Lifecycle!EndProcess(p, S) PROVE A
    BY <2>2, <2>6 DEF Lifecycle!EndProcess
  <2> HIDE DEF A
  <2> QED BY <2>1, <2>3, <2>4, <2>5, <2>6 DEF Lifecycle!Next, Lifecycle!vars,
          Lifecycle!StartLoading, Lifecycle!Load, Lifecycle!Idle, Lifecycle!Withdraw,
          Lifecycle!Become
<1>2. LifeInv /\ [Next]_vars => [A]_vars
    BY <1>1
<1> QED BY <1>2, LifeInvInductive, PTL DEF Spec, StopsOnlyIdleProcess

(* TryKillSystemProcess and the unload timer send STOP only to a process   *)
(* that hosts nothing or is STOPPING.                                      *)
LEMMA KillsOnlyEmpty == Spec => KillsOnlyEmptyOrStopping
<1> DEFINE A == \A s \in SAs :
        LET p == ProcOf[s]
        IN  ~stopSent[p] /\ stopSent'[p] /\ procState[p] = "STARTED" /\ recoverRunning # p =>
                saState[s] = "NOT_LOADED"
<1>1. ASSUME LifeInv, [Next]_vars PROVE A
  <2>1. AbilityInv /\ TypeOK
    BY <1>1 DEF LifeInv, CountInv, TypeOK, AbilityInv
  <2> USE SchedulerAssumption
  <2>2. CASE UNCHANGED stopSent
    BY <2>2
  <2>3. ASSUME NEW s \in SAs, SANext(s) PROVE UNCHANGED stopSent
    BY <2>3 DEF SANext, HandleLoadAbilityEvent, PendLoad, LoadNow, HandleCheckLoad,
         HandleUnloadAbilityEvent, HandleCancelUnloadAbilityEvent, HandleLoadSuccessEvent,
         HandleLoadFailedEvent, HandleUnloadSuccessEvent, DelayUnloadFires, DelayUnloadRuns,
         HandlePendingUnloadEvent, OverflowClears
  <2>4. ASSUME NEW p \in Procs, ProcNext(p) PROVE A
    <3>1. ASSUME NEW x, stopSent' = [stopSent EXCEPT ![p] = x],
                 \/ x = FALSE
                 \/ procState[p] # "STARTED" \/ recoverRunning = p
                 \/ \A s \in saList(p) : saState[s] = "NOT_LOADED"
          PROVE  A
        BY <2>1, <3>1 DEF TypeOK, saList
    <3>2. CASE TryKillSystemProcess(p)
      <4>1. CASE CanKillSystemProcess(p)
        <5>1. \A s \in saList(p) : saState[s] = "NOT_LOADED"
            BY <2>1, <4>1, CanKillMeaning
        <5> QED BY <3>1, <3>2, <4>1, <5>1 DEF TryKillSystemProcess, ServiceControlStop
      <4>2. CASE ~CanKillSystemProcess(p)
        BY <2>2, <3>2, <4>2 DEF TryKillSystemProcess
      <4> QED BY <4>1, <4>2
    <3>3. CASE UnloadTimeoutRuns(p)
        BY <2>2, <3>1, <3>3 DEF UnloadTimeoutRuns, ServiceControlStop
    <3>4. CASE HandleProcessStoppedEvent(p)
        BY <3>1, <3>4 DEF HandleProcessStoppedEvent, ProcessNotStarted
    <3>5. CASE OverflowStops(p)
        BY <3>1, <3>5 DEF OverflowStops, ProcessNotStarted, ServiceControlStop
    <3> HIDE DEF A
    <3> QED BY <2>2, <2>4, <3>2, <3>3, <3>4, <3>5 DEF ProcNext, UnloadProcess,
            TryUnloadAllSystemAbility, UnloadTimeoutFires, HandleProcessStartedEvent
  <2>5. CASE UNCHANGED vars
    BY <2>2, <2>5 DEF vars
  <2> HIDE DEF A
  <2> QED BY <1>1, <2>2, <2>3, <2>4, <2>5 DEF Next
<1>2. LifeInv /\ [Next]_vars => [A]_vars
    BY <1>1
<1> QED BY <1>2, LifeInvInductive, PTL DEF Spec, KillsOnlyEmptyOrStopping

(* The decision to stop or kill a process is taken on the states it has at *)
(* that moment, whatever has happened since the task or timer was set.     *)
THEOREM StopsSpareWhatIsUsed == Spec => StopsOnlyUnused
BY StopsOnlyIdle, KillsOnlyEmpty DEF StopsOnlyUnused

-----------------------------------------------------------------------------
(* What the handlers of an SA do to the states, the notices and the queue. *)

ReclaimTasks == {"tryUnloadAll", "tryKill"} \X Procs
KeepsTasks == \A t \in ReclaimTasks : Queued(t) => Queued(t)'

(* Appending keeps every task of the queue and adds the new ones.          *)
LEMMA PostKeeps ==
    ASSUME NEW queue \in Seq(Tasks), NEW tasks \in Seq(Tasks), taskQueue' = queue \o tasks
    PROVE  /\ \A i \in 1..Len(queue) : Queued(queue[i])'
           /\ \A i \in 1..Len(tasks) : Queued(tasks[i])'
<1>1. Len(taskQueue') = Len(queue) + Len(tasks) /\ Len(queue) \in Nat /\ Len(tasks) \in Nat
    BY ConcatProperties, LenProperties
<1>2. ASSUME NEW i \in 1..Len(queue)
      PROVE  i \in 1..Len(taskQueue') /\ taskQueue'[i] = queue[i]
    BY <1>1, ConcatProperties
<1>3. ASSUME NEW i \in 1..Len(tasks)
      PROVE  Len(queue) + i \in 1..Len(taskQueue') /\ taskQueue'[Len(queue) + i] = tasks[i]
    BY <1>1, ConcatProperties
<1> QED BY <1>2, <1>3 DEF Queued

(* Taking a task other than t from the queue leaves t in it.               *)
LEMMA TailKeeps ==
    ASSUME taskQueue \in Seq(Tasks), taskQueue # <<>>, NEW t, t # Head(taskQueue), Queued(t)
    PROVE  \E i \in 1..Len(Tail(taskQueue)) : Tail(taskQueue)[i] = t
<1>1. PICK i \in 1..Len(taskQueue) : taskQueue[i] = t
    BY DEF Queued
<1>2. /\ Len(taskQueue) \in Nat /\ Len(Tail(taskQueue)) = Len(taskQueue) - 1
      /\ \A j \in 1..Len(Tail(taskQueue)) : Tail(taskQueue)[j] = taskQueue[j + 1]
      /\ Head(taskQueue) = taskQueue[1]
    BY HeadTailProperties, LenProperties
<1>3. i # 1 /\ i - 1 \in 1..Len(Tail(taskQueue)) /\ Tail(taskQueue)[i - 1] = t
    BY <1>1, <1>2
<1> QED BY <1>3

(* A queue that is taken over, or from which the "pendingUnload" task has  *)
(* been removed, keeps the reclaim tasks, whatever is appended to it.      *)
LEMMA QueueKeeps ==
    ASSUME TypeOK, NEW s \in SAs, NEW queue, NEW tasks \in Seq(Tasks),
           taskQueue' = queue \o tasks,
           \/ queue = taskQueue
           \/ NextTask(<<"pendingUnload", s>>) /\ queue = Tail(taskQueue)
    PROVE  KeepsTasks /\ \A i \in 1..Len(tasks) : Queued(tasks[i])'
<1>1. CASE queue = taskQueue
  <2>1. queue \in Seq(Tasks)
    BY <1>1 DEF TypeOK
  <2>2. /\ \A i \in 1..Len(queue) : Queued(queue[i])'
        /\ \A i \in 1..Len(tasks) : Queued(tasks[i])'
    BY <2>1, PostKeeps
  <2>3. ASSUME NEW t \in ReclaimTasks, Queued(t) PROVE Queued(t)'
    <3>1. PICK i \in 1..Len(queue) : queue[i] = t
        BY <1>1, <2>3 DEF Queued
    <3> QED BY <2>2, <3>1
  <2> QED BY <2>2, <2>3 DEF KeepsTasks
<1>2. CASE NextTask(<<"pendingUnload", s>>) /\ queue = Tail(taskQueue)
  <2>1. taskQueue \in Seq(Tasks) /\ taskQueue # <<>> /\ Head(taskQueue) = <<"pendingUnload", s>>
    BY <1>2 DEF TypeOK, NextTask
  <2>2. queue \in Seq(Tasks)
    BY <1>2, <2>1, HeadTailProperties
  <2>3. ASSUME NEW t \in ReclaimTasks, Queued(t) PROVE Queued(t)'
    <3>1. t # Head(taskQueue)
        BY <2>1 DEF ReclaimTasks
    <3>2. PICK i \in 1..Len(queue) : queue[i] = t
        BY <1>2, <2>1, <2>3, <3>1, TailKeeps
    <3> QED BY <2>2, <3>2, PostKeeps
  <2>4. \A i \in 1..Len(tasks) : Queued(tasks[i])'
    BY <2>2, PostKeeps
  <2> QED BY <2>3, <2>4 DEF KeepsTasks
<1> QED BY <1>1, <1>2

(* What a count of LOADED SAs says about the SAs of the process.           *)
LEMMA LoadedCount ==
    ASSUME NEW p \in Procs, NEW c, ContextOK(c, p)
    PROVE  /\ c.cnt["LOADED"] = 0 => \A t \in saList(p) : c.sa[t] # "LOADED"
           /\ \A s \in saList(p) : c.sa[s] = "LOADED" /\ c.cnt["LOADED"] # 1 =>
                \E t \in saList(p) : t # s /\ c.sa[t] = "LOADED"
<1> DEFINE L == {t \in saList(p) : c.sa[t] = "LOADED"}
<1>1. c.cnt["LOADED"] = Cardinality(L)
    BY DEF ContextOK, CountsOf, AbilityStates
<1>2. IsFiniteSet(L)
    BY SubsetsFinite DEF saList
<1>3. c.cnt["LOADED"] = 0 => L = {}
    BY <1>1, <1>2, FS_EmptySet
<1>4. ASSUME NEW s \in saList(p), c.sa[s] = "LOADED", c.cnt["LOADED"] # 1
      PROVE  \E t \in saList(p) : t # s /\ c.sa[t] = "LOADED"
  <2>1. L # {s}
    BY <1>1, <1>4, FS_Singleton
  <2> QED BY <1>4, <2>1
<1> QED BY <1>3, <1>4

(* OnAbilityLoadedLocked: listeners hear "activated" unless another SA of  *)
(* the process was LOADED before.                                          *)
LEMMA LoadedEffect ==
    ASSUME CountInv, NEW s \in SAs, saState[s] \in {"NOT_LOADED", "LOADING", "UNLOADABLE"},
           Store(ProcOf[s], AbilityStateTransition(Context(ProcOf[s]), {s}, "LOADED")),
           OnAbilityLoaded(s, AbilityStateTransition(Context(ProcOf[s]), {s}, "LOADED"))
    PROVE  /\ saState' = [saState EXCEPT ![s] = "LOADED"]
           /\ KeepsTasks
           /\ \/ notice' = [notice EXCEPT ![ProcOf[s]] = "activated"]
              \/ /\ notice' = notice
                 /\ \E t \in saList(ProcOf[s]) : saState[t] = "LOADED"
<1> DEFINE p == ProcOf[s]
           c == AbilityStateTransition(Context(p), {s}, "LOADED")
<1>1. p \in Procs /\ s \in saList(p) /\ {s} \in SUBSET saList(p) /\ AbilityInv /\ TypeOK
    BY SchedulerAssumption DEF saList, CountInv, TypeOK, AbilityInv
<1>2. ContextOK(Context(p), p) /\ Context(p).sa = saState
    BY <1>1, ContextIsOK DEF Context
<1>3. ContextOK(c, p) /\ c.sa = Moved(saState, {s}, "LOADED")
    BY <1>1, <1>2, TransitionOK DEF AbilityStates
<1>4. c.sa = [saState EXCEPT ![s] = "LOADED"]
    BY <1>1, <1>3 DEF Moved, CanEnter, AbilityInv
<1>5. /\ saState' = c.sa
      /\ notice' = IF c.cnt["LOADED"] = 1 THEN [notice EXCEPT ![p] = "activated"] ELSE notice
      /\ taskQueue' = taskQueue \o << <<"pendingUnload", s>> >>
    BY DEF Store, OnAbilityLoaded, Post, IsProcessActivated
<1>6. << <<"pendingUnload", s>> >> \in Seq(Tasks)
    BY DEF Tasks
<1>7. KeepsTasks
    BY <1>1, <1>5, <1>6, QueueKeeps
<1> HIDE DEF p, c
<1>8. ASSUME c.cnt["LOADED"] # 1 PROVE \E t \in saList(p) : saState[t] = "LOADED"
  <2>1. c.sa[s] = "LOADED" /\ \A t \in SAs \ {s} : c.sa[t] = saState[t]
    BY <1>1, <1>4 DEF AbilityInv
  <2>2. \A r \in saList(p) : c.sa[r] = "LOADED" /\ c.cnt["LOADED"] # 1 =>
            \E t \in saList(p) : t # r /\ c.sa[t] = "LOADED"
    BY <1>1, <1>3, LoadedCount
  <2>3. PICK t \in saList(p) : t # s /\ c.sa[t] = "LOADED"
    BY <1>1, <1>8, <2>1, <2>2
  <2> QED BY <2>1, <2>3 DEF saList
<1> QED BY <1>4, <1>5, <1>7, <1>8 DEF p

(* OnAbilityUnloadableLocked: listeners hear "idled" only when no SA of    *)
(* the process is LOADED, and the reclaim attempt is posted.               *)
LEMMA UnloadableEffect ==
    ASSUME CountInv, NEW s \in SAs, saState[s] = "LOADED", NEW queue, NEW stopOk \in BOOLEAN,
           OnAbilityUnloadable(s, queue, stopOk),
           \/ queue = taskQueue
           \/ NextTask(<<"pendingUnload", s>>) /\ queue = Tail(taskQueue)
    PROVE  /\ \E x \in {"UNLOADABLE", "UNLOADING"} : saState' = [saState EXCEPT ![s] = x]
           /\ KeepsTasks
           /\ Queued(<<"tryUnloadAll", ProcOf[s]>>)'
           /\ \/ notice' = notice
              \/ /\ notice' = [notice EXCEPT ![ProcOf[s]] = "idled"]
                 /\ \A t \in saList(ProcOf[s]) : saState'[t] # "LOADED"
<1> DEFINE p == ProcOf[s]
           c == AbilityStateTransition(Context(p), {s}, "UNLOADABLE")
<1>1. p \in Procs /\ s \in saList(p) /\ {s} \in SUBSET saList(p) /\ AbilityInv /\ TypeOK
    BY SchedulerAssumption DEF saList, CountInv, TypeOK, AbilityInv
<1>2. ContextOK(Context(p), p) /\ Context(p).sa = saState
    BY <1>1, ContextIsOK DEF Context
<1>3. ContextOK(c, p) /\ c.sa = Moved(saState, {s}, "UNLOADABLE")
    BY <1>1, <1>2, TransitionOK DEF AbilityStates
<1>4. c.sa = [saState EXCEPT ![s] = "UNLOADABLE"]
    BY <1>1, <1>3 DEF Moved, CanEnter, AbilityInv
<1>5. PICK x \in {"UNLOADABLE", "UNLOADING"} : saState' = [saState EXCEPT ![s] = x]
    BY <1>1, UnloadableStep
<1>6. /\ notice' = IF c.cnt["LOADED"] = 0 /\ c.cnt["LOADING"] = 0
                      THEN [notice EXCEPT ![p] = "idled"] ELSE notice
      /\ taskQueue' = queue \o << <<"tryUnloadAll", p>> >>
    BY DEF OnAbilityUnloadable, Post, IsProcessIdled
<1>7. << <<"tryUnloadAll", p>> >> \in Seq(Tasks)
    BY <1>1 DEF Tasks
<1>8. KeepsTasks /\ Queued(<<"tryUnloadAll", p>>)'
  <2> DEFINE tasks == << <<"tryUnloadAll", p>> >>
  <2>1. 1 \in 1..Len(tasks) /\ tasks[1] = <<"tryUnloadAll", p>>
    OBVIOUS
  <2>2. KeepsTasks /\ \A i \in 1..Len(tasks) : Queued(tasks[i])'
    <3> HIDE DEF tasks
    <3> QED BY <1>1, <1>6, <1>7, QueueKeeps DEF tasks
  <2> QED BY <2>1, <2>2
<1> HIDE DEF p, c
<1>9. ASSUME c.cnt["LOADED"] = 0 PROVE \A t \in saList(p) : saState'[t] # "LOADED"
  <2>1. \A t \in saList(p) : c.sa[t] # "LOADED"
    BY <1>1, <1>3, <1>9, LoadedCount
  <2>2. \A t \in SAs : saState'[t] = c.sa[t] \/ saState'[t] \in {"UNLOADABLE", "UNLOADING"}
    BY <1>1, <1>4, <1>5 DEF AbilityInv
  <2> QED BY <2>1, <2>2 DEF saList
<1> QED BY <1>5, <1>6, <1>8, <1>9 DEF p

(* OnAbilityNotLoadedLocked posts the kill or the reclaim attempt.         *)
LEMMA NotLoadedEffect ==
    ASSUME TypeOK, NEW s \in SAs, OnAbilityNotLoaded(s)
    PROVE  /\ KeepsTasks
           /\ procState[ProcOf[s]] = "STOPPING" => Queued(<<"tryKill", ProcOf[s]>>)'
           /\ procState[ProcOf[s]] = "STARTED" => Queued(<<"tryUnloadAll", ProcOf[s]>>)'
<1> DEFINE p == ProcOf[s]
<1>1. p \in Procs
    BY SchedulerAssumption
<1>2. ASSUME NEW task \in Tasks, taskQueue' = taskQueue \o <<task>>
      PROVE  KeepsTasks /\ Queued(task)'
  <2> DEFINE tasks == <<task>>
  <2>1. 1 \in 1..Len(tasks) /\ tasks[1] = task /\ tasks \in Seq(Tasks)
    OBVIOUS
  <2>2. KeepsTasks /\ \A i \in 1..Len(tasks) : Queued(tasks[i])'
    <3>1. taskQueue' = taskQueue \o tasks
        BY <1>2
    <3> HIDE DEF tasks
    <3> QED BY <2>1, <3>1, QueueKeeps
  <2> QED BY <2>1, <2>2
<1>3. <<"tryKill", p>> \in Tasks /\ <<"tryUnloadAll", p>> \in Tasks
    BY <1>1 DEF Tasks
<1>4. CASE procState[p] = "STOPPING"
    BY <1>2, <1>3, <1>4 DEF OnAbilityNotLoaded, Post
<1>5. CASE procState[p] = "STARTED"
    BY <1>2, <1>3, <1>5 DEF OnAbilityNotLoaded, Post
<1>6. CASE procState[p] \notin {"STARTED", "STOPPING"}
  <2>1. (CASE procState[p] = "STOPPING" -> << <<"tryKill", p>> >>
           [] procState[p] = "STARTED"  -> << <<"tryUnloadAll", p>> >>
           [] OTHER -> <<>>) = <<>>
    BY <1>6
  <2>2. taskQueue' = taskQueue \o <<>>
    BY <2>1 DEF OnAbilityNotLoaded, Post
  <2>3. <<>> \in Seq(Tasks)
    OBVIOUS
  <2>4. KeepsTasks
    BY <2>2, <2>3, QueueKeeps
  <2> QED BY <1>6, <2>4
<1> QED BY <1>4, <1>5, <1>6

SAEffect(s) ==
    LET p == ProcOf[s]
    IN  /\ KeepsTasks
        /\ UNCHANGED <<procState, stopSent>>
        /\ \/ UNCHANGED <<saState, notice>>
           \/ saState' = [saState EXCEPT ![s] = "LOADING"] /\ UNCHANGED notice
           \/ /\ saState' = [saState EXCEPT ![s] = "LOADED"]
              /\ \/ notice' = [notice EXCEPT ![p] = "activated"]
                 \/ UNCHANGED notice /\ \E t \in saList(p) : saState[t] = "LOADED"
           \/ /\ \E x \in {"UNLOADABLE", "UNLOADING"} : saState' = [saState EXCEPT ![s] = x]
              /\ Queued(<<"tryUnloadAll", p>>)'
              /\ saState[s] = "LOADED"
              /\ \/ UNCHANGED notice
                 \/ /\ notice' = [notice EXCEPT ![p] = "idled"]
                    /\ \A t \in saList(p) : saState'[t] # "LOADED"
           \/ /\ saState' = [saState EXCEPT ![s] = "NOT_LOADED"] /\ UNCHANGED notice
              /\ procState[p] = "STOPPING" => Queued(<<"tryKill", p>>)'
              /\ procState[p] = "STARTED" => Queued(<<"tryUnloadAll", p>>)'

(* Every handler, task and timer of an SA has one of these effects.        *)
LEMMA SAStep ==
    ASSUME CountInv, NEW s \in SAs, SANext(s)
    PROVE  SAEffect(s)
<1> DEFINE p == ProcOf[s]
<1>0. AbilityInv /\ TypeOK /\ p \in Procs /\ {s} \in SUBSET saList(p)
    BY SchedulerAssumption DEF CountInv, TypeOK, AbilityInv, saList
<1>1. ASSUME UNCHANGED <<saState, notice, procState, stopSent, taskQueue>> PROVE SAEffect(s)
    BY <1>1 DEF SAEffect, KeepsTasks, Queued
<1>2. ASSUME NEW to \in {"NOT_LOADED", "LOADING"}, CanEnter(saState[s], to),
             Store(p, AbilityStateTransition(Context(p), {s}, to))
      PROVE  saState' = [saState EXCEPT ![s] = to]
  <2>1. saState' = Moved(saState, {s}, to)
    BY <1>0, <1>2, StoreTransition DEF AbilityStates
  <2> QED BY <1>0, <1>2, <2>1 DEF Moved, AbilityInv
<1>3. ASSUME UNCHANGED <<notice, procState, stopSent, taskQueue>>, saState[s] = "NOT_LOADED",
             Store(p, AbilityStateTransition(Context(p), {s}, "LOADING"))
      PROVE  SAEffect(s)
  <2>1. saState' = [saState EXCEPT ![s] = "LOADING"]
    BY <1>2, <1>3 DEF CanEnter
  <2> QED BY <1>3, <2>1 DEF SAEffect, KeepsTasks, Queued
<1>4. ASSUME UNCHANGED <<procState, stopSent>>,
             saState[s] \in {"NOT_LOADED", "LOADING", "UNLOADABLE"},
             Store(p, AbilityStateTransition(Context(p), {s}, "LOADED")),
             OnAbilityLoaded(s, AbilityStateTransition(Context(p), {s}, "LOADED"))
      PROVE  SAEffect(s)
    BY <1>4, LoadedEffect DEF SAEffect
<1>5. ASSUME UNCHANGED <<notice, procState, stopSent>>, saState[s] # "NOT_LOADED",
             Store(p, AbilityStateTransition(Context(p), {s}, "NOT_LOADED")),
             OnAbilityNotLoaded(s)
      PROVE  SAEffect(s)
  <2>1. saState' = [saState EXCEPT ![s] = "NOT_LOADED"]
    BY <1>2, <1>5 DEF CanEnter
  <2> QED BY <1>0, <1>5, <2>1, NotLoadedEffect DEF SAEffect
<1>6. ASSUME NEW queue, taskQueue' = queue,
             \/ queue = taskQueue
             \/ NextTask(<<"pendingUnload", s>>) /\ queue = Tail(taskQueue)
      PROVE  KeepsTasks
  <2>1. queue \in Seq(Tasks)
    <3>1. taskQueue \in Seq(Tasks)
        BY <1>0 DEF TypeOK
    <3>2. NextTask(<<"pendingUnload", s>>) => Tail(taskQueue) \in Seq(Tasks)
        BY <3>1, HeadTailProperties DEF NextTask
    <3> QED BY <1>6, <3>1, <3>2
  <2>2. taskQueue' = queue \o <<>> /\ <<>> \in Seq(Tasks)
    BY <1>6, <2>1, ConcatEmptySeq
  <2> QED BY <1>0, <1>6, <2>2, QueueKeeps
<1>7. ASSUME NEW queue, NEW answer, NEW stopOk \in BOOLEAN, saState[s] = "LOADED",
             ProcessDelayUnload(s, queue, answer, stopOk), UNCHANGED <<procState, stopSent>>,
             \/ queue = taskQueue
             \/ NextTask(<<"pendingUnload", s>>) /\ queue = Tail(taskQueue)
      PROVE  SAEffect(s)
  <2>1. CASE OnAbilityUnloadable(s, queue, stopOk)
    <3>1. /\ \E x \in {"UNLOADABLE", "UNLOADING"} : saState' = [saState EXCEPT ![s] = x]
          /\ KeepsTasks
          /\ Queued(<<"tryUnloadAll", ProcOf[s]>>)'
          /\ \/ notice' = notice
             \/ /\ notice' = [notice EXCEPT ![ProcOf[s]] = "idled"]
                /\ \A t \in saList(ProcOf[s]) : saState'[t] # "LOADED"
      <4> HIDE DEF p
      <4> QED BY <1>7, <2>1, UnloadableEffect
    <3>2. PICK x \in {"UNLOADABLE", "UNLOADING"} : saState' = [saState EXCEPT ![s] = x]
      BY <3>1
    <3> QED BY <1>7, <3>1, <3>2 DEF SAEffect
  <2>2. CASE UNCHANGED <<saState, notice>> /\ taskQueue' = queue
    BY <1>6, <1>7, <2>2 DEF SAEffect
  <2> QED BY <1>7, <2>1, <2>2 DEF ProcessDelayUnload, abilityVars
<1>8. ASSUME UNCHANGED <<procState, stopSent>>, NEW queue, NEW answer, NEW stopOk \in BOOLEAN,
             \/ queue = taskQueue
             \/ NextTask(<<"pendingUnload", s>>) /\ queue = Tail(taskQueue),
             \/ UNCHANGED <<saState, notice>> /\ taskQueue' = queue
             \/ saState[s] = "LOADED" /\ ProcessDelayUnload(s, queue, answer, stopOk)
      PROVE  SAEffect(s)
  <2>1. CASE UNCHANGED <<saState, notice>> /\ taskQueue' = queue
    BY <1>6, <1>8, <2>1 DEF SAEffect
  <2> QED BY <1>7, <1>8, <2>1
<1>9. CASE HandleLoadAbilityEvent(s)
  <2>1. CASE \E cb \in Callbacks, tooOld \in BOOLEAN : PendLoad(s, cb, tooOld)
    BY <1>1, <2>1 DEF PendLoad, abilityVars
  <2>2. CASE \E ok \in BOOLEAN : LoadNow(s, ok)
    BY <1>1, <1>3, <1>4, <2>2 DEF LoadNow, abilityVars
  <2> QED BY <1>9, <2>1, <2>2 DEF HandleLoadAbilityEvent
<1>10. CASE HandleCheckLoad(s)
    BY <1>3, <1>10 DEF HandleCheckLoad
<1>11. CASE HandleUnloadAbilityEvent(s)
    BY <1>8, <1>11 DEF HandleUnloadAbilityEvent, HandleUnload, abilityVars
<1>12. CASE HandleCancelUnloadAbilityEvent(s)
    BY <1>4, <1>12 DEF HandleCancelUnloadAbilityEvent
<1>13. CASE HandleLoadSuccessEvent(s)
    BY <1>4, <1>13 DEF HandleLoadSuccessEvent
<1>14. CASE HandleLoadFailedEvent(s)
    BY <1>5, <1>14 DEF HandleLoadFailedEvent
<1>15. CASE HandleUnloadSuccessEvent(s)
    BY <1>5, <1>15 DEF HandleUnloadSuccessEvent
<1>16. CASE DelayUnloadFires(s)
    BY <1>1, <1>16 DEF DelayUnloadFires, abilityVars
<1>17. CASE DelayUnloadRuns(s)
    BY <1>1, <1>8, <1>17 DEF DelayUnloadRuns, abilityVars
<1>18. CASE HandlePendingUnloadEvent(s)
    BY <1>8, <1>18 DEF HandlePendingUnloadEvent, HandleUnload, abilityVars
<1>19. CASE OverflowClears(s)
    BY <1>1, <1>19 DEF OverflowClears, abilityVars
<1> QED BY <1>9, <1>10, <1>11, <1>12, <1>13, <1>14, <1>15, <1>16, <1>17, <1>18, <1>19 DEF SANext

-----------------------------------------------------------------------------
(* Every kill and every reclaim attempt that has become possible is posted.*)

Reclaimable(p) ==
    /\ procState[p] = "STARTED" /\ p \in ImmediateRecycle
    /\ \A s \in saList(p) : saState[s] \in {"NOT_LOADED", "UNLOADABLE", "UNLOADING"}
    /\ \E s \in saList(p) : saState[s] # "NOT_LOADED"

ProcTasks(p) ==
    /\ procState[p] = "STOPPING" /\ (\A s \in saList(p) : saState[s] = "NOT_LOADED") =>
            stopSent[p] \/ Queued(<<"tryKill", p>>)
    /\ Reclaimable(p) => Queued(<<"tryUnloadAll", p>>)

TaskInv == \A p \in Procs : ProcTasks(p)

(* TaskInv is inductive relative to LifeInv.                               *)
LEMMA TaskStep ==
    ASSUME LifeInv, TaskInv, [Next]_vars
    PROVE  TaskInv'
<1>0. CountInv /\ HostInv /\ TypeOK /\ AbilityInv
    BY DEF LifeInv, CountInv, TypeOK, AbilityInv
<1> USE SchedulerAssumption
<1>1. ASSUME NEW q \in Procs,
             \A s \in saList(q) : saState'[s] = saState[s],
             procState'[q] = procState[q], stopSent'[q] = stopSent[q],
             \A k \in {"tryKill", "tryUnloadAll"} : Queued(<<k, q>>) => Queued(<<k, q>>)'
      PROVE  ProcTasks(q)'
  <2>1. ProcTasks(q)
    BY DEF TaskInv
  <2> QED BY <1>1, <2>1 DEF ProcTasks, Reclaimable, saList
<1>2. ASSUME NEW s \in SAs, SANext(s), NEW q \in Procs PROVE ProcTasks(q)'
  <2>1. SAEffect(s)
    BY <1>0, <1>2, SAStep
  <2>2. UNCHANGED <<procState, stopSent>>
        /\ \A k \in {"tryKill", "tryUnloadAll"} : Queued(<<k, q>>) => Queued(<<k, q>>)'
    BY <2>1 DEF SAEffect, KeepsTasks, ReclaimTasks
  <2>3. \A t \in SAs : t # s => saState'[t] = saState[t]
    BY <1>0, <2>1 DEF SAEffect, TypeOK
  <2>4. CASE q # ProcOf[s] \/ UNCHANGED saState
    BY <1>1, <2>2, <2>3, <2>4 DEF saList
  <2>5. CASE q = ProcOf[s] /\ ~UNCHANGED saState
    <3>1. s \in saList(q)
        BY <2>5 DEF saList
    <3>2. CASE saState'[s] \in {"LOADING", "LOADED"}
        BY <3>1, <3>2 DEF ProcTasks, Reclaimable, saList
    <3>3. CASE saState'[s] \in {"UNLOADABLE", "UNLOADING"} /\ Queued(<<"tryUnloadAll", q>>)'
        BY <3>1, <3>3 DEF ProcTasks, Reclaimable, saList
    <3>4. CASE /\ procState[q] = "STOPPING" => Queued(<<"tryKill", q>>)'
               /\ procState[q] = "STARTED" => Queued(<<"tryUnloadAll", q>>)'
        BY <2>2, <3>4 DEF ProcTasks, Reclaimable
    <3> QED BY <1>0, <2>1, <2>5, <3>2, <3>3, <3>4 DEF SAEffect, TypeOK
  <2> QED BY <2>4, <2>5
<1>3. ASSUME NEW p \in Procs, ProcNext(p), NEW q \in Procs PROVE ProcTasks(q)'
  <2>1. ASSUME UNCHANGED <<saState, procState, stopSent, taskQueue>> PROVE ProcTasks(q)'
    BY <1>1, <2>1 DEF Queued
  <2>2. ASSUME NextTask(<<"tryUnloadAll", p>>) \/ NextTask(<<"tryKill", p>>),
               taskQueue' = Tail(taskQueue),
               NEW task \in {<<"tryUnloadAll", q>>, <<"tryKill", q>>},
               ~NextTask(task), Queued(task)
        PROVE  Queued(task)'
    <3>1. taskQueue \in Seq(Tasks) /\ taskQueue # <<>> /\ task # Head(taskQueue)
        BY <1>0, <2>2 DEF TypeOK, NextTask
    <3> QED BY <2>2, <3>1, TailKeeps DEF Queued
  <2>3. ASSUME NEW k \in {"tryUnloadAll", "tryKill"}, NextTask(<<k, p>>),
               taskQueue' = Tail(taskQueue), NEW j \in {"tryUnloadAll", "tryKill"},
               j # k \/ q # p, Queued(<<j, q>>)
        PROVE  Queued(<<j, q>>)'
    <3>1. ~NextTask(<<j, q>>)
        BY <2>3 DEF NextTask
    <3> QED BY <2>2, <2>3, <3>1
  <2>4. ASSUME NEW told \in SUBSET saList(p), NEW checkRecycle \in BOOLEAN,
               CanUnloadAllSystemAbility(p, checkRecycle), UnloadAllSystemAbility(p, told),
               UNCHANGED stopSent,
               \/ UNCHANGED taskQueue
               \/ NextTask(<<"tryUnloadAll", p>>) /\ taskQueue' = Tail(taskQueue)
        PROVE  ProcTasks(q)'
    <3>1. Lifecycle!StopProcess(p, told)
        BY <1>0, <2>4, UnloadAllStep
    <3>2. CASE q = p
      <4>1. procState'[p] = "STOPPING"
        BY <1>0, <3>1 DEF Lifecycle!StopProcess, TypeOK
      <4>2. PICK s \in saList(p) : saState[s] # "NOT_LOADED"
        BY <3>1 DEF Lifecycle!StopProcess, Lifecycle!Hosted, saList
      <4>3. saState'[s] # "NOT_LOADED"
        BY <3>1, <4>2 DEF Lifecycle!StopProcess, saList
      <4> QED BY <3>2, <4>1, <4>2, <4>3 DEF ProcTasks, Reclaimable, saList
    <3>3. CASE q # p
      <4>1. \A s \in saList(q) : saState'[s] = saState[s]
        BY <3>1, <3>3 DEF Lifecycle!StopProcess, saList
      <4>2. procState'[q] = procState[q]
        BY <1>0, <3>1, <3>3 DEF Lifecycle!StopProcess, TypeOK
      <4>3. \A k \in {"tryKill", "tryUnloadAll"} : Queued(<<k, q>>) => Queued(<<k, q>>)'
        BY <2>3, <2>4, <3>3 DEF Queued
      <4> QED BY <1>1, <2>4, <4>1, <4>2, <4>3
    <3> QED BY <3>2, <3>3
  <2>5. CASE UnloadProcess(p)
    BY <2>4, <2>5 DEF UnloadProcess
  <2>6. CASE TryUnloadAllSystemAbility(p)
    <3>1. NextTask(<<"tryUnloadAll", p>>) /\ taskQueue' = Tail(taskQueue) /\ UNCHANGED stopSent
        BY <2>6 DEF TryUnloadAllSystemAbility
    <3>2. CASE CanUnloadAllSystemAbility(p, TRUE)
        BY <2>4, <2>6, <3>1, <3>2 DEF TryUnloadAllSystemAbility
    <3>3. CASE ~CanUnloadAllSystemAbility(p, TRUE) /\ UNCHANGED <<saState, procState>>
      <4>1. \A k \in {"tryKill", "tryUnloadAll"} :
                k # "tryUnloadAll" \/ q # p => (Queued(<<k, q>>) => Queued(<<k, q>>)')
        BY <2>3, <3>1
      <4>2. CASE q # p
        BY <1>1, <3>1, <3>3, <4>1, <4>2
      <4>3. CASE q = p
        <5>1. p \in ImmediateRecycle =>
                ~ /\ \A s \in saList(p) : saState[s] \in {"NOT_LOADED", "UNLOADABLE", "UNLOADING"}
                  /\ \E s \in saList(p) : saState[s] # "NOT_LOADED"
            BY <1>0, <3>3, CanUnloadAllMeaning
        <5>2. ProcTasks(p)
            BY DEF TaskInv
        <5> QED BY <3>1, <3>3, <4>1, <4>3, <5>1, <5>2 DEF ProcTasks, Reclaimable, saList
      <4> QED BY <4>2, <4>3
    <3> QED BY <2>6, <3>2, <3>3 DEF TryUnloadAllSystemAbility, abilityVars
  <2>7. CASE TryKillSystemProcess(p)
    <3>1. /\ NextTask(<<"tryKill", p>>) /\ taskQueue' = Tail(taskQueue)
          /\ UNCHANGED <<saState, procState>>
        BY <2>7 DEF TryKillSystemProcess, abilityVars
    <3>2. \A k \in {"tryKill", "tryUnloadAll"} :
                k # "tryKill" \/ q # p => (Queued(<<k, q>>) => Queued(<<k, q>>)')
        BY <2>3, <3>1
    <3>3. CASE q # p
      <4>1. stopSent'[q] = stopSent[q]
        BY <1>0, <2>7, <3>3 DEF TryKillSystemProcess, ServiceControlStop, TypeOK
      <4> QED BY <1>1, <3>1, <3>2, <3>3, <4>1
    <3>4. CASE q = p
      <4>1. CanKillSystemProcess(p) <=> \A s \in saList(p) : saState[s] = "NOT_LOADED"
        BY <1>0, CanKillMeaning
      <4>2. CanKillSystemProcess(p) /\ procState[p] = "STOPPING" => stopSent'[p]
        BY <1>0, <2>7 DEF TryKillSystemProcess, ServiceControlStop, TypeOK
      <4>3. ProcTasks(p)
        BY DEF TaskInv
      <4> QED BY <3>1, <3>2, <3>4, <4>1, <4>2, <4>3 DEF ProcTasks, Reclaimable, saList
    <3> QED BY <3>3, <3>4
  <2>8. CASE UnloadTimeoutFires(p)
    BY <2>1, <2>8 DEF UnloadTimeoutFires, abilityVars
  <2>9. ASSUME ServiceControlStop(p), UNCHANGED <<saState, procState, taskQueue>>
        PROVE  ProcTasks(q)'
    <3>1. CASE q # p
      <4>1. stopSent'[q] = stopSent[q]
        BY <1>0, <2>9, <3>1 DEF ServiceControlStop, TypeOK
      <4> QED BY <1>1, <2>9, <4>1 DEF Queued
    <3>2. CASE q = p
      <4>1. procState[p] = "STOPPING" => stopSent'[p]
        BY <1>0, <2>9 DEF ServiceControlStop, TypeOK
      <4>2. ProcTasks(p)
        BY DEF TaskInv
      <4> QED BY <2>9, <3>2, <4>1, <4>2 DEF ProcTasks, Reclaimable, saList, Queued
    <3> QED BY <3>1, <3>2
  <2>10. CASE UnloadTimeoutRuns(p)
    BY <2>1, <2>9, <2>10 DEF UnloadTimeoutRuns, abilityVars
  <2>11. CASE HandleProcessStartedEvent(p)
    <3>1. CASE q # p
      <4>1. procState'[q] = procState[q]
        BY <1>0, <2>11, <3>1 DEF HandleProcessStartedEvent, TypeOK
      <4> QED BY <1>1, <2>11, <4>1 DEF HandleProcessStartedEvent, abilityVars, Queued
    <3>2. CASE q = p
      <4>1. procState'[p] = "STARTED" /\ procState[p] = "NOT_STARTED" /\ UNCHANGED saState
        BY <1>0, <2>11 DEF HandleProcessStartedEvent, ProcessStateTransition, CanEnterProc,
                           TypeOK, abilityVars
      <4>2. \A s \in saList(p) : saState[s] \in {"NOT_LOADED", "LOADING", "LOADED"}
        BY <1>0, <4>1 DEF HostInv, NoIdleInDeadProcess, saList
      <4> QED BY <3>2, <4>1, <4>2 DEF ProcTasks, Reclaimable, saList
    <3> QED BY <3>1, <3>2
  <2>12. ASSUME NEW loading \in SUBSET saList(p), NEW watermark \in BOOLEAN,
                NEW tooFast \in BOOLEAN, UNCHANGED taskQueue,
                procState[p] \in {"STARTED", "STOPPING"},
                ProcessNotStarted(p, loading, watermark, tooFast)
         PROVE  ProcTasks(q)'
    <3>1. Lifecycle!EndProcess(p, loading)
        BY <1>0, <2>12, NotStartedEnds
    <3>2. CASE q = p
      <4>1. procState'[p] = "NOT_STARTED"
        BY <1>0, <3>1 DEF Lifecycle!EndProcess, TypeOK
      <4> QED BY <3>2, <4>1 DEF ProcTasks, Reclaimable
    <3>3. CASE q # p
      <4>1. \A s \in saList(q) : saState'[s] = saState[s]
        BY <3>1, <3>3 DEF Lifecycle!EndProcess, Lifecycle!Hosted, saList
      <4>2. procState'[q] = procState[q]
        BY <1>0, <3>1, <3>3 DEF Lifecycle!EndProcess, TypeOK
      <4>3. stopSent'[q] = stopSent[q]
        BY <1>0, <2>12, <3>3 DEF ProcessNotStarted, TypeOK
      <4> QED BY <1>1, <2>12, <4>1, <4>2, <4>3 DEF Queued
    <3> QED BY <3>2, <3>3
  <2>13. CASE HandleProcessStoppedEvent(p)
    BY <2>12, <2>13 DEF HandleProcessStoppedEvent
  <2>14. CASE OverflowStops(p)
    BY <2>9, <2>12, <2>14 DEF OverflowStops, abilityVars
  <2> QED BY <1>3, <2>5, <2>6, <2>7, <2>8, <2>10, <2>11, <2>13, <2>14 DEF ProcNext
<1>4. CASE UNCHANGED vars
  <2>1. UNCHANGED <<saState, procState, stopSent, taskQueue>>
    BY <1>4 DEF vars, abilityVars
  <2> QED BY <1>1, <2>1 DEF TaskInv, Queued
<1> QED BY <1>2, <1>3, <1>4 DEF Next, TaskInv

(* When the last SA of a STOPPING process goes, the kill is posted or      *)
(* done, and when a running process with immediate recycling becomes idle, *)
(* its reclaim attempt is posted; no other task or timer takes either away.*)
THEOREM ReclaimsArePosted == Spec => []ReclaimIsQueued
<1>1. Init => TaskInv
    BY DEF Init, TaskInv, ProcTasks, Reclaimable
<1>2. LifeInv /\ TaskInv /\ [Next]_vars => TaskInv'
    BY TaskStep
<1>3. ASSUME LifeInv, TaskInv PROVE ReclaimIsQueued
  <2>1. AbilityInv /\ ImmediateRecycle \subseteq Procs
    BY <1>3, SchedulerAssumption DEF LifeInv, CountInv, TypeOK, AbilityInv
  <2>2. EmptiedProcessIsKilled
    BY <1>3 DEF TaskInv, ProcTasks, EmptiedProcessIsKilled
  <2>3. ASSUME NEW p \in ImmediateRecycle, procState[p] = "STARTED",
               CanUnloadAllSystemAbility(p, TRUE)
        PROVE  Queued(<<"tryUnloadAll", p>>)
    <3>1. Reclaimable(p)
        BY <2>1, <2>3, CanUnloadAllMeaning DEF Reclaimable
    <3> QED BY <1>3, <2>1, <3>1 DEF TaskInv, ProcTasks
  <2> QED BY <2>2, <2>3 DEF IdleProcessIsReclaimed, ReclaimIsQueued
<1> QED BY <1>1, <1>2, <1>3, LifeInvInductive, PTL DEF Spec

-----------------------------------------------------------------------------
(* What the listeners of a process last heard.                             *)

(* An SA becomes LOADED with "activated" or beside another LOADED SA.      *)
LEMMA IdledStep ==
    ASSUME LifeInv, IdledMeansNoneLoaded, [Next]_vars
    PROVE  IdledMeansNoneLoaded'
<1> USE SchedulerAssumption
<1>0. CountInv /\ HostInv /\ TypeOK
    BY DEF LifeInv, CountInv
<1>1. ASSUME UNCHANGED notice,
             \A t \in SAs : saState'[t] = "LOADED" => saState[t] = "LOADED"
      PROVE  IdledMeansNoneLoaded'
    BY <1>1 DEF IdledMeansNoneLoaded
<1>2. ASSUME NEW s \in SAs, SANext(s) PROVE IdledMeansNoneLoaded'
  <2>1. SAEffect(s)
    BY <1>0, <1>2, SAStep
  <2>2. \A t \in SAs : t # s => saState'[t] = saState[t]
    BY <1>0, <2>1 DEF SAEffect, TypeOK
  <2>3. ASSUME saState'[s] # "LOADED" \/ saState[s] = "LOADED", UNCHANGED notice
        PROVE  IdledMeansNoneLoaded'
    BY <1>1, <2>2, <2>3
  <2>4. CASE UNCHANGED <<saState, notice>>
    BY <1>1, <2>4
  <2>5. CASE notice' = [notice EXCEPT ![ProcOf[s]] = "activated"]
    BY <1>0, <2>2, <2>5 DEF IdledMeansNoneLoaded, TypeOK
  <2>6. CASE UNCHANGED notice /\ \E t \in saList(ProcOf[s]) : saState[t] = "LOADED"
    BY <2>2, <2>6 DEF IdledMeansNoneLoaded, saList
  <2>7. CASE /\ notice' = [notice EXCEPT ![ProcOf[s]] = "idled"]
             /\ \A t \in saList(ProcOf[s]) : saState'[t] # "LOADED"
    BY <1>0, <2>2, <2>7 DEF IdledMeansNoneLoaded, TypeOK, saList
  <2> QED BY <1>0, <2>1, <2>3, <2>4, <2>5, <2>6, <2>7 DEF SAEffect, TypeOK
<1>3. ASSUME NEW p \in Procs, ProcNext(p) PROVE IdledMeansNoneLoaded'
  <2>1. ASSUME NEW told \in SUBSET saList(p), UnloadAllSystemAbility(p, told),
               NEW checkRecycle \in BOOLEAN, CanUnloadAllSystemAbility(p, checkRecycle),
               UNCHANGED notice
        PROVE  IdledMeansNoneLoaded'
    <3>1. Lifecycle!StopProcess(p, told)
        BY <1>0, <2>1, UnloadAllStep
    <3> QED BY <1>1, <2>1, <3>1 DEF Lifecycle!StopProcess
  <2>2. ASSUME NEW loading \in SUBSET saList(p), NEW watermark \in BOOLEAN,
               NEW tooFast \in BOOLEAN, procState[p] \in {"STARTED", "STOPPING"},
               ProcessNotStarted(p, loading, watermark, tooFast), UNCHANGED notice
        PROVE  IdledMeansNoneLoaded'
    <3>1. Lifecycle!EndProcess(p, loading)
        BY <1>0, <2>2, NotStartedEnds
    <3> QED BY <1>1, <2>2, <3>1 DEF Lifecycle!EndProcess
  <2>3. ASSUME UNCHANGED <<saState, notice>> PROVE IdledMeansNoneLoaded'
    BY <1>1, <2>3
  <2>4. CASE UnloadProcess(p)
    BY <2>1, <2>4 DEF UnloadProcess
  <2>5. CASE TryUnloadAllSystemAbility(p)
    BY <2>1, <2>3, <2>5 DEF TryUnloadAllSystemAbility, abilityVars
  <2>6. CASE TryKillSystemProcess(p)
    BY <2>3, <2>6 DEF TryKillSystemProcess, abilityVars
  <2>7. CASE UnloadTimeoutFires(p) \/ UnloadTimeoutRuns(p)
    BY <2>3, <2>7 DEF UnloadTimeoutFires, UnloadTimeoutRuns, abilityVars
  <2>8. CASE HandleProcessStartedEvent(p)
    BY <2>3, <2>8 DEF HandleProcessStartedEvent, abilityVars
  <2>9. CASE HandleProcessStoppedEvent(p)
    BY <2>2, <2>9 DEF HandleProcessStoppedEvent
  <2>10. CASE OverflowStops(p)
    BY <2>2, <2>3, <2>10 DEF OverflowStops, abilityVars
  <2> QED BY <1>3, <2>4, <2>5, <2>6, <2>7, <2>8, <2>9, <2>10 DEF ProcNext
<1>4. CASE UNCHANGED vars
    BY <1>1, <1>4 DEF vars, abilityVars
<1> QED BY <1>2, <1>3, <1>4 DEF Next

(* IsProcessActivatedLocked compares the count of LOADED SAs with 1 after  *)
(* the transition: enough that listeners never miss the end of an idle     *)
(* time.                                                                   *)
THEOREM IdledIsTrue == Spec => []IdledMeansNoneLoaded
<1>1. Init => IdledMeansNoneLoaded
    BY SchedulerAssumption DEF Init, IdledMeansNoneLoaded
<1>2. LifeInv /\ IdledMeansNoneLoaded /\ [Next]_vars => IdledMeansNoneLoaded'
    BY IdledStep
<1> QED BY <1>1, <1>2, LifeInvInductive, PTL DEF Spec
=============================================================================
