-------------------------- MODULE AbilityScheduler --------------------------
(***************************************************************************)
(* SystemAbilityStateScheduler: loading, unloading and reclaiming system   *)
(* abilities (SAs) and the processes that host them.                       *)
(*                                                                         *)
(* Every handler holds the lock of one process context from its first read *)
(* to its last write, so each is one action.  What runs later is explicit: *)
(* the tasks of processHandler_ (a serial FIFO queue), its named unload    *)
(* timers, the delayed-unload events of unloadEventHandler_ and the tasks  *)
(* of recoverHandler_.  A timer that has left its queue can no longer be   *)
(* cancelled although it still has to wait for the lock: firing and        *)
(* running are two actions.                                                *)
(*                                                                         *)
(* The manager's answers (did the load start, did the SA agree to be       *)
(* idle...) are chosen freely, and so is the time at which SAs and         *)
(* processes come and go.  Times are abstract: a timer may fire at any     *)
(* moment after it was set, an elapsed-time test may answer either way.    *)
(***************************************************************************)
EXTENDS AbilityStateMachine, Sequences

CONSTANTS
    Procs,              \* the host processes
    ProcOf,             \* the process of each SA (ownProcessContext)
    Callbacks,          \* load callbacks (one IPC object each)
    Pids,               \* calling processes
    CallerOf,           \* the pid each callback is passed by
    AutoRestart,        \* SAs with isAutoRestart
    IndependentUnload,  \* SAs with independentUnload
    ImmediateRecycle,   \* processes with an SA recycled IMMEDIATELY
    MaxPendingLoad,     \* MAX_PENDING_LOAD_COUNT
    RestartLimit,       \* RESTART_TIMES_LIMIT
    MaxTasks,           \* bound: tasks waiting in processHandler_
    MaxTimers,          \* bound: unload timers of one process
    MaxRecover,         \* bound: tasks waiting in recoverHandler_
    None                \* no task is running

ASSUME SchedulerAssumption ==
    /\ ProcOf \in [SAs -> Procs]
    /\ CallerOf \in [Callbacks -> Pids]
    /\ AutoRestart \subseteq SAs
    /\ IndependentUnload \subseteq SAs
    /\ ImmediateRecycle \subseteq Procs
    /\ MaxPendingLoad \in Nat
    /\ RestartLimit \in Nat
    /\ MaxTasks \in Nat /\ MaxTimers \in Nat /\ MaxRecover \in Nat
    /\ None \notin SAs /\ None \notin Procs

VARIABLES
    saState,        \* SystemAbilityContext.state
    stateCount,     \* SystemProcessContext.abilityStateCountMap
    procState,      \* SystemProcessContext.state
    pendingEvent,   \* pendingEvent; a pending unload is named by the kind
                    \* of its request (pendingUnloadEvent)
    pendingLoads,   \* callbacks of pendingLoadEventList
    unloadRequest,  \* SystemAbilityContext.unloadRequest is set
    pendingSince,   \* pendingLoadFirstTimestamp is set
    restarts,       \* size of restartCountsCtrl
    enableRestart,  \* SystemProcessContext.enableRestart
    delayUnload,    \* a delayed-unload event waits in unloadEventHandler_
    delayRunning,   \* the SA whose delayed-unload event has been dequeued
    taskQueue,      \* tasks of processHandler_
    unloadTimers,   \* "unloadTimeout" timers waiting in processHandler_
    timeoutRunning, \* the process whose unload timer has been dequeued
    recoverQueue,   \* overflow tasks of recoverHandler_
    recoverRunning, \* the process an overflow task is about to stop
    stopSent,       \* init was asked to STOP the running process
    notice          \* the last active/idle notice sent to listeners

abilityVars == <<saState, stateCount>>
pendingVars == <<pendingEvent, pendingLoads, unloadRequest, pendingSince>>
restartVars == <<restarts, enableRestart>>
delayVars   == <<delayUnload, delayRunning>>
timerVars   == <<unloadTimers, timeoutRunning>>
recoverVars == <<recoverQueue, recoverRunning>>
vars == <<abilityVars, procState, pendingVars, restartVars, delayVars, taskQueue,
          timerVars, recoverVars, stopSent, notice>>

UnloadKinds == {"INTERFACE_CALL", "DELAYED"}
Tasks == ({"tryUnloadAll", "tryKill"} \X Procs) \cup ({"pendingUnload"} \X SAs)

TypeOK ==
    /\ saState \in [SAs -> AbilityStates]
    /\ stateCount \in [Procs -> [AbilityStates -> Int]]
    /\ procState \in [Procs -> ProcStates]
    /\ pendingEvent \in [SAs -> {"NO_EVENT", "LOAD"} \cup UnloadKinds]
    /\ pendingLoads \in [SAs -> SUBSET Callbacks]
    /\ unloadRequest \in [SAs -> BOOLEAN]
    /\ pendingSince \in [Procs -> BOOLEAN]
    /\ restarts \in [Procs -> 0..RestartLimit]
    /\ enableRestart \in [Procs -> BOOLEAN]
    /\ delayUnload \in [SAs -> BOOLEAN]
    /\ delayRunning \in SAs \cup {None}
    /\ taskQueue \in Seq(Tasks)
    /\ unloadTimers \in [Procs -> 0..MaxTimers]
    /\ timeoutRunning \in Procs \cup {None}
    /\ recoverQueue \in Seq(SAs)
    /\ recoverRunning \in Procs \cup {None}
    /\ stopSent \in [Procs -> BOOLEAN]
    /\ notice \in [Procs -> {"none", "activated", "idled"}]

(* InitStateContext: every SA starts NOT_LOADED and is counted there.      *)
saList(p) == {s \in SAs : ProcOf[s] = p}

Init ==
    /\ saState = [s \in SAs |-> "NOT_LOADED"]
    /\ stateCount = [p \in Procs |-> [x \in AbilityStates |->
                        IF x = "NOT_LOADED" THEN Cardinality(saList(p)) ELSE 0]]
    /\ procState = [p \in Procs |-> "NOT_STARTED"]
    /\ pendingEvent = [s \in SAs |-> "NO_EVENT"]
    /\ pendingLoads = [s \in SAs |-> {}]
    /\ unloadRequest = [s \in SAs |-> FALSE]
    /\ pendingSince = [p \in Procs |-> FALSE]
    /\ restarts = [p \in Procs |-> 0]
    /\ enableRestart = [p \in Procs |-> TRUE]
    /\ delayUnload = [s \in SAs |-> FALSE] /\ delayRunning = None
    /\ taskQueue = <<>>
    /\ unloadTimers = [p \in Procs |-> 0] /\ timeoutRunning = None
    /\ recoverQueue = <<>> /\ recoverRunning = None
    /\ stopSent = [p \in Procs |-> FALSE]
    /\ notice = [p \in Procs |-> "none"]

-----------------------------------------------------------------------------
(* The context of a process, the result of a handler stored back, and the  *)
(* tasks it posts to processHandler_.                                      *)
Context(p) == [sa |-> saState, cnt |-> stateCount[p]]

Store(p, c) ==
    /\ saState' = c.sa
    /\ stateCount' = [stateCount EXCEPT ![p] = c.cnt]

Post(queue, tasks) ==
    /\ Len(queue) + Len(tasks) <= MaxTasks
    /\ taskQueue' = queue \o tasks

(* RemovePendingUnloadEventLocked.  The faulty variant also forgets a load *)
(* that waits to be replayed.                                              *)
WithoutAnyEvent(event) == "NO_EVENT"

WithoutUnload(event) == IF event \in UnloadKinds THEN "NO_EVENT" ELSE event

(* IsProcessActivatedLocked and IsProcessIdledLocked: whether listeners    *)
(* hear that the process of context c is in use, or no longer is.          *)
IsProcessActivated(c) == c.cnt["LOADED"] = 1
IsProcessIdled(c) == c.cnt["LOADED"] = 0 /\ c.cnt["LOADING"] = 0

(* OnAbilityLoadedLocked: s has become LOADED in context c.  The faulty    *)
(* variant reads the counts before they are updated, which the comment in  *)
(* IsProcessActivatedLocked forbids.                                       *)
OnAbilityLoadedReadsOldCount(s, c) ==
    /\ Post(taskQueue, << <<"pendingUnload", s>> >>)
    /\ notice' = IF stateCount[ProcOf[s]]["LOADED"] = 1
                    THEN [notice EXCEPT ![ProcOf[s]] = "activated"]
                    ELSE notice

OnAbilityLoaded(s, c) ==
    /\ Post(taskQueue, << <<"pendingUnload", s>> >>)
    /\ notice' = IF IsProcessActivated(c)
                    THEN [notice EXCEPT ![ProcOf[s]] = "activated"]
                    ELSE notice

(* OnAbilityNotLoadedLocked: s has become NOT_LOADED.  The faulty variant  *)
(* posts a reclaim attempt even if the process is already STOPPING.        *)
OnAbilityNotLoadedNeverKills(s) ==
    /\ delayUnload' = [delayUnload EXCEPT ![s] = FALSE]
    /\ pendingEvent' = [pendingEvent EXCEPT ![s] = WithoutUnload(@)]
    /\ Post(taskQueue, IF procState[ProcOf[s]] = "NOT_STARTED" THEN <<>>
                          ELSE << <<"tryUnloadAll", ProcOf[s]>> >>)

OnAbilityNotLoaded(s) ==
    LET p == ProcOf[s]
    IN  /\ delayUnload' = [delayUnload EXCEPT ![s] = FALSE]
        /\ pendingEvent' = [pendingEvent EXCEPT ![s] = WithoutUnload(@)]
        /\ Post(taskQueue, CASE procState[p] = "STOPPING" -> << <<"tryKill", p>> >>
                              [] procState[p] = "STARTED"  -> << <<"tryUnloadAll", p>> >>
                              [] OTHER -> <<>>)

(* ServiceControl STOP: init is asked to stop the process.  A process that *)
(* has not registered has no object whose death is watched, so stopping it *)
(* changes nothing here.                                                   *)
ServiceControlStop(p) ==
    stopSent' = [stopSent EXCEPT ![p] = procState[p] # "NOT_STARTED"]

(* What an SA may answer when the manager tells it to be idle or active    *)
(* again through its process object.  Only a process that hosts the SA     *)
(* answers, and it has no SA before its own registration has returned,     *)
(* which handles PROCESS_STARTED first.                                    *)
IdleAnswers(p) ==
    IF procState[p] = "NOT_STARTED" THEN {"refuse"} ELSE {"refuse", "agree", "delay"}
ActiveAnswers(p) == IF procState[p] = "NOT_STARTED" THEN {FALSE} ELSE BOOLEAN

-----------------------------------------------------------------------------
(* Load requests.                                                          *)

(* PendLoadEventLocked and HandlePendingLoadOverflow: a request for an SA  *)
(* that is going away is kept for later, once per callback and within a    *)
(* limit per caller; beyond the limit, or when the oldest request of the   *)
(* process is too old, an overflow task is posted instead.                 *)
PendCount(s, pid) == Cardinality({cb \in pendingLoads[s] : CallerOf[cb] = pid})

PendLoad(s, cb, tooOld) ==
    LET p == ProcOf[s]
        overflow == PendCount(s, CallerOf[cb]) >= MaxPendingLoad \/ tooOld
    IN  /\ saState[s] = "UNLOADING" \/ procState[p] = "STOPPING"
        /\ tooOld => pendingSince[p]
        /\ pendingSince' = [pendingSince EXCEPT ![p] = TRUE]
        /\ \/ /\ cb \in pendingLoads[s]
              /\ UNCHANGED <<pendingLoads, pendingEvent, recoverQueue>>
           \/ /\ cb \notin pendingLoads[s] /\ overflow
              /\ Len(recoverQueue) < MaxRecover
              /\ recoverQueue' = Append(recoverQueue, s)
              /\ UNCHANGED <<pendingLoads, pendingEvent>>
           \/ /\ cb \notin pendingLoads[s] /\ ~overflow
              /\ pendingLoads' = [pendingLoads EXCEPT ![s] = @ \cup {cb}]
              /\ pendingEvent' = [pendingEvent EXCEPT ![s] = "LOAD"]
              /\ UNCHANGED recoverQueue
        /\ UNCHANGED <<abilityVars, procState, unloadRequest, restartVars,
                       delayVars, taskQueue, timerVars, recoverRunning, stopSent, notice>>

(* HandleLoadAbilityEventLocked when the SA is not going away: a pending   *)
(* or delayed unload is withdrawn, an idle SA is made active again, and    *)
(* the manager is asked to load (DoLoadSystemAbilityLocked); "ok" is the   *)
(* manager's answer to the activation or to the load.                      *)
LoadNow(s, ok) ==
    LET p == ProcOf[s]
    IN  /\ saState[s] # "UNLOADING" /\ procState[p] # "STOPPING"
        /\ \/ /\ saState[s] = "LOADING"
              /\ pendingEvent' = [pendingEvent EXCEPT ![s] = WithoutUnload(@)]
              /\ UNCHANGED <<abilityVars, delayUnload, taskQueue, notice>>
           \/ /\ saState[s] = "LOADED"
              /\ delayUnload' = [delayUnload EXCEPT ![s] = FALSE]
              /\ UNCHANGED <<abilityVars, pendingEvent, taskQueue, notice>>
           \/ LET c == AbilityStateTransition(Context(p), {s}, "LOADED")
              IN  /\ saState[s] = "UNLOADABLE" /\ ok /\ ok \in ActiveAnswers(p)
                  /\ Store(p, c) /\ OnAbilityLoaded(s, c)
                  /\ UNCHANGED <<pendingEvent, delayUnload>>
           \/ /\ saState[s] = "NOT_LOADED" /\ ok
              /\ Store(p, AbilityStateTransition(Context(p), {s}, "LOADING"))
              /\ UNCHANGED <<pendingEvent, delayUnload, taskQueue, notice>>
        /\ UNCHANGED <<procState, pendingLoads, unloadRequest, pendingSince,
                       restartVars, delayRunning, timerVars, recoverVars, stopSent>>

HandleLoadAbilityEvent(s) ==
    \/ \E cb \in Callbacks, tooOld \in BOOLEAN : PendLoad(s, cb, tooOld)
    \/ \E ok \in BOOLEAN : LoadNow(s, ok)

(* HandleLoadAbilityEvent(saId, isExist), reached from CheckSystemAbility: *)
(* an SA of a running process is started without a load request.           *)
HandleCheckLoad(s) ==
    LET p == ProcOf[s]
    IN  /\ procState[p] = "STARTED" /\ saState[s] = "NOT_LOADED"
        /\ Store(p, AbilityStateTransition(Context(p), {s}, "LOADING"))
        /\ UNCHANGED <<procState, pendingVars, restartVars, delayVars, taskQueue, timerVars,
                       recoverVars, stopSent, notice>>

-----------------------------------------------------------------------------
(* Unload requests.                                                        *)

(* OnAbilityUnloadableLocked, after the SA agreed to be idle: listeners    *)
(* hear that the process is idle, an independent SA is unloaded at once    *)
(* (stopOk: the manager could tell it) and a reclaim attempt is posted.    *)
OnAbilityUnloadable(s, queue, stopOk) ==
    LET p == ProcOf[s]
        c == AbilityStateTransition(Context(p), {s}, "UNLOADABLE")
    IN  /\ notice' = IF IsProcessIdled(c)
                        THEN [notice EXCEPT ![p] = "idled"] ELSE notice
        /\ Store(p, IF s \in IndependentUnload /\ stopOk
                      THEN AbilityStateTransition(c, {s}, "UNLOADING") ELSE c)
        /\ Post(queue, << <<"tryUnloadAll", p>> >>)

(* ProcessDelayUnloadEventLocked: a LOADED SA with an unload request is    *)
(* asked to be idle; it refuses, agrees or asks for a delay.               *)
ProcessDelayUnload(s, queue, answer, stopOk) ==
    /\ answer \in IdleAnswers(ProcOf[s])
    /\ \/ /\ answer = "refuse"
          /\ UNCHANGED <<abilityVars, delayUnload, notice>> /\ taskQueue' = queue
       \/ /\ answer = "agree"
          /\ OnAbilityUnloadable(s, queue, stopOk)
          /\ UNCHANGED delayUnload
       \/ /\ answer = "delay"
          /\ delayUnload' = [delayUnload EXCEPT ![s] = TRUE]
          /\ UNCHANGED <<abilityVars, notice>> /\ taskQueue' = queue

(* HandleUnloadAbilityEventLocked; event and queue are pendingEvent and    *)
(* the tasks of processHandler_ when it begins.                            *)
HandleUnload(s, kind, event, queue, answer, stopOk) ==
    /\ unloadRequest' = [unloadRequest EXCEPT ![s] = TRUE]
    /\ \/ /\ saState[s] = "LOADING"
          /\ pendingEvent' = [pendingEvent EXCEPT ![s] = kind]
          /\ UNCHANGED <<abilityVars, delayUnload, notice>> /\ taskQueue' = queue
       \/ /\ saState[s] # "LOADING"
          /\ pendingEvent' = [pendingEvent EXCEPT ![s] = event]
          /\ \/ /\ saState[s] = "LOADED" /\ kind = "INTERFACE_CALL"
                /\ ProcessDelayUnload(s, queue, answer, stopOk)
             \/ /\ saState[s] = "LOADED" /\ kind = "DELAYED"
                /\ delayUnload' = [delayUnload EXCEPT ![s] = TRUE]
                /\ UNCHANGED <<abilityVars, notice>> /\ taskQueue' = queue
             \/ /\ saState[s] # "LOADED"
                /\ UNCHANGED <<abilityVars, delayUnload, notice>> /\ taskQueue' = queue

HandleUnloadAbilityEvent(s) ==
    /\ \E kind \in UnloadKinds, answer \in IdleAnswers(ProcOf[s]), stopOk \in BOOLEAN :
          HandleUnload(s, kind, pendingEvent[s], taskQueue, answer, stopOk)
    /\ UNCHANGED <<procState, pendingLoads, pendingSince, restartVars, delayRunning,
                   timerVars, recoverVars, stopSent>>

(* HandleCancelUnloadAbilityEvent with ActiveSystemAbilityLocked: an idle  *)
(* SA becomes active again if the manager can tell it.                     *)
HandleCancelUnloadAbilityEvent(s) ==
    LET p == ProcOf[s]
        c == AbilityStateTransition(Context(p), {s}, "LOADED")
    IN  /\ saState[s] = "UNLOADABLE" /\ TRUE \in ActiveAnswers(p)
        /\ Store(p, c) /\ OnAbilityLoaded(s, c)
        /\ UNCHANGED <<procState, pendingVars, restartVars, delayVars, timerVars,
                       recoverVars, stopSent>>

(* UnloadEventHandler::ProcessEvent: the delayed event leaves the queue    *)
(* (DelTask), then waits for the process lock and asks the SA.             *)
DelayUnloadFires(s) ==
    /\ delayUnload[s] /\ delayRunning = None
    /\ delayUnload' = [delayUnload EXCEPT ![s] = FALSE]
    /\ delayRunning' = s
    /\ UNCHANGED <<abilityVars, procState, pendingVars, restartVars, taskQueue, timerVars,
                   recoverVars, stopSent, notice>>

DelayUnloadRuns(s) ==
    /\ delayRunning = s
    /\ delayRunning' = None
    /\ \/ /\ saState[s] = "LOADED" /\ unloadRequest[s]
          /\ \E answer \in IdleAnswers(ProcOf[s]), stopOk \in BOOLEAN :
                ProcessDelayUnload(s, taskQueue, answer, stopOk)
       \/ /\ ~(saState[s] = "LOADED" /\ unloadRequest[s])
          /\ UNCHANGED <<abilityVars, delayUnload, taskQueue, notice>>
    /\ UNCHANGED <<procState, pendingVars, restartVars, timerVars, recoverVars, stopSent>>

-----------------------------------------------------------------------------
(* Reclaiming a process whose SAs are all idle.                            *)

(* CanUnloadAllSystemAbilityLocked.  The faulty variant asks only that no  *)
(* SA is LOADING.                                                          *)
CanUnloadAllForgetsLoaded(p, checkRecycle) ==
    LET cnt == stateCount[p]
    IN  /\ cnt["UNLOADABLE"] # 0 \/ cnt["UNLOADING"] # 0
        /\ cnt["LOADING"] = 0
        /\ checkRecycle => p \in ImmediateRecycle

CanUnloadAllSystemAbility(p, checkRecycle) ==
    LET cnt == stateCount[p]
    IN  /\ cnt["UNLOADABLE"] # 0 \/ cnt["UNLOADING"] # 0
        /\ cnt["NOT_LOADED"] + cnt["UNLOADABLE"] + cnt["UNLOADING"] = Cardinality(saList(p))
        /\ checkRecycle => p \in ImmediateRecycle

(* UnloadAllSystemAbilityLocked: the idle SAs are told to stop (told: the  *)
(* ones the manager could tell), the unload timer is set and the process   *)
(* is STOPPING unless it is no longer running.  The faulty variant sets no *)
(* timer.                                                                  *)
UnloadAllWithoutTimer(p, told) ==
    /\ told \subseteq {s \in saList(p) : saState[s] = "UNLOADABLE" /\ unloadRequest[s]}
    /\ Store(p, AbilityStateTransition(Context(p), told, "UNLOADING"))
    /\ procState' = [procState EXCEPT ![p] = ProcessStateTransition(@, "STOPPING")]
    /\ UNCHANGED unloadTimers

UnloadAllSystemAbility(p, told) ==
    /\ told \subseteq {s \in saList(p) : saState[s] = "UNLOADABLE" /\ unloadRequest[s]}
    /\ Store(p, AbilityStateTransition(Context(p), told, "UNLOADING"))
    /\ unloadTimers[p] < MaxTimers
    /\ unloadTimers' = [unloadTimers EXCEPT ![p] = @ + 1]
    /\ procState' = [procState EXCEPT ![p] = ProcessStateTransition(@, "STOPPING")]

(* UnloadProcess and each turn of UnloadAllIdleSystemAbility, asked for by *)
(* the memory manager: the recycle strategy does not matter.               *)
UnloadProcess(p) ==
    /\ CanUnloadAllSystemAbility(p, FALSE)
    /\ \E told \in SUBSET saList(p) : UnloadAllSystemAbility(p, told)
    /\ UNCHANGED <<pendingVars, restartVars, delayVars, taskQueue, timeoutRunning,
                   recoverVars, stopSent, notice>>

(* The tasks of processHandler_, one at a time and in order; none runs     *)
(* while a dequeued unload timer waits for its lock.                       *)
NextTask(task) ==
    /\ timeoutRunning = None
    /\ taskQueue # <<>> /\ Head(taskQueue) = task

TryUnloadAllSystemAbility(p) ==
    /\ NextTask(<<"tryUnloadAll", p>>)
    /\ taskQueue' = Tail(taskQueue)
    /\ \/ /\ CanUnloadAllSystemAbility(p, TRUE)
          /\ \E told \in SUBSET saList(p) : UnloadAllSystemAbility(p, told)
       \/ /\ ~CanUnloadAllSystemAbility(p, TRUE)
          /\ UNCHANGED <<abilityVars, procState, unloadTimers>>
    /\ UNCHANGED <<pendingVars, restartVars, delayVars, timeoutRunning, recoverVars,
                   stopSent, notice>>

(* CanKillSystemProcessLocked: whether the process still runs, or runs     *)
(* again, is not asked.  The faulty variant forgets SAs that are LOADING.  *)
CanKillForgetsLoading(p) ==
    stateCount[p]["NOT_LOADED"] + stateCount[p]["LOADING"] = Cardinality(saList(p))

CanKillSystemProcess(p) == stateCount[p]["NOT_LOADED"] = Cardinality(saList(p))

TryKillSystemProcess(p) ==
    /\ NextTask(<<"tryKill", p>>)
    /\ taskQueue' = Tail(taskQueue)
    /\ IF CanKillSystemProcess(p) THEN ServiceControlStop(p) ELSE UNCHANGED stopSent
    /\ UNCHANGED <<abilityVars, procState, pendingVars, restartVars, delayVars, timerVars,
                   recoverVars, notice>>

(* The task of OnAbilityLoadedLocked: an unload request that arrived while *)
(* the SA was loading is handled now (HandlePendingUnloadEventLocked).     *)
HandlePendingUnloadEvent(s) ==
    /\ NextTask(<<"pendingUnload", s>>)
    /\ \/ /\ pendingEvent[s] \in UnloadKinds
          /\ \E answer \in IdleAnswers(ProcOf[s]), stopOk \in BOOLEAN :
                HandleUnload(s, pendingEvent[s], "NO_EVENT", Tail(taskQueue), answer, stopOk)
       \/ /\ pendingEvent[s] \notin UnloadKinds
          /\ taskQueue' = Tail(taskQueue)
          /\ UNCHANGED <<abilityVars, pendingEvent, unloadRequest, delayUnload, notice>>
    /\ UNCHANGED <<procState, pendingLoads, pendingSince, restartVars, delayRunning,
                   timerVars, recoverVars, stopSent>>

(* The unload timer: it leaves the queue (DelTask), then waits for the     *)
(* process lock and kills the process if it is STOPPING at that time.      *)
UnloadTimeoutFires(p) ==
    /\ unloadTimers[p] > 0 /\ timeoutRunning = None
    /\ unloadTimers' = [unloadTimers EXCEPT ![p] = @ - 1]
    /\ timeoutRunning' = p
    /\ UNCHANGED <<abilityVars, procState, pendingVars, restartVars, delayVars, taskQueue,
                   recoverVars, stopSent, notice>>

UnloadTimeoutRuns(p) ==
    /\ timeoutRunning = p
    /\ timeoutRunning' = None
    /\ IF procState[p] = "STOPPING" THEN ServiceControlStop(p) ELSE UNCHANGED stopSent
    /\ UNCHANGED <<abilityVars, procState, pendingVars, restartVars, delayVars, taskQueue,
                   unloadTimers, recoverVars, notice>>

-----------------------------------------------------------------------------
(* Events reported by the manager.                                         *)

(* AddSystemAbility: the SA has registered itself.                         *)
HandleLoadSuccessEvent(s) ==
    LET p == ProcOf[s]
        c == AbilityStateTransition(Context(p), {s}, "LOADED")
    IN  /\ saState[s] \in {"NOT_LOADED", "LOADING"}
        /\ Store(p, c) /\ OnAbilityLoaded(s, c)
        /\ UNCHANGED <<procState, pendingVars, restartVars, delayVars, timerVars,
                       recoverVars, stopSent>>

(* The load timer of the manager: the SA has not registered in time.       *)
HandleLoadFailedEvent(s) ==
    LET p == ProcOf[s]
    IN  /\ saState[s] = "LOADING"
        /\ Store(p, AbilityStateTransition(Context(p), {s}, "NOT_LOADED"))
        /\ OnAbilityNotLoaded(s)
        /\ UNCHANGED <<procState, pendingLoads, unloadRequest, pendingSince,
                       restartVars, delayRunning, timerVars, recoverVars, stopSent, notice>>

(* RemoveSystemAbility: the SA has withdrawn itself.                       *)
HandleUnloadSuccessEvent(s) ==
    LET p == ProcOf[s]
    IN  /\ saState[s] # "NOT_LOADED"
        /\ Store(p, AbilityStateTransition(Context(p), {s}, "NOT_LOADED"))
        /\ OnAbilityNotLoaded(s)
        /\ UNCHANGED <<procState, pendingLoads, unloadRequest, pendingSince,
                       restartVars, delayRunning, timerVars, recoverVars, stopSent, notice>>

(* AddSystemProcess: a process has registered itself.                      *)
HandleProcessStartedEvent(p) ==
    /\ procState[p] = "NOT_STARTED"
    /\ procState' = [procState EXCEPT ![p] = ProcessStateTransition(@, "STARTED")]
    /\ UNCHANGED <<abilityVars, pendingVars, restartVars, delayVars, taskQueue, timerVars,
                   recoverVars, stopSent, notice>>

(* GetAbnormallyDiedAbilityLocked: SAs that were in use and are restarted. *)
AbnormallyDied(p, watermark) ==
    {s \in saList(p) \cap AutoRestart : saState[s] \in {"LOADED", "LOADING"} /\ ~watermark}

(* CanRestartProcessLocked: up to RestartLimit restarts in the time window *)
(* (tooFast: the oldest of them lies in it); one more, and the process is  *)
(* never restarted again.  The faulty variant is off by one.               *)
RestartsFullOffByOne(p) == restarts[p] > RestartLimit
RestartsFull(p) == restarts[p] >= RestartLimit
CanRestartProcess(p, tooFast) == enableRestart[p] /\ ~(RestartsFull(p) /\ tooFast)

(* HandleAbnormallyDiedAbilityLocked: the SAs loaded again after a crash.  *)
Restarting(p, watermark, tooFast) ==
    IF CanRestartProcess(p, tooFast) THEN AbnormallyDied(p, watermark) ELSE {}

(* HandlePendingLoadEventLocked: the SAs whose kept load requests are      *)
(* taken up again when the process has ended.                              *)
Replayed(p) == {s \in saList(p) : pendingEvent[s] = "LOAD"}

(* OnProcessNotStartedLocked with all it calls: the unload timers are      *)
(* cancelled, every SA becomes NOT_LOADED, kept load requests are replayed *)
(* and SAs that died in use are restarted.  "loading" are the SAs for      *)
(* which the manager starts a load.                                        *)
ProcessNotStarted(p, loading, watermark, tooFast) ==
    LET restarting == Restarting(p, watermark, tooFast)
        replayed == Replayed(p)
        stopped == {s \in saList(p) : saState[s] # "NOT_LOADED"}
        c == AbilityStateTransition(Context(p), saList(p), "NOT_LOADED")
    IN  /\ loading \subseteq restarting \cup {s \in replayed : pendingLoads[s] # {}}
        /\ procState' = [procState EXCEPT ![p] = ProcessStateTransition(@, "NOT_STARTED")]
        /\ stopSent' = [stopSent EXCEPT ![p] = FALSE]
        /\ unloadTimers' = [unloadTimers EXCEPT ![p] = 0]
        /\ pendingSince' = [pendingSince EXCEPT ![p] = FALSE]
        /\ Store(p, AbilityStateTransition(c, loading, "LOADING"))
        /\ delayUnload' = [s \in SAs |-> delayUnload[s] /\ s \notin stopped]
        /\ pendingEvent' = [s \in SAs |->
                CASE s \in replayed -> "NO_EVENT"
                  [] s \in stopped \ replayed -> WithoutUnload(pendingEvent[s])
                  [] OTHER -> pendingEvent[s]]
        /\ pendingLoads' = [s \in SAs |-> IF s \in replayed THEN {} ELSE pendingLoads[s]]
        /\ enableRestart' = [enableRestart EXCEPT ![p] =
                @ /\ ~(AbnormallyDied(p, watermark) # {} /\ RestartsFull(p) /\ tooFast)]
        /\ restarts' = [restarts EXCEPT ![p] =
                IF restarting # {} /\ ~RestartsFull(p) THEN @ + 1 ELSE @]

(* RemoveSystemProcess: the death of a process has been noticed.           *)
HandleProcessStoppedEvent(p) ==
    /\ procState[p] \in {"STARTED", "STOPPING"}
    /\ \E loading \in SUBSET saList(p), watermark, tooFast \in BOOLEAN :
          ProcessNotStarted(p, loading, watermark, tooFast)
    /\ UNCHANGED <<unloadRequest, delayRunning, taskQueue, timeoutRunning,
                   recoverVars, notice>>

-----------------------------------------------------------------------------
(* ProcessPendingLoadOverflow, run by recoverHandler_: under the lock the  *)
(* kept requests of the SA are dropped if the process is STOPPING; then,   *)
(* without the lock, the process is stopped, or removed if init says that  *)
(* it no longer runs.                                                      *)
OverflowClears(s) ==
    LET p == ProcOf[s]
    IN  /\ recoverRunning = None
        /\ recoverQueue # <<>> /\ Head(recoverQueue) = s
        /\ recoverQueue' = Tail(recoverQueue)
        /\ \/ /\ procState[p] = "STOPPING"
              /\ pendingLoads' = [pendingLoads EXCEPT ![s] = {}]
              /\ pendingSince' = [pendingSince EXCEPT ![p] = FALSE]
              /\ recoverRunning' = p
           \/ /\ procState[p] # "STOPPING"
              /\ UNCHANGED <<pendingLoads, pendingSince, recoverRunning>>
        /\ UNCHANGED <<abilityVars, procState, pendingEvent, unloadRequest,
                       restartVars, delayVars, taskQueue, timerVars, stopSent, notice>>

OverflowStops(p) ==
    /\ recoverRunning = p
    /\ recoverRunning' = None
    /\ \/ /\ ServiceControlStop(p)
          /\ UNCHANGED <<abilityVars, procState, pendingEvent, pendingLoads, pendingSince,
                         restartVars, delayUnload, unloadTimers>>
       \/ /\ procState[p] \in {"STARTED", "STOPPING"}
          /\ \E loading \in SUBSET saList(p), watermark, tooFast \in BOOLEAN :
                ProcessNotStarted(p, loading, watermark, tooFast)
    /\ UNCHANGED <<unloadRequest, delayRunning, taskQueue, timeoutRunning,
                   recoverQueue, notice>>

-----------------------------------------------------------------------------
SANext(s) ==
    \/ HandleLoadAbilityEvent(s) \/ HandleCheckLoad(s)
    \/ HandleUnloadAbilityEvent(s) \/ HandleCancelUnloadAbilityEvent(s)
    \/ HandleLoadSuccessEvent(s) \/ HandleLoadFailedEvent(s) \/ HandleUnloadSuccessEvent(s)
    \/ DelayUnloadFires(s) \/ DelayUnloadRuns(s)
    \/ HandlePendingUnloadEvent(s) \/ OverflowClears(s)

ProcNext(p) ==
    \/ UnloadProcess(p) \/ TryUnloadAllSystemAbility(p) \/ TryKillSystemProcess(p)
    \/ UnloadTimeoutFires(p) \/ UnloadTimeoutRuns(p)
    \/ HandleProcessStartedEvent(p) \/ HandleProcessStoppedEvent(p)
    \/ OverflowStops(p)

Next == (\E s \in SAs : SANext(s)) \/ (\E p \in Procs : ProcNext(p))

Spec == Init /\ [][Next]_vars

-----------------------------------------------------------------------------
(* Safety.                                                                 *)

(* The counts every reclaim and kill decision is made from agree with the  *)
(* states of the SAs, so that UpdateStateCount never refuses a transition. *)
StateCountsMatch ==
    \A p \in Procs, x \in AbilityStates :
        stateCount[p][x] = Cardinality({s \in saList(p) : saState[s] = x})

(* No SA is LOADING in a process that is being stopped: such a load would  *)
(* be lost with the process.  Load requests are kept instead.              *)
NoLoadingWhileStopping ==
    \A s \in SAs : procState[ProcOf[s]] = "STOPPING" => saState[s] # "LOADING"

(* An SA that does not unload independently is UNLOADING only because its  *)
(* process is being stopped, so the end of the process ends it.            *)
UnloadingOnlyWhileStopping ==
    \A s \in SAs \ IndependentUnload :
        saState[s] = "UNLOADING" => procState[ProcOf[s]] = "STOPPING"

(* A process that is not running hosts no idle or UNLOADING SA: nothing    *)
(* would ever move such an SA on when the process starts again.            *)
NoIdleInDeadProcess ==
    \A s \in SAs : procState[ProcOf[s]] = "NOT_STARTED" =>
        saState[s] \in {"NOT_LOADED", "LOADING", "LOADED"}

(* The states of the SAs fit the state of their process, through loads,    *)
(* unloads, timeouts, crashes and restarts in any order.                   *)
HostStatesFit ==
    NoLoadingWhileStopping /\ UnloadingOnlyWhileStopping /\ NoIdleInDeadProcess

(* Load requests kept for an SA that does not unload independently are     *)
(* still marked for replay: the mark is not overwritten by a later unload  *)
(* request, and the requests are not left behind when the process starts   *)
(* over.                                                                   *)
PendingLoadsNotStranded ==
    \A s \in SAs \ IndependentUnload :
        pendingLoads[s] # {} =>
            pendingEvent[s] = "LOAD" /\ procState[ProcOf[s]] = "STOPPING"

(* A STOPPING process has something that will end it: an unload timer that *)
(* is set or about to run, or a STOP already sent to init.                 *)
StoppingIsWatched ==
    \A p \in Procs : procState[p] = "STOPPING" =>
        unloadTimers[p] > 0 \/ timeoutRunning = p \/ stopSent[p]

Queued(task) == \E i \in 1..Len(taskQueue) : taskQueue[i] = task

(* When every SA of a STOPPING process is gone, the kill is posted or      *)
(* done: the process does not have to wait for the unload timer.           *)
EmptiedProcessIsKilled ==
    \A p \in Procs :
        procState[p] = "STOPPING" /\ (\A s \in saList(p) : saState[s] = "NOT_LOADED") =>
            stopSent[p] \/ Queued(<<"tryKill", p>>)

(* When a running process could be reclaimed, the attempt is posted.       *)
IdleProcessIsReclaimed ==
    \A p \in ImmediateRecycle :
        procState[p] = "STARTED" /\ CanUnloadAllSystemAbility(p, TRUE) =>
            Queued(<<"tryUnloadAll", p>>)

(* A process that has nothing left to do is not forgotten.                 *)
ReclaimIsQueued == EmptiedProcessIsKilled /\ IdleProcessIsReclaimed

(* Listeners that last heard "idled" are not missing an SA in use.         *)
IdledMeansNoneLoaded ==
    \A s \in SAs : notice[ProcOf[s]] = "idled" => saState[s] # "LOADED"

(* A process is put into STOPPING only when none of its SAs is in use or   *)
(* being loaded.                                                           *)
StopsOnlyIdleProcess ==
    [][\A s \in SAs :
        procState[ProcOf[s]] # "STOPPING" /\ procState'[ProcOf[s]] = "STOPPING" =>
            saState[s] \in {"NOT_LOADED", "UNLOADABLE", "UNLOADING"}]_vars

(* STOP is sent to a process that is not STOPPING only when it hosts       *)
(* nothing, unless the overflow recovery, which stops the process after it *)
(* has given up the lock, sends it.                                        *)
KillsOnlyEmptyOrStopping ==
    [][\A s \in SAs :
        LET p == ProcOf[s]
        IN  ~stopSent[p] /\ stopSent'[p] /\ procState[p] = "STARTED" /\ recoverRunning # p =>
                saState[s] = "NOT_LOADED"]_vars

(* No SA in use loses its process to a reclaim, an unload or a kill whose  *)
(* decision was taken on counts that have changed since.                   *)
StopsOnlyUnused == StopsOnlyIdleProcess /\ KillsOnlyEmptyOrStopping

(* Seen through the states of SAs and processes alone, every step of the   *)
(* scheduler is one that AbilityLifecycle allows.                          *)
Lifecycle == INSTANCE AbilityLifecycle WITH saState <- saState, procState <- procState
ImplementsLifecycle == Lifecycle!Spec

-----------------------------------------------------------------------------
(* Liveness.  The queues run their tasks and timers, and init ends a       *)
(* process it was told to stop.                                            *)
StoppedByInit(p) == stopSent[p] /\ HandleProcessStoppedEvent(p)

Fairness ==
    /\ \A s \in SAs :
        /\ WF_vars(DelayUnloadRuns(s))
        /\ WF_vars(HandlePendingUnloadEvent(s))
        /\ WF_vars(OverflowClears(s))
    /\ \A p \in Procs :
        /\ WF_vars(TryUnloadAllSystemAbility(p))
        /\ WF_vars(TryKillSystemProcess(p))
        /\ WF_vars(UnloadTimeoutFires(p))
        /\ WF_vars(UnloadTimeoutRuns(p))
        /\ WF_vars(OverflowStops(p))
        /\ WF_vars(StoppedByInit(p))

FairSpec == Spec /\ Fairness

(* A process that is being stopped ends.                                   *)
StoppingEnds ==
    \A p \in Procs : procState[p] = "STOPPING" ~> procState[p] = "NOT_STARTED"

(* A load request kept for an SA that does not unload independently is     *)
(* handed to the manager, or dropped by the overflow recovery.             *)
PendingLoadsEnd ==
    \A s \in SAs \ IndependentUnload : pendingLoads[s] # {} ~> pendingLoads[s] = {}
=============================================================================
