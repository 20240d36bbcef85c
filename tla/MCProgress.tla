----------------------------- MODULE MCProgress -----------------------------
(***************************************************************************)
(* What must happen in the end, for TLC: small instances of the parts that *)
(* state liveness, each under its own fairness.  The parts share no state, *)
(* so the instance is the sum of theirs: part says which of them a         *)
(* behaviour is about, and the others stay where they start.               *)
(***************************************************************************)
EXTENDS Naturals

CONSTANTS Null, Fds, Tasks, Threads, a, b, Devices, Users, Listeners, Arrived, device, album,
          Other, Default

VARIABLES
    part,
    \* TimeHandler
    timer, timeFunc, posting, thread, batch, current, called, early, terminated,
    \* TimedCollect
    phase, policy, updating, loopSet, loopTasks, timeInfos, queue, reports, prefs, past, promised,
    updates, crashes, timedFlags,
    \* IpcReclaim
    isCancel, isTriggerTaskStart, receiver, countdown, owed, keepRunning, monitor, sample,
    cpuEvents, samples, reclaimFlags,
    \* DeviceNetworking
    dm, trusted, initialised, registered, callbacks, deaths, tasks, callback, at, list, online,
    reported, changes, dmCrashes, failures, dmFlags,
    \* UserLifecycle
    managers, validUserIds, userState, foreground, contexts, live, eventAt, stopping, globals,
    globalLock, op, subs, client, deadListeners, notices, shutdown, events, ops, userFlags,
    \* LoadWait
    pc, timeout, elapsed, lock, loadproxy, answers, binder, sent, result,
    \* SamgrCache
    abilityMap, writer, removing, posted, param, tick, objects, dead, crashed,
    onDemandIds, localSAMap, cache, told, obituaries, call, calls, spoilt

timerVars == <<timer, timeFunc, posting, thread, batch, current, called, early, terminated>>
timedVars ==
    <<phase, policy, updating, loopSet, loopTasks, timeInfos, queue, reports, prefs, past,
      promised, updates, crashes, timedFlags>>
reclaimVars ==
    <<isCancel, isTriggerTaskStart, receiver, countdown, owed, keepRunning, monitor, sample,
      cpuEvents, samples, reclaimFlags>>
networkVars ==
    <<dm, trusted, initialised, registered, callbacks, deaths, tasks, callback, at, list, online,
      reported, changes, dmCrashes, failures, dmFlags>>
userVars ==
    <<managers, validUserIds, userState, foreground, contexts, live, eventAt, stopping, globals,
      globalLock, op, subs, client, deadListeners, notices, shutdown, events, ops, userFlags>>
waitVars == <<pc, timeout, elapsed, lock, loadproxy, answers, binder, sent, result>>
cacheVars ==
    <<abilityMap, writer, removing, posted, param, tick, objects, dead, crashed,
      onDemandIds, localSAMap, cache, told, obituaries, call, calls, spoilt>>

-----------------------------------------------------------------------------
\* Two alarms: enough for a second thread to be started while the first one still runs.
Timers == INSTANCE TimeHandler WITH None <- Null

\* One ability with a persistent loop and one with an ordinary one; two updates and one crash.
Loop(i, p) == [name |-> "loopevent", value |-> i, persist |-> p]
Awake(i) == [name |-> "awakeloopevent", value |-> i, persist |-> FALSE]

Loops == INSTANCE TimedCollect WITH
    SAs <- {a, b}, Intervals <- {3600, 7200}, Orders <- {1}, TooLong <- {}, MultiUser <- FALSE,
    Profile <- [sa \in {a, b} |-> {IF sa = a THEN Loop(3600, TRUE) ELSE Loop(7200, FALSE)}],
    Policies <- {{}, {Loop(7200, FALSE)}, {Awake(7200)}, {Loop(3600, TRUE), Loop(7200, FALSE)}},
    MaxUpdates <- 2, MaxCrashes <- 1, owed <- promised, flags <- timedFlags

Reclaim == INSTANCE IpcReclaim WITH
    Checks <- 2, Width <- 8, SHIFT <- 2, Cores <- 2, Loads <- {0, 9, 12}, Ticks <- {1, 10},
    MaxEvents <- 5, MaxSamples <- 1, events <- cpuEvents, flags <- reclaimFlags

Network == INSTANCE DeviceNetworking WITH
    MaxChanges <- 2, MaxCrashes <- 2, MaxFailures <- 2, calls <- callbacks, crashes <- dmCrashes,
    flags <- dmFlags

Lifecycle == INSTANCE UserLifecycle WITH
    MaxEvents <- 3, MaxOps <- 1, at <- eventAt, dead <- deadListeners, flags <- userFlags

\* Timeouts from below the lower to above the upper bound; two answers, so that a failure can
\* follow a success and the other way round.
Wait == INSTANCE LoadWait WITH Object <- Arrived, MIN_TIMEOUT <- 0, MAX_TIMEOUT <- 4, MaxAnswers <- 2

\* One thread with the six retries of the code.
Cache == INSTANCE SamgrCache WITH
    SAs <- {device}, OnDemandSAs <- {album}, LocalSAs <- {device}, Threads <- {"main"},
    MaxObjects <- 2, MaxDeaths <- 1, MaxTick <- 0, MaxCalls <- 1, RETRY_TIME_OUT_NUMBER <- 6

-----------------------------------------------------------------------------
Init ==
    /\ part \in {"timers", "loops", "reclaim", "network", "lifecycle", "wait", "cache"}
    /\ Timers!Init /\ Loops!Init /\ Reclaim!Init /\ Network!Init /\ Lifecycle!Init /\ Wait!Init
    /\ Cache!Init

Next ==
    \/ /\ part = "timers" /\ Timers!Next
       /\ UNCHANGED <<part, timedVars, reclaimVars, networkVars, userVars, waitVars, cacheVars>>
    \/ /\ part = "loops" /\ Loops!Next
       /\ UNCHANGED <<part, timerVars, reclaimVars, networkVars, userVars, waitVars, cacheVars>>
    \/ /\ part = "reclaim" /\ Reclaim!Next
       /\ UNCHANGED <<part, timerVars, timedVars, networkVars, userVars, waitVars, cacheVars>>
    \/ /\ part = "network" /\ Network!Next
       /\ UNCHANGED <<part, timerVars, timedVars, reclaimVars, userVars, waitVars, cacheVars>>
    \/ /\ part = "lifecycle" /\ Lifecycle!Next
       /\ UNCHANGED <<part, timerVars, timedVars, reclaimVars, networkVars, waitVars, cacheVars>>
    \/ /\ part = "wait" /\ Wait!Next
       /\ UNCHANGED <<part, timerVars, timedVars, reclaimVars, networkVars, userVars, cacheVars>>
    \/ /\ part = "cache" /\ Cache!Next
       /\ UNCHANGED <<part, timerVars, timedVars, reclaimVars, networkVars, userVars, waitVars>>

vars == <<part, timerVars, timedVars, reclaimVars, networkVars, userVars, waitVars, cacheVars>>

(* The fairness of each part, stated where the behaviour is about it.      *)

\* The system runs every thread and lets every armed timer expire.
TimersFairness ==
    /\ \A t \in Tasks : WF_timerVars(part = "timers" /\ ~terminated /\ Timers!Post(t))
    /\ \A f \in Fds : WF_timerVars(part = "timers" /\ ~terminated /\ Timers!Expires(f))
    /\ \A h \in Threads : WF_timerVars(part = "timers" /\ ~terminated /\ Timers!Serve(h))

\* Tasks run when their time has come, reports are decided, samgr is started again.
LoopsFairness ==
    /\ WF_timedVars(part = "loops" /\ Loops!OnStart)
    /\ WF_timedVars(part = "loops" /\ Loops!UpdateStores)
    /\ WF_timedVars(part = "loops" /\ Loops!Restart)
    /\ \A i \in {3600, 7200}, p \in BOOLEAN : WF_timedVars(part = "loops" /\ Loops!LoopRuns(i, p))
    /\ \A p \in BOOLEAN : WF_timedVars(part = "loops" /\ Loops!OrderRuns(1, p))
    /\ \A e \in Loops!Event : WF_timedVars(part = "loops" /\ Loops!Decide(e))

\* The receiving thread finishes the event it handles; a countdown thread goes on.
ReclaimFairness ==
    /\ WF_reclaimVars(part = "reclaim" /\ Reclaim!StartCountdown)
    /\ \A t \in Threads :
        /\ WF_reclaimVars(part = "reclaim" /\ Reclaim!Check(t))
        /\ WF_reclaimVars(part = "reclaim" /\ Reclaim!Reclaim(t))
        /\ WF_reclaimVars(part = "reclaim" /\ Reclaim!End(t))

\* DM is started again by init; notices, callbacks and the retried task go on.
NetworkFairness ==
    /\ WF_networkVars(part = "network" /\ Network!DmStarts)
    /\ WF_networkVars(part = "network" /\ Network!OnRemoteDied)
    /\ WF_networkVars(part = "network" /\ Network!Task)
    /\ WF_networkVars(part = "network" /\ Network!Callback)

\* Events that have begun go on, tasks run, locks are given back.
LifecycleFairness ==
    /\ \A u \in Users : WF_userVars(part = "lifecycle" /\ Lifecycle!Handle(u))
    /\ WF_userVars(part = "lifecycle" /\ Lifecycle!Operate)
    /\ WF_userVars(part = "lifecycle" /\ Lifecycle!ClientEnds)

\* Threads run and time passes; whether the manager answers is free.
WaitFairness ==
    /\ WF_waitVars(part = "wait" /\ (Wait!LoadRefused \/ Wait!BeginWait \/ Wait!Wake
                                      \/ Wait!SecondPasses \/ Wait!Deadline))
    /\ WF_waitVars(part = "wait" /\ (Wait!CallbackLocks \/ Wait!CallbackSets))

\* The thread of the client and a call inside the register go on; the time at which the
\* task that sets the parameter runs is free.
CacheFairness ==
    /\ WF_cacheVars(part = "cache" /\ Cache!Step("main"))
    /\ WF_cacheVars(part = "cache" /\ Cache!CoverStores)
    /\ WF_cacheVars(part = "cache" /\ \E r \in removing : Cache!RemovePosts(r))

Spec ==
    /\ Init /\ [][Next]_vars
    /\ TimersFairness /\ LoopsFairness /\ ReclaimFairness /\ NetworkFairness
    /\ LifecycleFairness /\ WaitFairness /\ CacheFairness

-----------------------------------------------------------------------------
(* The properties of the parts; each is stated, with the code it is about, *)
(* in the module of its part.                                              *)

\* What PostTask of SamgrTimeHandler has accepted is called.
AcceptedIsCalled == Timers!AcceptedIsCalled

\* The plugins go on after crashes and failures: a loop that stays in a policy is reported
\* again and again by DeviceTimedCollect, and after the last restart of DM the state callback
\* of DeviceNetworkingCollect is registered.
PluginsGoOn ==
    /\ part = "loops" => Loops!LoopIsServed
    /\ part = "network" => Network!EndsUpRegistered

\* A trigger that is not cancelled is followed by a reclaim of the IPC threads, by the one
\* countdown thread isTriggerTaskStart_ stands for.
TriggerIsServed == []Reclaim!OneCountdown /\ Reclaim!TriggerIsServed

\* The stop of a user is completed by CompleteUserStop.
StopEnds == Lifecycle!StopEnds

\* Every LoadSystemAbility of a client returns, at once when the object has arrived and
\* empty-handed only at its deadline, and every GetSystemAbility returns, when its retries
\* run out at the latest.
ClientCallsReturn ==
    /\ []Wait!SuccessWakes /\ Wait!GivesUpAtDeadline /\ Wait!LoadReturns
    /\ Cache!CallsReturn
=============================================================================
