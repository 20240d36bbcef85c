------------------------- MODULE UserLifecycleProofs ------------------------
(***************************************************************************)
(* The managers of the users, for any set of users and any number of       *)
(* events.  The inductive invariant names the phases a user goes through;  *)
(* the maps under userStateLock_, the event that holds the lifecycle lock  *)
(* and the task that completes a stop are in step in each of them.         *)
(***************************************************************************)
EXTENDS UserLifecycle, TLAPS

Kept(u) == u \notin managers /\ u \notin contexts

Absent(u) ==
    /\ at[u] \in {"idle", "activating"} /\ Kept(u)
    /\ live[u] = 0 /\ stopping[u] = "none" /\ userState[u] # "stopping"
Inserting(u) ==
    /\ at[u] = "inserting" /\ Kept(u)
    /\ live[u] = 1 /\ stopping[u] = "none" /\ userState[u] # "stopping"
Running(u) ==
    /\ at[u] = "idle" /\ u \in managers /\ u \notin contexts
    /\ live[u] = 1 /\ stopping[u] = "none" /\ userState[u] # "stopping"
Unlisted(u) ==
    /\ at[u] = "unlisted" /\ Kept(u)
    /\ live[u] = 1 /\ stopping[u] = "none" /\ userState[u] = "stopping"
Notifying(u) ==
    /\ at[u] = "notifying" /\ u \notin managers /\ u \in contexts
    /\ live[u] = 1 /\ stopping[u] = "none" /\ userState[u] = "stopping"
Completing(u) ==
    /\ at[u] \in {"idle", "completing"} /\ u \notin managers
    /\ u \in contexts \/ shutdown = "closed"
    /\ \/ stopping[u] \in {"posted", "finalizing"} /\ live[u] = 1
       \/ stopping[u] = "destroyed" /\ live[u] = 0
    /\ userState[u] = "stopping"

Phase(u) == Absent(u) \/ Inserting(u) \/ Running(u) \/ Unlisted(u) \/ Notifying(u) \/ Completing(u)

(* Nobody calls when the destructor runs, and no task is left when it      *)
(* returns.                                                                *)
Closed ==
    /\ shutdown # "no" => \A u \in Users : at[u] = "idle"
    /\ NoTaskAfterShutdown

Typed ==
    /\ DOMAIN at = Users /\ DOMAIN live = Users /\ DOMAIN stopping = Users /\ DOMAIN userState = Users
    /\ at = [u \in Users |-> at[u]] /\ live = [u \in Users |-> live[u]]
    /\ stopping = [u \in Users |-> stopping[u]] /\ userState = [u \in Users |-> userState[u]]

UserInv == Typed /\ (\A u \in Users : Phase(u)) /\ Closed /\ ForegroundIsManaged

PhaseVars == <<managers, contexts, userState, live, at, stopping, shutdown>>

(* What an event or a task of one user leaves alone of another.            *)
Same(v) ==
    /\ at'[v] = at[v] /\ live'[v] = live[v] /\ stopping'[v] = stopping[v] /\ userState'[v] = userState[v]
    /\ v \in managers' <=> v \in managers
    /\ v \in contexts' <=> v \in contexts
    /\ shutdown' = shutdown

LEMMA SamePhase == ASSUME NEW v \in Users, Phase(v), Same(v) PROVE Phase(v)'
BY DEF Same, Phase, Absent, Inserting, Running, Unlisted, Notifying, Completing, Kept

LEMMA PhasesKept ==
    ASSUME UserInv, UNCHANGED PhaseVars, UNCHANGED foreground
    PROVE  UserInv'
<1>1. \A v \in Users : Same(v)
    BY DEF PhaseVars, Same
<1>2. \A v \in Users : Phase(v)'
    BY <1>1, SamePhase DEF UserInv
<1> QED BY <1>2 DEF UserInv, Typed, PhaseVars, Closed, NoTaskAfterShutdown, ForegroundIsManaged

LEMMA UserInit == Init => UserInv
BY DEF Init, UserInv, Typed, Phase, Absent, Kept, Closed, NoTaskAfterShutdown, ForegroundIsManaged

(* One user takes a step; the others stay in their phases.                 *)
OneSteps(u) ==
    /\ \A v \in Users \ {u} : Same(v)
    /\ Typed'
    /\ Phase(u)'
    /\ shutdown' = shutdown
    /\ shutdown = "closed" => stopping'[u] \in {"none", "posted"}
    /\ shutdown # "no" => at'[u] = "idle"
    /\ ForegroundIsManaged'

LEMMA OneStepsKeeps == ASSUME UserInv, NEW u \in Users, OneSteps(u) PROVE UserInv'
<1>1. \A v \in Users : Phase(v)'
    BY SamePhase DEF UserInv, OneSteps
<1>2. Closed'
    BY DEF UserInv, Closed, NoTaskAfterShutdown, OneSteps, Same
<1> QED BY <1>1, <1>2 DEF UserInv, OneSteps

LEMMA EventStep ==
    ASSUME UserInv, NEW u \in Users, Activate(u) \/ Switch(u) \/ Stop(u)
    PROVE  UserInv'
<1> USE DEF UserInv, Typed, Phase, Kept, Event, subVars, listenerVars, stateVars
<1>1. ASSUME Activate(u) PROVE OneSteps(u)
  <2>1. Absent(u)
    BY <1>1 DEF Activate, MayActivate, Absent, Inserting, Running, Unlisted, Notifying, Completing
  <2>2. Absent(u)'
    BY <1>1, <2>1 DEF Activate, Absent
  <2> QED BY <1>1, <2>1, <2>2 DEF OneSteps, Same, Activate, Absent, ForegroundIsManaged
<1>2. ASSUME Switch(u) PROVE OneSteps(u)
  <2>1. Running(u)
    BY <1>2 DEF Switch, Absent, Inserting, Running, Unlisted, Notifying, Completing
  <2>2. Running(u)'
    BY <1>2, <2>1 DEF Switch, Running
  <2> QED BY <1>2, <2>1, <2>2 DEF OneSteps, Same, Switch, Running, ForegroundIsManaged
<1>3. ASSUME Stop(u) PROVE OneSteps(u)
  <2>1. Running(u)
    BY <1>3 DEF Stop, Absent, Inserting, Running, Unlisted, Notifying, Completing
  <2>2. Unlisted(u)'
    BY <1>3, <2>1 DEF Stop, Running, Unlisted
  <2> QED BY <1>3, <2>1, <2>2 DEF OneSteps, Same, Stop, ForegroundAfterStop, Running, ForegroundIsManaged
<1> QED BY <1>1, <1>2, <1>3, OneStepsKeeps

(* The event that holds the lifecycle lock, and the completion of a stop.  *)
LEMMA HandleStep ==
    ASSUME UserInv, NEW u \in Users, Handle(u)
    PROVE  UserInv'
<1> USE DEF UserInv, Typed, Phase, Kept, subVars, listenerVars, stateVars
<1>0. shutdown # "no" => at[u] = "idle"
    BY DEF Closed
<1>1. ASSUME CreateManager(u) PROVE OneSteps(u)
  <2>1. Absent(u)
    BY <1>1 DEF CreateManager, Create, Absent, Inserting, Running, Unlisted, Notifying, Completing
  <2>2. Inserting(u)'
    BY <1>1, <2>1 DEF CreateManager, Create, Absent, Inserting
  <2> QED BY <1>0, <1>1, <2>2 DEF OneSteps, Same, CreateManager, Create, ForegroundIsManaged
<1>2. ASSUME CreateFails(u) PROVE OneSteps(u)
  <2>1. Absent(u)
    BY <1>2 DEF CreateFails, Absent, Inserting, Running, Unlisted, Notifying, Completing
  <2>2. Absent(u)'
    BY <1>2, <2>1 DEF CreateFails, Absent
  <2> QED BY <1>0, <1>2, <2>2 DEF OneSteps, Same, CreateFails, ForegroundIsManaged
<1>3. ASSUME InsertManager(u) PROVE OneSteps(u)
  <2>1. Inserting(u)
    BY <1>3 DEF InsertManager, Absent, Inserting, Running, Unlisted, Notifying, Completing
  <2>2. Running(u)'
    BY <1>3, <2>1 DEF InsertManager, Inserting, Running
  <2> QED BY <1>0, <1>3, <2>2 DEF OneSteps, Same, InsertManager, ForegroundIsManaged
<1>4. ASSUME StartUserStopping(u) PROVE OneSteps(u)
  <2>1. Unlisted(u)
    BY <1>4 DEF StartUserStopping, Absent, Inserting, Running, Unlisted, Notifying, Completing
  <2>2. Notifying(u)'
    BY <1>4, <2>1 DEF StartUserStopping, Unlisted, Notifying
  <2> QED BY <1>0, <1>4, <2>2 DEF OneSteps, Same, StartUserStopping, ForegroundIsManaged
<1>5. ASSUME PostStop(u) PROVE OneSteps(u)
  <2>1. Notifying(u)
    BY <1>5 DEF PostStop, Absent, Inserting, Running, Unlisted, Notifying, Completing
  <2>2. Completing(u)'
    BY <1>5, <2>1 DEF PostStop, Notifying, Completing
  <2> QED BY <1>0, <1>5, <2>2 DEF OneSteps, Same, PostStop, ForegroundIsManaged
<1>6. ASSUME CompleteBegins(u) PROVE OneSteps(u)
  <2>1. Completing(u)
    BY <1>6 DEF CompleteBegins, Absent, Inserting, Running, Unlisted, Notifying, Completing
  <2>2. Completing(u)'
    BY <1>6, <2>1 DEF CompleteBegins, Completing
  <2> QED BY <1>0, <1>6, <2>2 DEF OneSteps, Same, CompleteBegins, ForegroundIsManaged
<1>7. ASSUME DestroyManager(u) PROVE OneSteps(u)
  <2>1. Completing(u) /\ shutdown # "closed"
    BY <1>7 DEF DestroyManager, Absent, Inserting, Running, Unlisted, Notifying, Completing, Closed, NoTaskAfterShutdown
  <2>2. Completing(u)'
    BY <1>7, <2>1 DEF DestroyManager, Completing
  <2> QED BY <1>0, <1>7, <2>1, <2>2 DEF OneSteps, Same, DestroyManager, ForegroundIsManaged
<1>8. ASSUME CompleteEnds(u) PROVE OneSteps(u)
  <2>1. Completing(u)
    BY <1>8 DEF CompleteEnds, Absent, Inserting, Running, Unlisted, Notifying, Completing
  <2>2. Absent(u)'
    BY <1>8, <2>1 DEF CompleteEnds, Absent, Completing
  <2> QED BY <1>0, <1>8, <2>2 DEF OneSteps, Same, CompleteEnds, ForegroundIsManaged
<1> QED BY <1>1, <1>2, <1>3, <1>4, <1>5, <1>6, <1>7, <1>8, OneStepsKeeps DEF Handle

(* The destructor forgets the stops whose task has not begun.              *)
LEMMA ShutdownStep == ASSUME UserInv, CancelPendingStopTasks PROVE UserInv'
<1>1. UNCHANGED <<managers, userState, foreground, live, at, stopping>> /\ \A u \in Users : at[u] = "idle"
    BY DEF CancelPendingStopTasks
<1>2. CASE shutdown = "no" /\ shutdown' = "closing" /\ UNCHANGED contexts
  <2>1. \A u \in Users : Phase(u)'
    BY <1>1, <1>2 DEF UserInv, Phase, Absent, Inserting, Running, Unlisted, Notifying, Completing, Kept
  <2> QED BY <1>1, <1>2, <2>1 DEF UserInv, Typed, Closed, NoTaskAfterShutdown, ForegroundIsManaged
<1>3. CASE /\ shutdown' = "closed" /\ contexts' = {}
           /\ \A u \in Users : stopping[u] \in {"none", "posted"}
  <2>1. \A u \in Users : Phase(u)'
    BY <1>1, <1>3 DEF UserInv, Phase, Absent, Inserting, Running, Unlisted, Notifying, Completing, Kept
  <2> QED BY <1>1, <1>3, <2>1 DEF UserInv, Typed, Closed, NoTaskAfterShutdown, ForegroundIsManaged
<1> QED BY <1>2, <1>3 DEF CancelPendingStopTasks

LEMMA UserStep == UserInv /\ [Next]_vars => UserInv'
<1> SUFFICES ASSUME UserInv, [Next]_vars PROVE UserInv'
    OBVIOUS
<1> USE DEF PhaseVars, stateVars, listenerVars
<1>1. ASSUME NEW u \in Users, Activate(u) \/ Switch(u) \/ Stop(u) \/ Handle(u) PROVE UserInv'
    BY <1>1, EventStep, HandleStep
<1>2. ASSUME NEW u \in Users, NEW l \in Listeners, NEW kind \in {"subscribe", "unsubscribe"}, ClientBegins(u, l, kind)
      PROVE  UserInv'
    BY <1>2, PhasesKept DEF ClientBegins
<1>3. ASSUME NEW l \in Listeners, NEW kind \in {"subscribe", "unsubscribe"}, OpBegins(l, kind) PROVE UserInv'
    BY <1>3, PhasesKept DEF OpBegins
<1>4. ASSUME NEW l \in Listeners, ListenerDies(l) PROVE UserInv'
    BY <1>4, PhasesKept DEF ListenerDies
<1>5. ASSUME NEW l \in Listeners, NEW u \in Users, DeathNotice(u, l) PROVE UserInv'
    BY <1>5, PhasesKept DEF DeathNotice
<1>6. CASE ClientEnds
    BY <1>6, PhasesKept DEF ClientEnds
<1>7. CASE Operate
  <2>1. ASSUME NEW u \in Users, OpInfo(u) PROVE UserInv'
    BY <2>1, PhasesKept DEF OpInfo
  <2>2. ASSUME NEW u \in Users, OpManager(u) PROVE UserInv'
    BY <2>2, PhasesKept DEF OpManager
  <2>3. ASSUME OpEnds PROVE UserInv'
    BY <2>3, PhasesKept DEF OpEnds
  <2> QED BY <1>7, <2>1, <2>2, <2>3 DEF Operate
<1>8. CASE CancelPendingStopTasks
    BY <1>8, ShutdownStep
<1>9. CASE UNCHANGED vars
    BY <1>9, PhasesKept DEF vars
<1> QED BY <1>1, <1>2, <1>3, <1>4, <1>5, <1>6, <1>7, <1>8, <1>9 DEF Next

(* HandleUserActivating is refused until CompleteUserStopping has          *)
(* destroyed the last manager and forgotten it: there is never a second    *)
(* one, and never one both running and stopping.                           *)
LEMMA ManagersAreSingle == Spec => []OneManager
<1>1. UserInv => OneManager
    BY DEF UserInv, OneManager, Phase, Absent, Inserting, Running, Unlisted, Notifying, Completing, Kept
<1> QED BY <1>1, UserInit, UserStep, PTL DEF Spec

(* HandleUserStopping takes the foreground away from a user together with  *)
(* its manager: requests are not routed to a user that has none.           *)
LEMMA ForegroundHasManager == Spec => []ForegroundIsManaged
<1>1. UserInv => ForegroundIsManaged
    BY DEF UserInv
<1> QED BY <1>1, UserInit, UserStep, PTL DEF Spec

(* Between HandleUserStopping and StartUserStopping is the only gap in     *)
(* which a living manager is in neither map.                               *)
LEMMA ManagersAreFound == Spec => []ManagerIsFound
<1>1. UserInv => ManagerIsFound
    BY DEF UserInv, ManagerIsFound, Phase, Absent, Inserting, Running, Unlisted, Notifying, Completing, Kept
<1> QED BY <1>1, UserInit, UserStep, PTL DEF Spec

(* The tasks of PostUserStopTimeoutTask capture the UserLifecycleManager;  *)
(* none of them uses it after CancelPendingStopTasks has returned.         *)
LEMMA TasksEndBeforeShutdown == Spec => []NoTaskAfterShutdown
<1>1. UserInv => NoTaskAfterShutdown
    BY DEF UserInv, Closed
<1> QED BY <1>1, UserInit, UserStep, PTL DEF Spec

(* One manager for each user, found as long as it lives and left alone     *)
(* afterwards, for any users and any order of their events.                *)
THEOREM ManagersStayInOrder == Spec => []ManagersInOrder
BY ManagersAreSingle, ForegroundHasManager, ManagersAreFound, TasksEndBeforeShutdown, PTL
DEF ManagersInOrder
=============================================================================
