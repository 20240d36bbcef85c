---------------------------- MODULE UserLifecycle ---------------------------
(***************************************************************************)
(* UserLifecycleManager: one MultiSystemAbilityManager per user, created   *)
(* when the user is activated and destroyed some time after it is stopped, *)
(* and the subscriptions that samgr keeps for listeners of all users.      *)
(* Events of one user are serialised by its lifecycle lock; the completion *)
(* of a stop runs on a queue of its own; userStateLock_ guards the maps,   *)
(* globalSubscriptionLock_ the subscriptions; clients of a user subscribe  *)
(* and unsubscribe directly at its manager at the same time.               *)
(***************************************************************************)
EXTENDS Naturals, FiniteSets

CONSTANTS Users, Listeners, Null, MaxEvents, MaxOps

ASSUME ConstantsAssumption == MaxEvents \in Nat /\ MaxOps \in Nat

VARIABLES
    managers,     \* the users of multiUserManagers_
    validUserIds,
    userState,    \* user -> "none", "activating", "switching" or "stopping"
    foreground,   \* foregroundUserId_
    contexts,     \* the users of userStoppingContexts_
    live,         \* user -> managers made and not destroyed
    at,           \* user -> where the event that holds its lifecycle lock is
    stopping,     \* user -> the stop to complete: "none", "posted", "finalizing", "destroyed"
    globals,      \* globalSubscriptions_
    globalLock,   \* who holds globalSubscriptionLock_: a user being activated, "op" or Null
    op,           \* the subscription of all users that is going on, or Null
    subs,         \* user -> [direct, forall, known]: the subscriber infos, and listenerMap_
    client,       \* a client between its two steps at a manager, or Null
    dead, notices,  \* dead listeners; their death notices on their way: <<user, listener>>
    shutdown,     \* "no", "closing" or "closed": CancelPendingStopTasks
    events, ops,
    flags         \* "raced"

vars == <<managers, validUserIds, userState, foreground, contexts, live, at, stopping, globals, globalLock,
          op, subs, client, dead, notices, shutdown, events, ops, flags>>
stateVars == <<managers, validUserIds, userState, foreground, contexts>>
listenerVars == <<dead, notices, shutdown>>
subVars == <<globals, globalLock, op, subs, client, listenerVars, ops, flags>>

NoSubs == [direct |-> {}, forall |-> {}, known |-> {}]

Init ==
    /\ managers = {} /\ validUserIds = {} /\ userState = [u \in Users |-> "none"]
    /\ foreground = Null /\ contexts = {} /\ live = [u \in Users |-> 0]
    /\ at = [u \in Users |-> "idle"] /\ stopping = [u \in Users |-> "none"]
    /\ globals = {} /\ globalLock = Null /\ op = Null
    /\ subs = [u \in Users |-> NoSubs] /\ client = Null
    /\ dead = {} /\ notices = {} /\ shutdown = "no"
    /\ events = 0 /\ ops = 0 /\ flags = {}

\* A subscription of all users holds userStateLock_ for reading while it visits the managers.
StateLockFree == op = Null

Event(u) ==
    /\ at[u] = "idle" /\ StateLockFree /\ shutdown = "no" /\ events < MaxEvents
    /\ events' = events + 1

(* ------------------------- HandleUserActivating --------------------------- *)

MayActivate(u) == userState[u] # "stopping" /\ u \notin managers

Activate(u) ==
    /\ Event(u) /\ MayActivate(u)
    /\ at' = [at EXCEPT ![u] = "activating"]
    /\ UNCHANGED <<stateVars, live, stopping, subVars>>

\* RemoveExpiredGlobalSubscriptionsLocked
Living(ls) == ls \ dead

Create(u) ==
    /\ at[u] = "activating" /\ globalLock = Null
    /\ globals' = Living(globals)
    /\ at' = [at EXCEPT ![u] = "inserting"]
    /\ live' = [live EXCEPT ![u] = @ + 1]
    /\ subs' = [subs EXCEPT ![u] = [NoSubs EXCEPT !.forall = globals', !.known = globals']]
    /\ UNCHANGED <<stateVars, stopping, op, client, listenerVars, events, ops, flags>>

\* Mutant: the lock is not held until the manager is listed.
CreateManagerUnlocked(u) == Create(u) /\ UNCHANGED globalLock

\* The manager is made with all subscriptions there are.
CreateManager(u) == Create(u) /\ globalLock' = u

\* It is destroyed again when one of them is refused.
CreateFails(u) ==
    /\ at[u] = "activating" /\ globalLock = Null
    /\ globals' = Living(globals) /\ globals' # {}
    /\ at' = [at EXCEPT ![u] = "idle"]
    /\ UNCHANGED <<stateVars, live, stopping, globalLock, op, subs, client, listenerVars, events, ops, flags>>

InsertManager(u) ==
    /\ at[u] = "inserting" /\ StateLockFree
    /\ at' = [at EXCEPT ![u] = "idle"]
    /\ managers' = managers \cup {u} /\ validUserIds' = validUserIds \cup {u}
    /\ userState' = [userState EXCEPT ![u] = "activating"]
    /\ globalLock' = IF globalLock = u THEN Null ELSE globalLock
    /\ UNCHANGED <<foreground, contexts, live, stopping, globals, op, subs, client, listenerVars, events, ops, flags>>

(* -------------------------- HandleUserSwitching --------------------------- *)

Switch(u) ==
    /\ Event(u) /\ userState[u] # "stopping" /\ foreground # u /\ u \in managers
    /\ userState' = [userState EXCEPT ![u] = "switching"]
    /\ foreground' = u
    /\ UNCHANGED <<managers, validUserIds, contexts, live, at, stopping, subVars>>

(* -------------------------- HandleUserStopping ---------------------------- *)

\* There is no foreground user after it was stopped.
ForegroundAfterStop(u) == IF foreground = u THEN Null ELSE foreground

\* The user without a manager gets no context; its state is withdrawn in the same step.
Stop(u) ==
    /\ Event(u) /\ u \notin contexts /\ u \in managers
    /\ userState' = [userState EXCEPT ![u] = "stopping"]
    /\ validUserIds' = validUserIds \ {u} /\ managers' = managers \ {u}
    /\ foreground' = ForegroundAfterStop(u)
    /\ at' = [at EXCEPT ![u] = "unlisted"]
    /\ UNCHANGED <<contexts, live, stopping, subVars>>

StartUserStopping(u) ==
    /\ at[u] = "unlisted" /\ StateLockFree
    /\ contexts' = contexts \cup {u}
    /\ at' = [at EXCEPT ![u] = "notifying"]
    /\ UNCHANGED <<managers, validUserIds, userState, foreground, live, stopping, events, subVars>>

\* Mutant: nothing is posted when the manager has no process.
PostStopIfProcesses(u) ==
    /\ at[u] = "notifying" /\ at' = [at EXCEPT ![u] = "idle"]
    /\ \E processes \in BOOLEAN :
         stopping' = [stopping EXCEPT ![u] = IF processes THEN "posted" ELSE "none"]
    /\ UNCHANGED <<stateVars, live, events, subVars>>

\* NotifyAllSAsToStop, and the task that completes the stop; without a process, or when the
\* task cannot be posted, the stop is completed at once, with the lifecycle lock held.
PostStop(u) ==
    /\ at[u] = "notifying"
    /\ \E atOnce \in BOOLEAN :
         /\ at' = [at EXCEPT ![u] = IF atOnce THEN "completing" ELSE "idle"]
         /\ stopping' = [stopping EXCEPT ![u] = "posted"]
    /\ UNCHANGED <<stateVars, live, events, subVars>>

\* The task looks whether the manager is alive, and counts itself, under one lock.  The
\* processes are waited for and, if need be, stopped.
CompleteBegins(u) ==
    /\ stopping[u] = "posted" /\ (shutdown = "no" \/ at[u] = "completing")
    /\ stopping' = [stopping EXCEPT ![u] = "finalizing"]
    /\ UNCHANGED <<stateVars, live, at, events, subVars>>

\* Mutant: the user is forgotten before its manager is destroyed.
DestroyManagerLast(u) ==
    /\ stopping[u] = "finalizing" /\ StateLockFree
    /\ stopping' = [stopping EXCEPT ![u] = "destroyed"]
    /\ contexts' = contexts \ {u}
    /\ userState' = [userState EXCEPT ![u] = "none"]
    /\ UNCHANGED <<managers, validUserIds, foreground, live, at, events, subVars>>

DestroyManager(u) ==
    /\ stopping[u] = "finalizing"
    /\ stopping' = [stopping EXCEPT ![u] = "destroyed"]
    /\ live' = [live EXCEPT ![u] = @ - 1]
    /\ subs' = [subs EXCEPT ![u] = NoSubs]
    /\ notices' = {n \in notices : n[1] # u}
    /\ client' = IF client # Null /\ client.user = u THEN [client EXCEPT !.user = Null] ELSE client
    /\ UNCHANGED <<stateVars, at, globals, globalLock, op, dead, shutdown, events, ops, flags>>

CompleteEnds(u) ==
    /\ stopping[u] = "destroyed" /\ StateLockFree
    /\ stopping' = [stopping EXCEPT ![u] = "none"]
    /\ contexts' = contexts \ {u}
    /\ userState' = [userState EXCEPT ![u] = IF @ = "stopping" THEN "none" ELSE @]
    /\ at' = [at EXCEPT ![u] = IF @ = "completing" THEN "idle" ELSE @]
    /\ UNCHANGED <<managers, validUserIds, foreground, live, events, subVars>>

\* ~UserLifecycleManager: nobody calls any more; a task that has begun is waited for.
CancelPendingStopTasks ==
    /\ \A u \in Users : at[u] = "idle"
    /\ \/ shutdown = "no" /\ shutdown' = "closing" /\ UNCHANGED contexts
       \/ /\ shutdown = "closing" /\ StateLockFree
          /\ \A u \in Users : stopping[u] \in {"none", "posted"}
          /\ shutdown' = "closed" /\ contexts' = {}
    /\ UNCHANGED <<managers, validUserIds, userState, foreground, live, at, stopping, globals, globalLock,
                   op, subs, client, dead, notices, events, ops, flags>>

(* ---------------------- subscriptions at one manager ---------------------- *)

\* AddSubscriberInfo and RemoveSubscriberInfo; the latter answers whether no subscription of
\* the listener is left.
AddInfo(s, l, kind) == [s EXCEPT ![kind] = @ \cup {l}]
RemoveInfo(s, l, kind) == [s EXCEPT ![kind] = @ \ {l}]

NoneLeft(s, l) == l \notin s.direct \cup s.forall

ClientBegins(u, l, kind) ==
    /\ client = Null /\ ops < MaxOps /\ ops' = ops + 1
    /\ u \in managers /\ l \notin dead /\ shutdown = "no"
    /\ IF kind = "subscribe"
       THEN /\ subs' = [subs EXCEPT ![u] = AddInfo(@, l, "direct")]
            /\ client' = [user |-> u, listener |-> l, kind |-> kind]
       ELSE LET s == RemoveInfo(subs[u], l, "direct")
            IN  /\ subs' = [subs EXCEPT ![u] = s]
                /\ client' = IF NoneLeft(s, l) THEN [user |-> u, listener |-> l, kind |-> kind] ELSE Null
    /\ UNCHANGED <<stateVars, live, at, stopping, globals, globalLock, op, listenerVars, events, flags>>

\* SubscribeSystemAbilityInner, which may be refused, or UnSubscribeSystemAbility of the base.
ClientEnds ==
    LET u == client.user
        l == client.listener
    IN  /\ client # Null /\ client' = Null
        /\ IF u = Null THEN UNCHANGED <<subs, flags>>
           ELSE IF client.kind = "subscribe"
           THEN \/ subs' = [subs EXCEPT ![u].known = @ \cup {l}] /\ UNCHANGED flags
                \/ /\ l \notin subs[u].known
                   /\ subs' = [subs EXCEPT ![u] = RemoveInfo(@, l, "direct")]
                   /\ UNCHANGED flags
           ELSE /\ subs' = [subs EXCEPT ![u].known = @ \ {l}]
                /\ flags' = IF NoneLeft(subs[u], l) THEN flags ELSE flags \cup {"raced"}
        /\ UNCHANGED <<stateVars, live, at, stopping, globals, globalLock, op, listenerVars, events, ops>>

(* --------------------- subscriptions of all users ------------------------- *)

\* SubscribeSystemAbilityForAllUsers and UnSubscribeSystemAbilityForAllUsers.
OpBegins(l, kind) ==
    /\ globalLock = Null /\ op = Null /\ ops < MaxOps /\ ops' = ops + 1
    /\ l \notin dead /\ shutdown = "no" /\ globals' = Living(globals)
    /\ (l \in globals') = (kind = "unsubscribe")
    /\ globalLock' = "op"
    /\ op' = [listener |-> l, kind |-> kind, todo |-> managers, done |-> {}, step |-> "info", undo |-> FALSE]
    /\ UNCHANGED <<stateVars, live, at, stopping, subs, client, listenerVars, events, flags>>

\* A rollback visits the managers that are done and does the opposite.
Adds == (op.kind = "subscribe") # op.undo
Visited(u, ok) ==
    IF ok THEN [op EXCEPT !.todo = @ \ {u}, !.done = @ \cup {u}, !.step = "info"]
    ELSE [op EXCEPT !.todo = op.done, !.done = {}, !.step = "info", !.undo = TRUE]

OpInfo(u) ==
    /\ op # Null /\ op.step = "info" /\ u \in op.todo
    /\ IF Adds
       THEN /\ subs' = [subs EXCEPT ![u] = AddInfo(@, op.listener, "forall")]
            /\ op' = [op EXCEPT !.step = u]
       ELSE LET s == RemoveInfo(subs[u], op.listener, "forall")
            IN  /\ subs' = [subs EXCEPT ![u] = s]
                /\ op' = IF NoneLeft(s, op.listener) THEN [op EXCEPT !.step = u] ELSE Visited(u, TRUE)
    /\ UNCHANGED <<stateVars, live, at, stopping, globals, globalLock, client, listenerVars, events, ops, flags>>

\* Only a subscription can be refused, by the limit of its process, so that no unsubscription
\* is rolled back.
OpManager(u) ==
    /\ op # Null /\ op.step = u
    /\ \/ /\ subs' = [subs EXCEPT ![u].known = IF Adds THEN @ \cup {op.listener} ELSE @ \ {op.listener}]
          /\ op' = Visited(u, TRUE)
          /\ flags' = IF ~Adds /\ ~NoneLeft(subs[u], op.listener) THEN flags \cup {"raced"} ELSE flags
       \/ /\ Adds /\ op.listener \notin subs[u].known /\ ~op.undo
          /\ subs' = [subs EXCEPT ![u] = RemoveInfo(@, op.listener, "forall")]
          /\ op' = Visited(u, FALSE) /\ UNCHANGED flags
    /\ UNCHANGED <<stateVars, live, at, stopping, globals, globalLock, client, listenerVars, events, ops>>

OpEnds ==
    /\ op # Null /\ op.todo = {} /\ op' = Null /\ globalLock' = Null
    /\ globals' = IF op.undo THEN globals
                  ELSE IF op.kind = "subscribe" THEN globals \cup {op.listener} ELSE globals \ {op.listener}
    /\ UNCHANGED <<stateVars, live, at, stopping, subs, client, listenerVars, events, ops, flags>>

(* -------------------------- death of a listener --------------------------- *)

ListenerDies(l) ==
    /\ l \notin dead /\ dead' = dead \cup {l}
    /\ notices' = notices \cup {<<u, l>> : u \in {v \in Users : l \in subs[v].known}}
    /\ UNCHANGED <<stateVars, live, at, stopping, globals, globalLock, op, subs, client, shutdown, events,
                   ops, flags>>

\* UnSubscribeSystemAbility(remoteObject): the listener, then all it has subscribed.
DeathNotice(u, l) ==
    /\ <<u, l>> \in notices /\ notices' = notices \ {<<u, l>>}
    /\ subs' = [subs EXCEPT ![u] = [direct |-> @.direct \ {l}, forall |-> @.forall \ {l}, known |-> @.known \ {l}]]
    /\ UNCHANGED <<stateVars, live, at, stopping, globals, globalLock, op, client, dead, shutdown, events,
                   ops, flags>>

Handle(u) ==
    \/ CreateManager(u) \/ CreateFails(u) \/ InsertManager(u) \/ StartUserStopping(u) \/ PostStop(u)
    \/ CompleteBegins(u) \/ DestroyManager(u) \/ CompleteEnds(u)

Operate == (\E u \in Users : OpInfo(u) \/ OpManager(u)) \/ OpEnds

Next ==
    \/ \E u \in Users : Activate(u) \/ Switch(u) \/ Stop(u) \/ Handle(u)
    \/ \E u \in Users, l \in Listeners, kind \in {"subscribe", "unsubscribe"} : ClientBegins(u, l, kind)
    \/ \E l \in Listeners, kind \in {"subscribe", "unsubscribe"} : OpBegins(l, kind)
    \/ \E l \in Listeners : ListenerDies(l) \/ \E u \in Users : DeathNotice(u, l)
    \/ ClientEnds \/ Operate \/ CancelPendingStopTasks

Spec == Init /\ [][Next]_vars

(* ------------------------------- properties ------------------------------- *)

\* A user never has two managers: it is not activated again before the stop of the last one
\* is complete, whoever completes it.
OneManager == \A u \in Users : live[u] <= 1 /\ ~(u \in managers /\ u \in contexts)

\* The foreground user has a manager that requests can be routed to.
ForegroundIsManaged == foreground # Null => foreground \in managers

\* A manager that was listed and is not destroyed can be found, as a running or as a stopping
\* one, so that its processes can still remove their abilities - except in the short time
\* between its removal from one map and its insertion into the other.
ManagerIsFound ==
    \A u \in Users : live[u] > 0 /\ shutdown = "no" => u \in managers \cup contexts \/ at[u] \in {"inserting", "unlisted"}

\* Outside a subscription of all users every running manager has exactly the living listeners
\* of all users, however activations, stops, refused and withdrawn subscriptions are mixed.
SubscriptionsReachAll ==
    op = Null => \A u \in managers : Living(subs[u].forall) = Living(globals)

\* A manager notifies exactly the listeners somebody has subscribed, directly or for all users -
\* unless an unsubscription had found no subscription left and another one came before it
\* removed the listener.
ListenersInStep ==
    "raced" \notin flags =>
        \A u \in managers :
            (client = Null \/ client.user # u) /\ (op = Null \/ op.step # u)
            => Living(subs[u].known) = Living(subs[u].direct \cup subs[u].forall)

\* Once the destructor has returned no task that completes a stop is at work or begins to be,
\* although the tasks hold no reference to the manager.
NoTaskAfterShutdown == shutdown = "closed" => \A u \in Users : stopping[u] \in {"none", "posted"}

\* Every user has one manager that is found as long as it lives, and nobody touches it afterwards,
\* whatever activations, switches, stops and late completions of stops cross each other.
ManagersInOrder == OneManager /\ ForegroundIsManaged /\ ManagerIsFound /\ NoTaskAfterShutdown

\* What is subscribed for all users and what the managers notify agree.
SubscriptionsInOrder == SubscriptionsReachAll /\ ListenersInStep

\* The stop of a user is completed, and the user can be activated again, unless samgr ends.
StopEnds == \A u \in Users : userState[u] = "stopping" ~> userState[u] # "stopping" \/ shutdown # "no"
=============================================================================
