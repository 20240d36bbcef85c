-------------------------- MODULE AbilityListeners --------------------------
(***************************************************************************)
(* The register of system abilities (abilityMap_) and the listeners that   *)
(* are told when an SA is added or removed (listenerMap_).                 *)
(*                                                                         *)
(* The two maps have a lock each, and most operations take several locks   *)
(* one after the other: every step between two locks is an action, and an  *)
(* operation in progress is kept in the IPC thread that executes it.  What *)
(* the listeners hear is sent by the tasks of workHandler_, a serial FIFO  *)
(* queue.  Objects and listeners may die at any time; the IPC layer then   *)
(* calls the death recipients.                                             *)
(*                                                                         *)
(* The manager of one user (PerUser) also keeps how each listener has      *)
(* subscribed: directly to this user, or to whichever user is in the       *)
(* foreground.  A listener of the second kind is passed over while the     *)
(* user is in the background.                                              *)
(***************************************************************************)
EXTENDS Integers, Sequences, FiniteSets

CONSTANTS
    SAs,            \* system abilities
    Objects,        \* remote objects SAs register with
    SAOf,           \* the SA that registers each object
    Listeners,      \* ISystemAbilityStatusChange objects
    Pids,           \* subscribing processes
    PidOf,          \* the process of each listener
    Threads,        \* IPC threads of samgr
    MaxSubscribe,   \* MAX_SUBSCRIBE_COUNT
    MaxTasks,       \* bound: tasks waiting in workHandler_
    MaxDeaths,      \* bound: hosts and listeners that die
    PerUser,        \* a MultiSystemAbilityManager
    None

ASSUME ListenersAssumption ==
    /\ SAOf \in [Objects -> SAs]
    /\ PidOf \in [Listeners -> Pids]
    /\ MaxSubscribe \in Nat /\ MaxTasks \in Nat /\ MaxDeaths \in Nat
    /\ PerUser \in BOOLEAN
    /\ None \notin Objects

VARIABLES
    abilityMap,     \* the object of each SA
    listenerMap,    \* the listeners of each SA and what they were told
    subscribeCount, \* subscribeCountMap_
    recipients,     \* abilityStatusDeath_ entries at each listener's object
    watched,        \* objects with abilityDeath_
    dead,           \* objects and listeners that have died
    deaths,         \* deaths that still have to be reported to samgr
    crashed,        \* SAs whose process has ended and may be restarted
    info,           \* subscriberInfoMap_: how each listener has subscribed
    foreground,     \* the user is foregroundUserId_
    workQueue,      \* tasks of workHandler_
    thread,         \* the operation each IPC thread executes
    heard,          \* what a listener last heard of an SA
    overtaken,      \* the last task posted for an SA is out of date
    stale,          \* a listener was told of an object that had gone
    skipped         \* a listener was passed over the last time

registryVars == <<abilityMap, watched>>
listenerVars == <<listenerMap, subscribeCount, recipients>>
deathVars == <<dead, deaths, crashed>>
noteVars == <<heard, stale, skipped>>
userVars == <<info, foreground>>
vars == <<registryVars, listenerVars, deathVars, workQueue, thread, noteVars, overtaken, userVars>>

Kinds == {"direct", "foreground"}
Idle == [op |-> "idle", sa |-> None, who |-> None, how |-> None]
Operations == {"add", "added", "watched", "removed", "subscribe", "refused", "subscribed", "found",
               "unsubscribe", "forget"}

TypeOK ==
    /\ abilityMap \in [SAs -> Objects \cup {None}]
    /\ listenerMap \in [SAs -> [Listeners -> {"absent", "INIT", "NOTIFIED"}]]
    /\ subscribeCount \in [Pids -> 0..MaxSubscribe]
    /\ recipients \in [Listeners -> Nat]
    /\ watched \subseteq Objects
    /\ dead \subseteq Objects \cup Listeners
    /\ deaths \subseteq dead /\ crashed \subseteq SAs
    /\ info \in [SAs -> [Listeners -> SUBSET Kinds]] /\ foreground \in BOOLEAN
    /\ \A h \in Threads : thread[h].op \in Operations \cup {"idle"}
    /\ heard \in [SAs -> [Listeners -> {"nothing", "add", "remove"}]]
    /\ overtaken \subseteq SAs
    /\ stale \subseteq SAs \X Listeners /\ skipped \subseteq SAs \X Listeners

Init ==
    /\ abilityMap = [s \in SAs |-> None]
    /\ listenerMap = [s \in SAs |-> [l \in Listeners |-> "absent"]]
    /\ subscribeCount = [p \in Pids |-> 0]
    /\ recipients = [l \in Listeners |-> 0]
    /\ watched = {} /\ dead = {} /\ deaths = {} /\ crashed = {}
    /\ info = [s \in SAs |-> [l \in Listeners |-> {}]] /\ foreground = FALSE
    /\ workQueue = <<>>
    /\ thread = [h \in Threads |-> Idle]
    /\ heard = [s \in SAs |-> [l \in Listeners |-> "nothing"]]
    /\ overtaken = {} /\ stale = {} /\ skipped = {}

Subscribed(s, l) == listenerMap[s][l] # "absent"

Queued(task) == \E i \in 1..Len(workQueue) : workQueue[i] = task

PostTasks(tasks) ==
    /\ Len(workQueue) + Len(tasks) <= MaxTasks
    /\ workQueue' = workQueue \o tasks

Goes(h, op, s, who) ==
    thread' = [thread EXCEPT ![h] = [@ EXCEPT !.op = op, !.sa = s, !.who = who]]
Returns(h) == thread' = [thread EXCEPT ![h] = Idle]

(* The task that reports a change of s is posted; it is out of date when   *)
(* abilityMap_ no longer says what it reports.                             *)
PostChange(task, s, o) ==
    /\ PostTasks(<<task>>)
    /\ overtaken' = IF abilityMap[s] = o THEN overtaken \ {s} ELSE overtaken \cup {s}

-----------------------------------------------------------------------------
(* AddSystemAbility.  RefreshListenerState comes first, also when the      *)
(* registration is then refused.                                           *)
Refreshed(states) ==
    [l \in Listeners |-> IF states[l] = "NOTIFIED" THEN "INIT" ELSE states[l]]

AddBegins(h, o) ==
    /\ thread[h] = Idle
    /\ o \notin dead
    /\ listenerMap' = [listenerMap EXCEPT ![SAOf[o]] = Refreshed(@)]
    /\ \/ Goes(h, "add", SAOf[o], o)
       \/ Returns(h)        \* isDistributed differs from the profile, or the map is full
    /\ UNCHANGED <<registryVars, subscribeCount, recipients, deathVars, workQueue,
                   noteVars, overtaken, userVars>>

(* The object is stored; an SA that is registered already is reported as   *)
(* removed while abilityMapLock_ is held.  The faulty variant takes the    *)
(* death recipient to be there when it covers an entry.                    *)
AddStoresWatchesNew(h) ==
    /\ thread[h].op = "add"
    /\ LET s == thread[h].sa IN
        /\ IF abilityMap[s] # None THEN PostTasks(<< <<"removed", s>> >>)
                                   ELSE UNCHANGED workQueue
        /\ abilityMap' = [abilityMap EXCEPT ![s] = thread[h].who]
        /\ Goes(h, IF abilityMap[s] = None THEN "added" ELSE "watched", s, thread[h].who)
    /\ UNCHANGED <<watched, listenerVars, deathVars, noteVars, overtaken, userVars>>

AddStores(h) ==
    /\ thread[h].op = "add"
    /\ LET s == thread[h].sa IN
        /\ IF abilityMap[s] # None THEN PostTasks(<< <<"removed", s>> >>)
                                   ELSE UNCHANGED workQueue
        /\ abilityMap' = [abilityMap EXCEPT ![s] = thread[h].who]
        /\ Goes(h, "added", s, thread[h].who)
    /\ UNCHANGED <<watched, listenerVars, deathVars, noteVars, overtaken, userVars>>

(* AddDeathRecipient fails on an object that has died.                     *)
AddWatches(h) ==
    /\ thread[h].op = "added"
    /\ watched' = watched \cup ({thread[h].who} \ dead)
    /\ Goes(h, "watched", thread[h].sa, thread[h].who)
    /\ UNCHANGED <<abilityMap, listenerVars, deathVars, workQueue, noteVars, overtaken, userVars>>

(* SendSystemAbilityAddedMsg.                                              *)
AddReports(h) ==
    /\ thread[h].op = "watched"
    /\ PostChange(<<"added", thread[h].sa>>, thread[h].sa, thread[h].who)
    /\ Returns(h)
    /\ UNCHANGED <<registryVars, listenerVars, deathVars, noteVars, userVars>>

(* The three removals take the entry, whatever its object, out of the map  *)
(* with its death recipient; the report is posted once the lock is free.   *)
Erase(h, s) ==
    /\ watched' = watched \ {abilityMap[s]}
    /\ abilityMap' = [abilityMap EXCEPT ![s] = None]
    /\ Goes(h, "removed", s, None)

(* RemoveSystemAbility by id.                                              *)
RemoveById(h, s) ==
    /\ thread[h] = Idle
    /\ abilityMap[s] # None
    /\ Erase(h, s)
    /\ UNCHANGED <<listenerVars, deathVars, workQueue, noteVars, overtaken, userVars>>

(* RemoveSystemAbility by the death recipient, for the object that died;   *)
(* the IPC layer calls a recipient once.                                   *)
RemoveDied(h, o) ==
    /\ thread[h] = Idle
    /\ o \in deaths
    /\ deaths' = deaths \ {o}
    /\ IF abilityMap[SAOf[o]] = o
       THEN Erase(h, SAOf[o])
       ELSE watched' = watched \ {o} /\ UNCHANGED <<abilityMap, thread>>
    /\ UNCHANGED <<listenerVars, dead, crashed, workQueue, noteVars, overtaken, userVars>>

(* RemoveDiedSystemAbility: the scheduler has noticed the end of the       *)
(* process and is about to restart the SA.  By then the object may be one  *)
(* that was registered since, and is alive.                                *)
RemoveDiedSystemAbility(h, s) ==
    /\ thread[h] = Idle
    /\ s \in crashed
    /\ crashed' = crashed \ {s}
    /\ IF abilityMap[s] # None THEN Erase(h, s)
                               ELSE UNCHANGED <<registryVars, thread>>
    /\ UNCHANGED <<listenerVars, dead, deaths, workQueue, noteVars, overtaken, userVars>>

(* The faulty variant of the report is lost.                               *)
RemoveReportsNothing(h) ==
    /\ thread[h].op = "removed"
    /\ Returns(h)
    /\ UNCHANGED <<registryVars, listenerVars, deathVars, workQueue, noteVars, overtaken, userVars>>

RemoveReports(h) ==
    /\ thread[h].op = "removed"
    /\ PostChange(<<"removed", thread[h].sa>>, thread[h].sa, None)
    /\ Returns(h)
    /\ UNCHANGED <<registryVars, listenerVars, deathVars, noteVars, userVars>>

-----------------------------------------------------------------------------
(* A process may have MAX_SUBSCRIBE_COUNT listeners.                       *)
AtLimit(l) == subscribeCount[PidOf[l]] >= MaxSubscribe

(* AddSubscriberInfo: the manager of a user first keeps how the listener   *)
(* subscribes.                                                             *)
AddSubscriberInfo(h, s, l, how) ==
    /\ PerUser /\ thread[h] = Idle
    /\ l \notin dead
    /\ info' = [info EXCEPT ![s][l] = @ \cup {how}]
    /\ thread' = [thread EXCEPT ![h] = [op |-> "subscribe", sa |-> s, who |-> l, how |-> how]]
    /\ UNCHANGED <<registryVars, listenerVars, deathVars, workQueue, noteVars, overtaken, foreground>>

(* SubscribeSystemAbilityInner: a listener that is known, or a process at  *)
(* its limit, is turned away; otherwise it is kept in state INIT, also     *)
(* when it has died and gets no death recipient.                           *)
Subscribe(h, s, l) ==
    /\ IF PerUser THEN thread[h].op = "subscribe" /\ thread[h].sa = s /\ thread[h].who = l
                  ELSE thread[h] = Idle /\ l \notin dead
    /\ IF Subscribed(s, l) \/ AtLimit(l)
       THEN /\ IF Subscribed(s, l) \/ ~PerUser THEN Returns(h) ELSE Goes(h, "refused", s, l)
            /\ UNCHANGED <<listenerVars, heard, skipped>>
       ELSE /\ listenerMap' = [listenerMap EXCEPT ![s][l] = "INIT"]
            /\ subscribeCount' = [subscribeCount EXCEPT ![PidOf[l]] = @ + 1]
            /\ recipients' = [recipients EXCEPT ![l] = IF l \in dead THEN @ ELSE @ + 1]
            /\ heard' = [heard EXCEPT ![s][l] = "nothing"]
            /\ skipped' = skipped \ {<<s, l>>}
            /\ Goes(h, "subscribed", s, l)
    /\ UNCHANGED <<registryVars, deathVars, workQueue, overtaken, stale, userVars>>

(* RemoveSubscriberInfo after a subscription that was refused.             *)
SubscribeRefused(h) ==
    /\ thread[h].op = "refused"
    /\ info' = [info EXCEPT ![thread[h].sa][thread[h].who] = @ \ {thread[h].how}]
    /\ Returns(h)
    /\ UNCHANGED <<registryVars, listenerVars, deathVars, workQueue, noteVars, overtaken, foreground>>

(* CheckListenerNotify looks the SA up without the listeners' lock...      *)
LookUp(h) ==
    /\ thread[h].op = "subscribed"
    /\ IF abilityMap[thread[h].sa] = None THEN Returns(h)
       ELSE Goes(h, "found", thread[h].sa, thread[h].who)
    /\ UNCHANGED <<registryVars, listenerVars, deathVars, workQueue, noteVars, overtaken, userVars>>

(* ...and has a listener that nobody has told yet told by a task.          *)
Notifies(h, s, l) ==
    /\ PostTasks(<< <<"notify", s, l>> >>)
    /\ listenerMap' = [listenerMap EXCEPT ![s][l] = "NOTIFIED"]

CheckListenerNotify(h) ==
    /\ thread[h].op = "found"
    /\ LET s == thread[h].sa
           l == thread[h].who IN
        IF listenerMap[s][l] = "INIT"
        THEN /\ Notifies(h, s, l)
             /\ stale' = IF abilityMap[s] = None THEN stale \cup {<<s, l>>} ELSE stale
        ELSE UNCHANGED <<listenerMap, workQueue, stale>>
    /\ Returns(h)
    /\ UNCHANGED <<registryVars, subscribeCount, recipients, deathVars, heard, skipped, overtaken,
                   userVars>>

(* UnSubscribeSystemAbilityLocked on the lists of the SAs in S.  The       *)
(* faulty variant keeps the count.                                         *)
DropKeepsCount(S, l) ==
    /\ listenerMap' = [s \in SAs |->
            IF s \in S THEN [listenerMap[s] EXCEPT ![l] = "absent"] ELSE listenerMap[s]]
    /\ UNCHANGED subscribeCount

Drop(S, l) ==
    /\ listenerMap' = [s \in SAs |->
            IF s \in S THEN [listenerMap[s] EXCEPT ![l] = "absent"] ELSE listenerMap[s]]
    /\ subscribeCount' = [subscribeCount EXCEPT
            ![PidOf[l]] = @ - Cardinality({s \in S : Subscribed(s, l)})]

RemoveRecipient(l) ==
    recipients' = [recipients EXCEPT ![l] = IF @ = 0 THEN 0 ELSE @ - 1]

(* UnSubscribeSystemAbility(id, listener) of the manager of a user ends    *)
(* one kind of subscription; the listener stays while it has the other.    *)
RemoveSubscriberInfo(h, s, l, how) ==
    /\ PerUser /\ thread[h] = Idle
    /\ l \notin dead
    /\ info' = [info EXCEPT ![s][l] = @ \ {how}]
    /\ IF info'[s][l] # {} THEN Returns(h) ELSE Goes(h, "unsubscribe", s, l)
    /\ UNCHANGED <<registryVars, listenerVars, deathVars, workQueue, noteVars, overtaken, foreground>>

(* The base manager's removes one death recipient, also when the listener  *)
(* was not subscribed to that SA.                                          *)
UnSubscribe(h, s, l) ==
    /\ IF PerUser THEN thread[h].op = "unsubscribe" /\ thread[h].sa = s /\ thread[h].who = l
                  ELSE thread[h] = Idle /\ l \notin dead
    /\ Drop({s}, l)
    /\ RemoveRecipient(l)
    /\ Returns(h)
    /\ UNCHANGED <<registryVars, deathVars, workQueue, noteVars, overtaken, userVars>>

(* AbilityStatusDeathRecipient: the listener leaves all lists, and then    *)
(* subscriberInfoMap_.                                                     *)
ListenerDied(h, l) ==
    /\ thread[h] = Idle
    /\ l \in deaths
    /\ deaths' = deaths \ {l}
    /\ Drop(SAs, l)
    /\ RemoveRecipient(l)
    /\ IF PerUser THEN Goes(h, "forget", None, l) ELSE UNCHANGED thread
    /\ UNCHANGED <<registryVars, dead, crashed, workQueue, noteVars, overtaken, userVars>>

ForgetListener(h) ==
    /\ thread[h].op = "forget"
    /\ info' = [s \in SAs |-> [info[s] EXCEPT ![thread[h].who] = {}]]
    /\ Returns(h)
    /\ UNCHANGED <<registryVars, listenerVars, deathVars, workQueue, noteVars, overtaken, foreground>>

-----------------------------------------------------------------------------
(* ShouldNotifySubscriber reads the foreground user without a lock.        *)
ShouldNotifySubscriber(s, l) ==
    \/ ~PerUser
    \/ "direct" \in info[s][l]
    \/ "foreground" \in info[s][l] /\ foreground

(* The tasks of workHandler_.  FindSystemAbilityNotify holds the lock of   *)
(* the listeners for the whole list; NotifySystemAbilityChanged passes     *)
(* some of them over, and their state is changed all the same.             *)
NotifySystemAbilityChanged(s, L, what) ==
    LET told == {l \in L : ShouldNotifySubscriber(s, l)} IN
    /\ heard' = [heard EXCEPT ![s] = [l \in Listeners |-> IF l \in told THEN what ELSE @[l]]]
    /\ stale' = {x \in stale : what = "add" \/ Queued(<<"notify", x[1], x[2]>>)
                                 \/ x \notin {s} \X told}
    /\ skipped' = (skipped \ ({s} \X told)) \cup ({s} \X (L \ told))

FindSystemAbilityNotify(task) ==
    LET s == task[2]
        added == {l \in Listeners : listenerMap[s][l] = "INIT"}
        all == {l \in Listeners : Subscribed(s, l)} IN
    \/ /\ task[1] = "added"
       /\ NotifySystemAbilityChanged(s, added, "add")
       /\ listenerMap' = [listenerMap EXCEPT ![s] = [l \in Listeners |->
                            IF l \in added THEN "NOTIFIED" ELSE @[l]]]
    \/ /\ task[1] = "removed"
       /\ NotifySystemAbilityChanged(s, all, "remove")
       /\ listenerMap' = [listenerMap EXCEPT ![s] = Refreshed(@)]
    \/ /\ task[1] = "notify"
       /\ NotifySystemAbilityChanged(s, {task[3]}, "add")
       /\ UNCHANGED listenerMap

RunTask ==
    /\ workQueue # <<>>
    /\ FindSystemAbilityNotify(Head(workQueue))
    /\ workQueue' = Tail(workQueue)
    /\ UNCHANGED <<registryVars, subscribeCount, recipients, deathVars, thread, overtaken, userVars>>

(* The user comes to the foreground or leaves it.                          *)
SwitchUser ==
    /\ PerUser
    /\ foreground' = ~foreground
    /\ UNCHANGED <<registryVars, listenerVars, deathVars, workQueue, thread, noteVars, overtaken, info>>

(* A client or a host process dies: the IPC layer reports it to the        *)
(* recipients that are attached, and the scheduler hears of the process.   *)
Dies(x) ==
    /\ x \notin dead /\ Cardinality(dead) < MaxDeaths
    /\ dead' = dead \cup {x}
    /\ deaths' = IF x \in watched \/ (x \in Listeners /\ recipients[x] > 0)
                 THEN deaths \cup {x} ELSE deaths
    /\ crashed' = IF x \in Objects THEN crashed \cup {SAOf[x]} ELSE crashed
    /\ UNCHANGED <<registryVars, listenerVars, workQueue, thread, noteVars, overtaken, userVars>>

Step(h) ==
    \/ AddStores(h) \/ AddWatches(h) \/ AddReports(h)
    \/ RemoveReports(h)
    \/ SubscribeRefused(h) \/ LookUp(h) \/ CheckListenerNotify(h)
    \/ ForgetListener(h)

ListenerCalls(h, s, l) ==
    \/ Subscribe(h, s, l) \/ UnSubscribe(h, s, l)
    \/ \E how \in Kinds : AddSubscriberInfo(h, s, l, how) \/ RemoveSubscriberInfo(h, s, l, how)

Next ==
    \/ \E h \in Threads :
        \/ Step(h)
        \/ \E o \in Objects : AddBegins(h, o) \/ RemoveDied(h, o)
        \/ \E s \in SAs : RemoveById(h, s) \/ RemoveDiedSystemAbility(h, s)
        \/ \E l \in Listeners : ListenerDied(h, l) \/ \E s \in SAs : ListenerCalls(h, s, l)
    \/ RunTask \/ SwitchUser
    \/ \E x \in Objects \cup Listeners : Dies(x)

Spec == Init /\ [][Next]_vars

-----------------------------------------------------------------------------
(* subscribeCountMap_ is the number of listeners a process has in all      *)
(* lists, through refused subscriptions, unsubscriptions and deaths; it is *)
(* what the limit on subscriptions is checked against, and never above it. *)
SubscribeCountMatches ==
    \A p \in Pids :
        /\ subscribeCount[p] =
             Cardinality({x \in SAs \X Listeners : PidOf[x[2]] = p /\ Subscribed(x[1], x[2])})
        /\ subscribeCount[p] <= MaxSubscribe

(* A listener marked NOTIFIED is not told again, so it has been told, or a *)
(* task will tell it - unless it was passed over when it was marked.       *)
NotifiedMeansTold ==
    \A s \in SAs, l \in Listeners :
        listenerMap[s][l] = "NOTIFIED" =>
            \/ heard[s][l] = "add" \/ Queued(<<"notify", s, l>>)
            \/ <<s, l>> \in skipped

(* Once nothing is in progress for an SA, every listener has last heard    *)
(* what is true: "add" when the SA is registered, not "add" when it is not. *)
(* Three exceptions are possible in the code and are recorded: a report    *)
(* posted after the register had changed again (the posts of AddSystem-    *)
(* Ability and RemoveSystemAbility are not ordered by abilityMapLock_), a  *)
(* listener told of an object looked up before it was removed, and a       *)
(* listener of the foreground user that was passed over in the background. *)
Quiet(s) ==
    /\ \A i \in 1..Len(workQueue) : workQueue[i][2] # s
    /\ \A h \in Threads : thread[h].sa # s

HeardIsTrue ==
    \A s \in SAs, l \in Listeners :
        Quiet(s) /\ Subscribed(s, l) /\ s \notin overtaken /\ <<s, l>> \notin stale \cup skipped =>
            (abilityMap[s] # None <=> heard[s][l] = "add")

(* What the listeners of an SA were told, and are marked to have been      *)
(* told, agrees with the register.                                         *)
ToldIsTrue == NotifiedMeansTold /\ HeardIsTrue

(* A registered object that dies does not stay registered unnoticed: while *)
(* it lives it has its death recipient, or AddSystemAbility has still to   *)
(* attach it, and once it is dead the report is on its way to Remove-      *)
(* SystemAbility - through re-registrations of one object, covered entries *)
(* and the three removals.  Only an object that died between being stored  *)
(* and AddDeathRecipient has neither; that failure is not noticed.         *)
DeadIsReported ==
    \A s \in SAs : LET o == abilityMap[s] IN o # None =>
        /\ \/ o \in watched \cup dead
           \/ \E h \in Threads : thread[h].op = "added" /\ thread[h].who = o
        /\ o \in watched \cap dead => o \in deaths
=============================================================================
