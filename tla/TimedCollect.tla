---------------------------- MODULE TimedCollect ----------------------------
(***************************************************************************)
(* DeviceTimedCollect: loops and one-time orders that start abilities, the *)
(* tasks posted for them, and the preferences file that carries the        *)
(* persistent ones over a restart of samgr.  The policy update is the one  *)
(* of DeviceStatusCollectManager: the new events are added, the policy is  *)
(* stored, and the old events nobody uses any more are removed, all with   *)
(* saProfilesLock_ held; timer tasks run in between, reports wait.         *)
(***************************************************************************)
EXTENDS Naturals, FiniteSets

CONSTANTS SAs, Intervals, Orders,   \* Orders are times, in their order
          Profile,                  \* the events of every ability in its profile
          Policies,                 \* the sets of events a policy update may ask for
          TooLong,                  \* intervals, and orders that far off, over INT_MAX / 1000 s
          MultiUser,                \* the collector belongs to the manager of a user
          Null, MaxUpdates, MaxCrashes

Loops == {"loopevent", "awakeloopevent"}
Event == [name: Loops, value: Intervals, persist: BOOLEAN]
         \cup [name: {"timedevent"}, value: Orders, persist: BOOLEAN]
Task == [persist: BOOLEAN, loop: {TRUE}, value: Intervals]
        \cup [persist: BOOLEAN, loop: {FALSE}, value: Orders]

VARIABLES
    phase,        \* "down", "init" (profiles read, OnStart posted), "up"
    policy,       \* onDemandSaProfiles_
    updating,     \* the update that holds saProfilesLock_, or Null
    loopSet,      \* [persist -> intervals]: persitenceLoopEventSet_, nonPersitenceLoopEventSet_
    loopTasks,    \* [persist -> intervals]: persitenceLoopTasks_, nonPersitenceLoopTasks_
    timeInfos,    \* interval -> the loop events it stands for
    queue,        \* task -> how many of it are posted
    reports,      \* events reported and not yet decided
    prefs,        \* the file: intervals, orders, and order -> abilities
    past,         \* the orders whose time has come
    owed,         \* <<ability, order>> accepted with persistence and not decided
    updates, crashes,
    flags         \* "readded", "shared", "skipped", "crashed"

vars == <<phase, policy, updating, loopSet, loopTasks, timeInfos, queue, reports, prefs, past, owed,
          updates, crashes, flags>>

Nowhere == [b \in BOOLEAN |-> {}]
Empty == [t \in Task |-> 0]

TypeOK ==
    /\ phase \in {"down", "init", "up"} /\ policy \in [SAs -> SUBSET Event]
    /\ updating \in {Null} \cup [sa: SAs, events: SUBSET Event]
    /\ loopSet \in [BOOLEAN -> SUBSET Intervals] /\ loopTasks \in [BOOLEAN -> SUBSET Intervals]
    /\ timeInfos \in [Intervals -> SUBSET Loops]
    /\ queue \in [Task -> Nat] /\ reports \subseteq Event
    /\ prefs \in [loops: SUBSET Intervals, orders: SUBSET Orders, control: [Orders -> SUBSET SAs]]
    /\ past \subseteq Orders /\ owed \subseteq SAs \X Orders
    /\ updates \in 0..MaxUpdates /\ crashes \in 0..MaxCrashes
    /\ flags \subseteq {"readded", "shared", "skipped", "crashed"}

LoopTask(i, p) == [persist |-> p, loop |-> TRUE, value |-> i]
OrderTask(o, p) == [persist |-> p, loop |-> FALSE, value |-> o]
Order(o, p) == [name |-> "timedevent", value |-> o, persist |-> p]

AllEvents(pol) == UNION {pol[sa] : sa \in SAs}

\* SaveTimedEvent of every event of the profiles, when samgr starts.
SavedLoops(p) == {e.value : e \in {x \in AllEvents(Profile) : x.name \in Loops /\ x.persist = p}}
SavedInfos ==
    [i \in Intervals |-> {e.name : e \in {x \in AllEvents(Profile) : x.name \in Loops /\ x.value = i}}]

Init ==
    /\ phase = "init" /\ policy = Profile /\ updating = Null
    /\ loopSet = [p \in BOOLEAN |-> SavedLoops(p)] /\ loopTasks = Nowhere /\ timeInfos = SavedInfos
    /\ queue = Empty /\ reports = {} /\ past = {} /\ owed = {}
    /\ prefs = [loops |-> {}, orders |-> {}, control |-> [o \in Orders |-> {}]]
    /\ updates = 0 /\ crashes = 0 /\ flags = {}

(* ------------------------------- OnStart ---------------------------------- *)

\* PostDelayTask drops a delay that is too long.  SamgrTimeHandler, which takes the orders and
\* the loops that wake the device, does not, but the managers of users never ask it.
Dropped(v, waking) == v \in TooLong /\ (MultiUser \/ ~waking)
Fitting(is) == {i \in is : ~Dropped(i, "awakeloopevent" \in timeInfos[i])}

\* PostDelayTaskByTimeInfo posts nothing for an interval without time info.
PostLoops(q, is, p) ==
    [t \in Task |-> IF t.loop /\ t.persist = p /\ t.value \in is /\ timeInfos[t.value] # {}
                    THEN q[t] + 1 ELSE q[t]]

\* ReportEventByTimeInfo
InfoEvents(i, p) == {[name |-> n, value |-> i, persist |-> p] : n \in timeInfos[i]}

\* PostNonPersistenceLoopTasks and PostPersistenceLoopTasks: what has no task yet.
StillToPost(p, again) == loopSet[p] \ (loopTasks[p] \cup IF p THEN again ELSE {})

\* ProcessPersistenceTasks walks over the file in the order of its keys and returns after the
\* first order; the loops before it are set again, late ones reported at once, and a clock that
\* was set back leaves one out.  What is left of a delay that was too long may no longer be.
\* The other two calls then post what has no task yet.
OnStart ==
    /\ phase = "init" /\ phase' = "up"
    /\ LET first == CHOOSE o \in prefs.orders : \A x \in prefs.orders : o <= x
           due == prefs.orders # {} /\ first \in past
           tasks(q) == {[q EXCEPT ![OrderTask(first, TRUE)] = @ + 1]}
                       \cup IF Dropped(first, TRUE) THEN {q} ELSE {}
       IN  \E before \in SUBSET prefs.loops : \E late \in SUBSET before, near \in SUBSET (before \cap TooLong) :
             LET again == before \ loopTasks[TRUE]
                 new(p) == StillToPost(p, again)
                 q1 == PostLoops(queue, Fitting(again) \cup (again \cap near), TRUE)
                 q2 == PostLoops(PostLoops(q1, Fitting(new(FALSE)), FALSE), Fitting(new(TRUE)), TRUE)
             IN  /\ loopTasks' = [p \in BOOLEAN |-> loopTasks[p] \cup new(p)
                                                    \cup IF p THEN again ELSE {}]
                 /\ reports' = reports
                        \cup UNION {InfoEvents(i, TRUE) : i \in late \cap again}
                        \cup IF due THEN {Order(first, TRUE)} ELSE {}
                 /\ prefs' = [prefs EXCEPT !.loops = @ \cup new(TRUE),
                                           !.orders = IF due THEN @ \ {first} ELSE @]
                 /\ queue' \in IF prefs.orders = {} \/ due THEN {q2} ELSE tasks(q2)
                 /\ flags' = IF Cardinality(prefs.orders) > 1 THEN flags \cup {"skipped"} ELSE flags
    /\ UNCHANGED <<policy, updating, loopSet, timeInfos, past, owed, updates, crashes>>

(* ------------------------------- the tasks -------------------------------- *)

TimeComes ==
    /\ \E o \in Orders \ past : past' = past \cup {o}
    /\ UNCHANGED <<phase, policy, updating, loopSet, loopTasks, timeInfos, queue, reports, prefs, owed,
                   updates, crashes, flags>>

\* The task of a removed interval ends; the persistent one asks for its own entry.
LoopGoesOn(i, p) == i \in IF p THEN loopTasks[TRUE] ELSE loopSet[FALSE]

\* Mutant: the task does not post itself again.
LoopRunsOnce(i, p) ==
    /\ phase # "down" /\ queue[LoopTask(i, p)] > 0
    /\ queue' = [queue EXCEPT ![LoopTask(i, p)] = @ - 1]
    /\ reports' = IF LoopGoesOn(i, p) THEN reports \cup InfoEvents(i, p) ELSE reports
    /\ UNCHANGED <<phase, policy, updating, loopSet, loopTasks, timeInfos, prefs, past, owed, updates,
                   crashes, flags>>

LoopRuns(i, p) ==
    /\ phase # "down" /\ queue[LoopTask(i, p)] > 0
    /\ LET q == [queue EXCEPT ![LoopTask(i, p)] = @ - 1]
       IN  IF LoopGoesOn(i, p)
           THEN /\ reports' = reports \cup InfoEvents(i, p)
                /\ queue' = PostLoops(q, Fitting({i}), p)
                /\ prefs' = IF p THEN [prefs EXCEPT !.loops = @ \cup {i}] ELSE prefs
           ELSE queue' = q /\ UNCHANGED <<reports, prefs>>
    /\ UNCHANGED <<phase, policy, updating, loopSet, loopTasks, timeInfos, past, owed, updates, crashes,
                   flags>>

\* Mutant: the order leaves the file before it is reported.
OrderRunsSilently(o, p) ==
    /\ phase # "down" /\ queue[OrderTask(o, p)] > 0 /\ o \in past
    /\ queue' = [queue EXCEPT ![OrderTask(o, p)] = @ - 1]
    /\ prefs' = IF p THEN [prefs EXCEPT !.orders = @ \ {o}] ELSE prefs
    /\ UNCHANGED <<phase, policy, updating, loopSet, loopTasks, timeInfos, reports, past, owed, updates,
                   crashes, flags>>

OrderRuns(o, p) ==
    /\ phase # "down" /\ queue[OrderTask(o, p)] > 0 /\ o \in past
    /\ queue' = [queue EXCEPT ![OrderTask(o, p)] = @ - 1]
    /\ reports' = reports \cup {Order(o, p)}
    /\ prefs' = IF p THEN [prefs EXCEPT !.orders = @ \ {o}] ELSE prefs
    /\ UNCHANGED <<phase, policy, updating, loopSet, loopTasks, timeInfos, past, owed, updates, crashes,
                   flags>>

\* ReportEvent's task: the abilities whose policy has the event, and those the file names.
Controls(e) ==
    {sa \in SAs : e \in policy[sa]} \cup IF e.name = "timedevent" THEN prefs.control[e.value] ELSE {}

Decide(e) ==
    /\ phase # "down" /\ e \in reports /\ updating = Null
    /\ reports' = reports \ {e}
    /\ owed' = IF e.persist THEN owed \ {<<sa, e.value>> : sa \in Controls(e)} ELSE owed
    /\ UNCHANGED <<phase, policy, updating, loopSet, loopTasks, timeInfos, queue, prefs, past, updates,
                   crashes, flags>>

(* --------------------------- the policy update ---------------------------- *)

\* A persistent loop cannot be added while samgr runs.
Refused(e) == e.name \in Loops /\ e.persist

\* AddCollectEvent for the events that come before a refused one, or for all of them.
AddCollectEvent(events) ==
    LET loops == {e \in events : e.name \in Loops}
        orders(p) == {e.value : e \in {x \in events \ loops : x.persist = p /\ x.value \notin past}}
        is == {e.value : e \in loops}
        new == is \ loopSet[FALSE]
        infos == [i \in Intervals |-> timeInfos[i] \cup {e.name : e \in {x \in loops : x.value = i}}]
    IN  /\ timeInfos' = infos
        /\ loopSet' = [loopSet EXCEPT ![FALSE] = @ \cup new]
        /\ loopTasks' = [loopTasks EXCEPT ![FALSE] = @ \cup new]
        /\ queue' = [t \in Task |->
              IF \/ /\ t.loop /\ ~t.persist /\ t.value \in new \ loopTasks[FALSE]
                    /\ ~Dropped(t.value, "awakeloopevent" \in infos[t.value])
                 \/ ~t.loop /\ t.value \in orders(t.persist) /\ ~Dropped(t.value, TRUE)
              THEN queue[t] + 1 ELSE queue[t]]
        /\ prefs' = [prefs EXCEPT !.orders = @ \cup orders(TRUE)]

UpdateAdds(sa, events) ==
    /\ phase # "down" /\ updating = Null /\ updates < MaxUpdates
    /\ updates' = updates + 1
    /\ LET bad == {e \in events : Refused(e)}
       IN  \E added \in (IF bad = {} THEN {events} ELSE SUBSET (events \ bad)) :
             /\ AddCollectEvent(added)
             /\ updating' = IF bad = {} THEN [sa |-> sa, events |-> events] ELSE Null
             /\ flags' = IF \E e \in added : /\ e.name \in Loops /\ e.value \notin loopSet[FALSE]
                                              /\ queue[LoopTask(e.value, FALSE)] > 0
                         THEN flags \cup {"readded"} ELSE flags
    /\ UNCHANGED <<phase, policy, reports, past, owed, crashes>>

\* RemoveUnusedEvent: an order cannot be removed; a loop takes its interval with it.
RemoveUnused(gone) ==
    LET loops == {e \in gone : e.name \in Loops}
        is(p) == {e.value : e \in {x \in loops : x.persist = p}}
    IN  /\ loopSet' = [p \in BOOLEAN |-> loopSet[p] \ is(p)]
        /\ loopTasks' = [p \in BOOLEAN |-> loopTasks[p] \ (is(p) \cap loopSet[p])]
        /\ timeInfos' = [i \in Intervals |-> timeInfos[i] \ {e.name : e \in {x \in loops : x.value = i}}]

\* CheckEventUsedLocked compares name, value and persistence of a timed event.
Gone(sa, events) == policy[sa] \ AllEvents([policy EXCEPT ![sa] = events])

UpdateStores ==
    /\ updating # Null
    /\ LET sa == updating.sa
           events == updating.events
           gone == Gone(sa, events)
           kept == AllEvents([policy EXCEPT ![sa] = events])
           orders == {e.value : e \in {x \in events : x.name = "timedevent" /\ x.persist}}
       IN  /\ policy' = [policy EXCEPT ![sa] = events]
           /\ prefs' = [prefs EXCEPT !.control =
                  [o \in Orders |-> IF o \in orders THEN @[o] \cup {sa} ELSE @[o]]]
           /\ owed' = owed \cup {<<sa, o>> : o \in {x \in orders : x \in prefs.orders}}
           /\ RemoveUnused(gone)
           /\ flags' = IF \E e \in gone :
                             /\ e.name \in Loops
                             /\ \/ \E f \in kept : f.name \in Loops /\ e.value = f.value
                                \/ e.value \in loopSet'[~e.persist]
                       THEN flags \cup {"shared"} ELSE flags
    /\ updating' = Null
    /\ UNCHANGED <<phase, queue, reports, past, updates, crashes>>

(* --------------------------- crash and restart ---------------------------- *)

Crash ==
    /\ phase # "down" /\ crashes < MaxCrashes
    /\ crashes' = crashes + 1 /\ phase' = "down"
    /\ queue' = Empty /\ reports' = {} /\ updating' = Null
    /\ loopSet' = Nowhere /\ loopTasks' = Nowhere /\ timeInfos' = [i \in Intervals |-> {}]
    /\ flags' = IF \E e \in reports : e.persist THEN flags \cup {"crashed"} ELSE flags
    /\ UNCHANGED <<policy, prefs, past, owed, updates>>

Restart ==
    /\ phase = "down" /\ phase' = "init" /\ policy' = Profile
    /\ loopSet' = [p \in BOOLEAN |-> SavedLoops(p)] /\ timeInfos' = SavedInfos
    /\ UNCHANGED <<updating, loopTasks, queue, reports, prefs, past, owed, updates, crashes, flags>>

Running ==
    \/ OnStart
    \/ \E i \in Intervals, p \in BOOLEAN : LoopRuns(i, p)
    \/ \E o \in Orders, p \in BOOLEAN : OrderRuns(o, p)
    \/ UpdateStores
    \/ Restart

Next ==
    \/ Running \/ TimeComes \/ Crash
    \/ \E e \in reports : Decide(e)
    \/ \E sa \in SAs, events \in Policies : UpdateAdds(sa, events)

Spec == Init /\ [][Next]_vars

(* ------------------------------- properties ------------------------------- *)

Quiet == phase = "up" /\ updating = Null

\* Every loop some policy asks for has its interval, its time info and a task that will report
\* it, after any mix of updates, runs and restarts - unless a removed loop shared its interval
\* with a loop that is still used, or that a refused update left behind: the interval, or its
\* time info, goes with the first of them.  A loop whose interval is too long for
\* PostDelayTask is accepted and may have no task.
LoopIsScheduled ==
    (Quiet /\ "shared" \notin flags)
    => \A e \in AllEvents(policy) : e.name \in Loops =>
         /\ e.value \in loopSet[e.persist] \cap loopTasks[e.persist]
         /\ e.name \in timeInfos[e.value]
         /\ e.value \notin TooLong => queue[LoopTask(e.value, e.persist)] > 0

\* An interval is reported by one task, unless it was removed and added again before the old
\* task had noticed: the two then run side by side from there on.
OneTaskPerLoop ==
    \A i \in Intervals, p \in BOOLEAN :
        ~(~p /\ "readded" \in flags) => queue[LoopTask(i, p)] <= 1

\* A persistent order that was accepted stays in the file, with a task set for it while samgr
\* is up, or has been reported and not decided: a crash does not lose it - unless samgr
\* crashed between the report and its decision, or the restart returned after an earlier
\* order of the file and left this one for the next restart.  One that was too far off when a
\* user's manager accepted it has no task before a restart.
OrderNotLost ==
    "crashed" \notin flags
    => \A w \in owed :
         \/ Order(w[2], TRUE) \in reports
         \/ /\ w[2] \in prefs.orders
            /\ (phase = "up" /\ "skipped" \notin flags /\ ~Dropped(w[2], TRUE))
               => queue[OrderTask(w[2], TRUE)] > 0

\* A loop that stays in a policy is reported again and again, if its interval is not too long
\* for PostDelayTask.
LoopIsServed ==
    \A i \in Intervals \ TooLong :
      LET e == [name |-> "loopevent", value |-> i, persist |-> FALSE]
      IN  []<>(e \in reports \/ e \notin AllEvents(policy) \/ phase # "up" \/ "shared" \in flags)
=============================================================================
