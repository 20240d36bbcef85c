# A TLA+ model of samgr

samgr, the system ability manager of OpenHarmony, starts, registers, looks up
and reclaims *system abilities* (SAs): services that live in host processes
started by `init`. This directory holds TLA+ modules translated from its source,
the TLC configurations that check them on small instances, and TLAPS proofs that
hold for any number of SAs, processes, users, clients and threads. `PROJECT.json`
maps every definition to its source lines and lists components, hazards, runs,
mutants, theorems and findings.

Paths below are relative to `src/services/samgr/native/source/` unless they begin
with `src/`.

## 1. The system and its modules

| Component | What is hard | Modules |
|---|---|---|
| State machines, event handler (`schedule/system_ability_state_machine.cpp`, `schedule/system_ability_event_handler.cpp`) | decisions read the counts, not the SAs | `AbilityStateMachine` |
| Scheduler (`schedule/system_ability_state_scheduler.cpp`) | posted tasks and dequeued timers act on states that have moved on; processes die at any time | `AbilityScheduler`, `AbilityLifecycle` (abstract), `ProcessListeners`, `OnDemandEvents` |
| Base manager (`base_system_ability_manager.cpp`) | registrations, deaths, timers and requests race over several maps with a lock each | `AbilityListeners`, `AbilityLoading`, with the scheduler `LoadStates` |
| Manager singleton (`system_ability_manager.cpp`) | user read first and manager looked up later; a reset task against a new request; a service set up late | `UserRouting`, `IpcPrior`, `RemoteLoad`, `DelayedDBinder` |
| Users (`user_lifecycle_manager.cpp`, `multi_system_ability_manager.cpp`) | activation, switch, delayed stop and shutdown on several threads; subscriptions for users still to come | `UserLifecycle`, `UserRouting` |
| FFRT handler (`ffrt_handler.cpp`) | a task that fires while it is cancelled and set again | `TaskHandler` |
| Timer thread (`samgr_time_handler.cpp`) | arming against the end of the thread, reuse of descriptors | `TimeHandler` |
| Collection (`collect/*.cpp`) | half failed updates, services that restart, persistence, data that expires | `CollectPolicy`, `OnDemandEvents`, `TimedCollect`, `IpcReclaim`, `DeviceNetworking` |
| IPC (`src/frameworks/native/source/system_ability_manager_proxy.cpp`, `system_ability_manager_stub.cpp`, callback and local-manager proxies) | some fifty pairs of functions that must agree on an untyped wire | `SamgrParcel`, `SamgrProxy`, `SamgrStub`, `SamgrCallbacks`, composed in `SamgrInterface` |
| Client (`src/interfaces/innerkits/dynamic_cache`, `src/services/lsamgr/src/local_abilitys.cpp`, the proxy) | a cache invalidated by a system parameter; waiting for a load | `SamgrCache`, `LoadWait` |
| Death recipients (`ability_death_recipient.cpp`) | deaths are told late | the death actions of `AbilityListeners`, `AbilityLoading`, `RemoteLoad`, `ProcessListeners` |

Interaction. The manager calls the scheduler for every load, unload and cancel
request and for every event (an SA or a process has registered or gone). The
scheduler calls back into the manager to start a load, to tell an SA to be idle,
active or to stop, and into `init` (`ServiceControl`) to stop a process. Each
process context has a lock (`processLock`) that a handler holds throughout.
What does not happen under it goes through `processHandler_` (a serial queue that
also keeps the named unload timers), `unloadEventHandler_` (delayed unloads),
`recoverHandler_` (overflow recovery), or the manager's `workHandler_` (reports,
load timers). `SystemAbilityManager` is the base user's manager and passes
requests on to the manager of a user. The collect plugins turn events of the
device into load and unload requests. Clients reach all of it through the proxies.

`MC*` modules give constants their values for TLC; the other modules are checked
directly. `*Proofs` modules hold the theorems.

## 2. How the modules correspond to the code

Common to all:

* An action is what happens between taking and giving back a lock, with every
  hook and helper called there. An operation that takes several locks is several
  actions, and what it has read so far is kept in a record of its thread. Where
  one lock is held throughout, the whole operation is one action.
* A timer or delayed task is two actions: it leaves its queue, and it runs.
  In between it cannot be cancelled.
* Time is abstract: a timer may fire at any moment after it is set, and a test of
  elapsed time may answer either way.
* A call to another service (init, the parameter service, the common event
  service, the device manager, DBinder) succeeds or fails freely, where the code
  looks at the result. Deaths are told some time after they happen.
* Some races in the code have an outcome its author would rather not see. The
  models contain them; a history variable (`flags`, `overtaken`, `stale`,
  `unwatched`, `early`, `skipped`, `spoilt`) records that one has happened, and
  the property says what holds otherwise. Section 6 lists them.

### `AbilityScheduler`, `AbilityStateMachine`, `AbilityLifecycle`

One handler that holds `processLock` is one action: a transition to UNLOADABLE,
for example, includes the notice to the listeners, the independent unload and the
task it posts. A loop over `saList` is one transition of a set of SAs
(`AbilityStateTransition(c, S, to)`). The overflow recovery is two actions because
it gives up the lock. The manager's answers (`DoLoadSystemAbility`,
`IdleSystemAbility`, `ActiveSystemAbility`, `DoUnloadSystemAbility`) are free
choices, with one restriction: a process that is NOT_STARTED has no object to ask,
so it neither becomes idle nor active. `AbilityLifecycle` keeps only the states
and says which changes are allowed at all.

Left out, as data the control does not depend on: pids and uids, time stamps
other than "is set" (`pendingSince`), reasons and events of requests,
`delayUnloadTime`, the list of running processes. `pendingLoadEventCountMap` is
derived from the callbacks kept (`PendCount`): the code changes both together.
`notice` assumes a process listener that stays subscribed. Left out because it is
an exception: samgr's own process and SA 0, whose counts
`InitSamgrProcessContext` sets to LOADED = 1 while the SA's state is NOT_LOADED;
it never takes part in loading or reclaiming.

Two facts of the code a reader may stumble over, both visible in the model: an SA
may be LOADED in a process that is NOT_STARTED (its registration is handled after
the death of the process), and `CanKillSystemProcess` does not ask whether the
process is STOPPING.

### `AbilityListeners`, `AbilityLoading`, `LoadStates`

`AbilityListeners` has `abilityMap_` with the death recipients of its objects,
`listenerMap_`, `subscribeCountMap_` and the reports of `workHandler_`; an object
leaves the register by `RemoveSystemAbility`, by its death recipient or by
`RemoveDiedSystemAbility` when the scheduler restarts a crashed SA. With `PerUser`
it is the register of a user's manager, which also records how a listener has
subscribed (`subscriberInfoMap_`) and passes over a listener of the foreground
user while its own user is in the background. `AbilityLoading` has
`startingAbilityMap_` with the load callbacks, `startingProcessMap_`,
`systemProcessMap_`, `onDemandAbilityMap_`, `callbackCountMap_` and the load timers. In `AbilityLoading` one load request per
process is in progress, because the scheduler calls with `processLock` held.
`LoadStates` extends it with the states the scheduler keeps: every step of the
manager is joined with what it does to them, and every event the manager sends
is delivered later, when its thread gets the lock. A process may register a new
object before the death of the old one is told (`died`).

### Users

In `UserLifecycle` the events of one user are serialised by its lifecycle lock;
the completion of a stop runs on a queue, `userStateLock_` and
`globalSubscriptionLock_` are separate, and clients subscribe directly at a
manager at the same time. `UserRouting` looks at requests from outside: the route
is computed, the manager found and called in three steps, while users change. A
manager is named by its user and its incarnation.
What `multi_system_ability_manager.cpp` adds to the base manager is in four places:
creation, the subscriptions for all users and the end in `UserLifecycle`, the
incarnation in `UserRouting`, the status listeners in `AbilityListeners` (with
`PerUser`), the listeners of processes in `ProcessListeners`.

### Collection

`CollectPolicy` is the update of a policy across the plugins, with what the
plugins believe and what the services have been asked for. `OnDemandEvents`
follows one event from its arrival over the table of its extra data to the loads
and unloads it causes, with the once-only records of the scheduler.
`TimedCollect` has loops and one-time orders and the preferences file that
survives a crash of samgr; `TooLong` are the delays `PostDelayTask` drops.
`IpcReclaim` has the countdown thread and the CPU monitor with its subtraction at an explicit integer width. `DeviceNetworking` has
the online set against a device manager that crashes and refuses; the task that
reports what was missed and the callbacks reach the set one locked access at a
time, and report after it.

### IPC and the client

A parcel is a sequence of fields `<<kind, name>>`, where the name is the variable
it is written from or read into. `SamgrProxy`, `SamgrStub` and `SamgrCallbacks`
are tables: per function its checks, writes and reads in the order of the code.
`SamgrInterface` makes a call: checks, writes into a parcel with limited room,
delivery or not, permissions, reads, service, answer. The stub of the local ability
manager belongs to another repository and is taken to read what the proxy
writes. `SamgrCache` and `LoadWait` are the parts of the proxy that have state. In
`SamgrCache` the death of a host, its handling by the register, the obituary at
the client's IPC layer (`IsObjectDead`) and the cache's `OnRemoteDied` are steps of
their own.

## 3. What TLC checks

A run that looks at several parts which share no state is the *sum* of their
instances, not their product: a variable `part`, chosen in the initial state, says
which part a behaviour is about, the others stay where they start, and the
properties are those of the modules of the parts (`MCListeners`, `MCManager`,
`MCClients`, `MCThreads`, `MCCollect`, `MCProgress`). Parts that do interact are
composed properly: the register and the scheduler in `LoadStates`, proxy, stub and
callbacks in `SamgrInterface`, register and client in `SamgrCache`.

| Run | Instance | Shows |
|---|---|---|
| `scheduler_requests` | one SA that restarts after a crash, two callbacks of one caller, limit 1 for kept requests and for restarts, 2 tasks, 2 unload timers, 1 recovery task; fairness | `TypeOK` (with the bound of the restart limiter); `PendingLoadsNotStranded`: a kept load request is still going to be replayed; `StoppingIsWatched`: a stopping process has a timer, a running timeout or a STOP; `StoppingEnds`, `PendingLoadsEnd` |
| `scheduler_reclaim` | two SAs in one process, one restarted after crashes until the limiter ends it, one with `independentUnload`; one callback, 1 task, 1 timer | `StateCountsMatch`; `HostStatesFit`: none LOADING while the process stops, UNLOADING only then unless independent, none idle in a dead process; `ReclaimIsQueued`: the kill of an emptied and the reclaim of an idle process are in the queue; `IdledMeansNoneLoaded`; `StopsOnlyUnused`: no process is stopped or killed with an SA in use; `ImplementsLifecycle` (refinement) |
| `listeners` | *race*: two objects for one SA, one listener, two threads, two deaths; *user*: one object, the foreground changes; *limit*: two listeners of one process that die, two SAs, limit 2 | `ToldIsTrue`: what listeners heard, and are marked to have heard, is what the register says; `DeadIsReported`: a dead object that is still registered has a death recipient or a removal on its way; `SubscribesCounted` |
| `loading` | one SA, two callbacks of one process; fairness | `RequestsAccounted`: a request is answered exactly once, counted while it is kept, and never left without a timer or a report on its way; `RequestsEnd` |
| `load_states` | one SA, one callback, one event on its way; fairness | `LoadingIsWatched`, `LoadingEnds`: an SA that is LOADING has something that ends it, and it ends |
| `clients` | *cache*: a local and an on-demand SA, two threads, two calls, two objects of which one dies, two ticks; *calls*: every call, lists up to 2, parcels with room for 0, 1, 3 or 30 values | `ServedIsRegistered`: what the cache and the table of local abilities serve is what the manager holds; `ArgumentsArrive`: the service gets what the proxy was given, and nothing invalid; `SuccessIsTrue` |
| `users` | two users, one listener, 4 events, 3 subscriptions | `ManagersInOrder`: one manager for each user, found as long as it lives, none used after the shutdown; `SubscriptionsInOrder`: subscriptions for all users reach all managers |
| `manager` | *routing*: two users and the base user, one client, one SA of each kind; *remote*: two callbacks, two devices, five requests; *dbinder*: two distributed SAs and softbus, three removals; *handler*: two names, one of tasks that keep their handle, five submissions, one replaced queue; *process*: two listeners, two low-memory processes, limit 3 | `UsersApart`, `RequestsReachManagers`; `RemoteLoadsServed`: no remote request is left or answered twice; `DBinderInStep`: DBinder knows the distributed abilities and is started, whichever came first; `TasksWithinReach`: what is reported pending runs, and a cancel misses at most one task of a name; `ProcessListenersInStep`: heard, counted and removed as they should be |
| `threads` | *priority*: two clients, two threads; *timers*: three alarms on two descriptors, a thread per alarm | `PriorityInStep`: flag, count, reset task, holders and raised threads agree; `AlarmsAreServed`: a kept function has a thread, and an empty one is called only after an early expiry |
| `collect` | *policy*: two SAs sharing an event, two updates, one crash per service; *events*: three events, two SAs, two ids; *loops*, *orders*: two SAs, two intervals or two times, three updates, one or two crashes; *long loops*, *orders of a user*: the same with a delay that is too long, two updates, one crash; *network*: two devices, three changes, two crashes, two refusals | `PolicyIsCollected`: the services are asked for what is used and nothing else; `EventsInStep`: once-only events act once, listed data is there and expires; `TimedEventsKept`: one task for every loop, no order lost in a crash; `OnlineIsTrue`: the set and the last report are true |
| `progress` | *timers*: two alarms; *loops*: two updates, one crash; *reclaim*: a countdown of two checks, two threads, five events; *network*: one device; *lifecycle*: two users, three events; *wait*: timeouts below, at and above both limits, two answers; *cache*: one thread, six retries; fairness | `AcceptedIsCalled` (alarms); `PluginsGoOn` (loops, registration with the device manager); `TriggerIsServed` (one countdown, and it reclaims); `StopEnds` (users); `ClientCallsReturn` (loads wake and end, calls return) |
| `ipc_reclaim_idle` | two cores, loads around their number | *violated*: `IdleDeviceReclaims`, see section 5 |

A property that joins several statements about one part names them in the module
of the part, each with its own comment. Every property of a passing run has a
mutant in `PROJECT.json`: a faulty variant of one definition (it stands before the
definition it replaces) under which TLC finds the property violated.

**Bounds.** They are named constants. A bound on requests, events, crashes or
updates stands in the action of the environment that makes one, so it never
blocks a thread inside an operation; a bound on a queue (`MaxTasks`, `MaxTimers`,
`MaxRecover`) stands at the entry of the handler that fills it, or is drained by
actions that are always possible. The numbers are the least at which the cases of
the hazard list occur: two objects for a replacement, two threads for a race,
three updates to remove and add again, two crashes to find what the first restart
left in the file, a limit that the listeners can reach. Two SAs distinguish "all
idle" from "one idle". Handlers of different processes touch no common state
except the order of the queues, so the scheduler and loading runs have one
process. `scheduler_reclaim` has one task, because what a step may do to the states
does not depend on how many tasks wait. In `load_states` one callback suffices: its
timers and its registration are what can be missing, and requests of several
callbacks are the subject of `loading`, in which both are kept at once and the
limit on callbacks is not reached; the same test is reached by the listeners.
Where a bounded system comes to rest the configuration says so and does not check
for deadlock; the others do.

**Symmetry** is used only in runs that check safety, over identical listeners,
objects, processes, threads, alarms or descriptors.

**Fairness** is stated only where a liveness property needs it, and always says
one of these things: a thread inside an operation goes on, a lock that is free
for long enough is got, FFRT runs a task or timer that is due, init ends a process
it was told to stop and starts a service that died. `SF` is used for a timer, a
task or a registration that competes with others for the serial queue, which takes
them in the order they are due, or for a lock which is never held forever
(`AbilityLoading`, `LoadStates`). `MCProgress` states the fairness of each part
where the behaviour is about that part. Requests, registrations, crashes, answers
of clients and the time at which a delayed unload comes have no fairness.

## 4. What is proved

For every value of the constants, from the assumptions named in the modules (types
of the constants, finiteness of `SAs`, and that special values such as `None` or
`Base` are not users or SAs):

1. `AbilityCountProofs`. Lemmas about `AbilityStateTransition`: it keeps the
   counts of the process equal to the states, for any set of SAs that move, and
   storing its result does not disturb other processes. With them
   `CountInv == TypeOK /\ StateCountsMatch` is inductive. `TypeCorrect`,
   `CountsCorrect`.
2. `AbilityLifecycleProofs`. With true counts, the tests of
   `CanUnloadAllSystemAbility` and `CanKillSystemProcess` say what they mean about
   the SAs, so every step is an `AbilityLifecycle` step; and any step of that
   specification keeps `HostInv` (the three invariants relating SAs to their
   process). Neither half works alone: `LifeInv == CountInv /\ HostInv` is the
   inductive invariant. `SchedulerImplementsLifecycle`, `HostsInStep`.
3. `AbilityReclaimProofs`. Relative to `LifeInv`: kept requests
   (`LoadsNotStranded`), the watch over stopping processes
   (`StoppingStaysWatched`), the posted tasks (`ReclaimsArePosted`),
   notices (`IdledIsTrue`) and the action property `StopsOnlyUnused`
   (`StopsSpareWhatIsUsed`, from `StopsOnlyIdle` and `KillsOnlyEmpty`). `TaskInv` states the reclaim condition by
   SA states (`Reclaimable`) rather than counts, which makes it inductive action
   by action.
4. `UserLifecycleProofs`. None of the invariants is inductive: whether a user has
   one manager depends on how far its event, its stop task and the shutdown have
   got. The inductive invariant gives each user a phase and says for each phase
   what the maps, the event that holds the lifecycle lock and the task look like;
   most steps move one user from one phase to another (`OneSteps`).
   `ManagersStayInOrder`, with a lemma for each of its four statements.
5. `UserRoutingProofs`. The inductive invariant says of each request what it knows
   after each of its steps and what users that came and went since can have
   changed. `UsersStayApart`, `RequestsAreRouted`.
6. `IpcPriorProofs`. The count is that of the requests made and not given back,
   hence at least the number of holders, unless the flags say otherwise.
   `PriorityStaysInStep`, with a lemma for each of its three statements.

Only model-checked: all liveness properties, since liveness under fairness is
outside what the proof system handles; everything about the tables of the IPC
interface, which read parcels recursively; and the invariants of the modules not
named here. Of these, `WaitingIsWatched`, `RequestsConserved` and
`LoadingIsWatched` would be the next worth proving: the first needs that a
registered SA with callbacks has a report on its way, the last that an SA which
is registered with no registration in progress is LOADING only if unwatched.

## 5. Finding

`ipc_reclaim_idle`: the comment of the CPU monitor
(`collect/common_event_collect.cpp:837`) says that a one-minute load of at most
the number of cores plus one counts as idle. The code subtracts the load of all
cores from the measured load as unsigned numbers, so a load below the number of
cores wraps to a huge value and does not count as idle: the quieter the device,
the less it reclaims.

## 6. What the properties leave out

Situations the code allows and the properties therefore except, each visible in
the model:

* Scheduler. An SA with `independentUnload` that ends while its process runs on
  has no step that replays its kept requests, and the time stamp of the first kept
  request stays set; both wait for the end of the process. The overflow recovery
  decides under the lock and sends STOP after releasing it, and drops requests
  without answering them. A STOP that fails is reported and not repeated.
* Loading. No timer is set for loads that `CheckSystemAbility` began, whose start
  the host reported as failed, or that were asked for while an object or a
  request of an ended process was still listed (`unwatched`); the next request of
  another callback ends them.
* Listeners. The reports of `AddSystemAbility` and `RemoveSystemAbility` are posted
  outside the register's lock and may change places (`overtaken`); a listener may
  be told of an object removed since it was looked up (`stale`). A process listener
  that withdraws a low-memory subscription it does not have loses its death
  recipient. A direct unsubscription that found nothing may take away a newer
  subscription. In the manager of a user a listener that was passed over is marked
  as told (`skipped`), and a direct subscription it makes later is not told either;
  a subscription that races its own withdrawal may lose its record or its place in
  the list. `RemoveDiedSystemAbility` removes what is registered for the SA,
  also a living object registered since the crash, and invalidates no cache. An
  object that dies before its death recipient is added stays registered until it
  is replaced or removed.
* `TaskHandler`: a cancel between a task leaving the queue and its `DelTask` leaves
  one newer task out of reach. The tasks that reset the IPC priority and clear the
  FFRT statistics never call `DelTask` (`Kept`): `HasInnerEvent` goes on reporting
  them, which does no harm, since all its one reader does is `RemoveTask`. `TimeHandler`: a timer that expires between being
  armed and its function being inserted calls an empty function.
* Users: between its removal from one map and insertion into the other a stopping
  manager is not found.
* `IpcPrior`: a reset task that waits for the lock takes back a new request; a
  disable by a client without a request of its own takes another's; a thread that read the flag before it was
  cleared raises itself.
* `RemoteLoad`: a request that comes between the call of its callback and the
  callback's removal from the list is not answered.
* Collection. A removed loop takes its interval from others that use it; a loop
  whose interval is more than INT_MAX / 1000 seconds is accepted and gets no task
  unless it wakes the device, and the same holds for orders that far off in the
  manager of a user; a timer descriptor that cannot be had, which sends the other
  loops and orders to `PostDelayTask` as well, is not modelled; a loop
  removed and added within a period has two tasks; after a restart only the orders
  up to the first one in the file are set; a crash between report and decision
  loses the order; switch events are not sent again after the service has
  restarted; a refused subscription on its arrival is not repeated; a trigger that
  falls into the gap before the countdown's reset is lost; a device change
  between list and registration is missed, and a callback that overlaps the report
  of missed events may leave the older report as the last (`torn`).
* `SamgrCache`: two invalidations within one tick, a parameter that cannot be set,
  on-demand ids that could not be fetched, overlapping calls for one id, an object
  of the process that another covers or removes, and a living object that
  `RemoveDiedSystemAbility` erased. A dead object is served until its obituary
  arrives.

## 7. Not modelled

* Profile parser (`src/services/common/src/parse_util.cpp`): JSON to records field
  by field, once, at start; no state that operations change.
* `collect/device_timed_collect_tool.cpp`: time strings and due times; its file
  operations are steps of `TimedCollect`.
* Registry client (`service_registry.cpp`), `rpc_callback_imp.cpp`, `main.cpp`,
  the start-up of the manager: single steps under one lock, or executed once.
* `delayUnloadTime` limits, lists of running processes and the other queries of the
  scheduler: they read and change nothing the properties speak of.
* Dumper, event reports, watchdogs, string utilities: text.
* Rust bindings: wrappers over the proxies.
