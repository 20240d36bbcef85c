------------------------------ MODULE MCCollect ------------------------------
(***************************************************************************)
(* The collection of events for TLC: the updates of policies, the handling *)
(* of events, the timed plugin and the one for devices.  They share no     *)
(* state, so the instance is the sum of theirs: part says which of them a  *)
(* behaviour is about, and the others stay where they start.  TimedCollect *)
(* is there four times: with loops, with a loop that is too long, with     *)
(* orders, and with the orders of a user.                                  *)
(***************************************************************************)
EXTENDS CollectPolicy

CONSTANTS NoId,
          x, y,                   \* system abilities
          a, b,                   \* events
          Devices

VARIABLES
    part,
    \* OnDemandEvents
    extraDataId, extraDatas, arriving, timers, removing, saIds, queue, current, saving, todo,
    acting, once, done, received, unrefs, removals, eventFlags,
    \* TimedCollect
    phase, timedPolicy, timedUpdating, loopSet, loopTasks, timeInfos, timedQueue, reports, prefs,
    past, owed, timedUpdates, timedCrashes, timedFlags,
    \* DeviceNetworking
    dm, trusted, initialised, registered, calls, deaths, dmTasks, callback, at, list, online,
    reported, changes, dmCrashes, failures, dmFlags

eventVars == <<extraDataId, extraDatas, arriving, timers, removing, saIds, queue, current, saving,
    todo, acting, once, done, received, unrefs, removals, eventFlags>>
timedVars == <<phase, timedPolicy, timedUpdating, loopSet, loopTasks, timeInfos, timedQueue,
    reports, prefs, past, owed, timedUpdates, timedCrashes, timedFlags>>
networkVars == <<dm, trusted, initialised, registered, calls, deaths, dmTasks, callback, at, list,
    online, reported, changes, dmCrashes, failures, dmFlags>>

-----------------------------------------------------------------------------
(* CollectPolicy: x starts at a common event and a parameter, y stops at   *)
(* the same common event.                                                  *)

Ev(plugin, name) == [plugin |-> plugin, name |-> name]

MCProfile ==
    [sa \in {x, y} |->
       [t \in {"start", "stop"} |->
          CASE sa = x /\ t = "start" -> {Ev("common", "a"), Ev("param", "p")}
            [] sa = y /\ t = "stop" -> {Ev("common", "a")}
            [] OTHER -> {}]]

MCPolicies ==
    {{}, {Ev("common", "b"), Ev("timed", "t")}, {Ev("common", "a"), Ev("common", "b"), Ev("param", "q")},
     {Ev("common", "screen_on"), Ev("common", "b"), Ev("switch", "wifi")}}

(* OnDemandEvents: x is started by a and b and stopped by b, y is started  *)
(* once by a.                                                              *)

Entry(e, only, priority, conditional) ==
    [event |-> e, once |-> only, priority |-> priority, conditional |-> conditional]

EventProfiles ==
    <<[sa |-> x, cache |-> TRUE,
       start |-> <<Entry(a, FALSE, 2, TRUE), Entry(b, FALSE, 2, FALSE)>>,
       stop |-> <<Entry(b, TRUE, 2, TRUE)>>],
      [sa |-> y, cache |-> TRUE,
       start |-> <<Entry(a, TRUE, 1, FALSE)>>,
       stop |-> <<>>]>>

Events == INSTANCE OnDemandEvents WITH
    SAs <- {x, y}, Events <- {a, b}, Profiles <- EventProfiles, MAX_EXTRA_DATA_ID <- 2,
    MaxReceived <- 3, MaxUnref <- 1, MaxRemoved <- 1, flags <- eventFlags

(* TimedCollect: one ability with a persistent loop and one with an        *)
(* ordinary one; updates to nothing, to either kind of loop, and one that  *)
(* is refused because of its persistent loop.  A month is too long for     *)
(* PostDelayTask.  With the orders: no loops; updates to nothing, to all   *)
(* orders with persistence, and to one without; the second is a month off. *)

Loop(i, p) == [name |-> "loopevent", value |-> i, persist |-> p]
Awake(i) == [name |-> "awakeloopevent", value |-> i, persist |-> FALSE]
AtTime(o, p) == [name |-> "timedevent", value |-> o, persist |-> p]

LoopProfile == [sa \in {x, y} |-> {IF sa = x THEN Loop(3600, TRUE) ELSE Loop(7200, FALSE)}]
LoopUpdates == {{}, {Loop(7200, FALSE)}, {Awake(7200)}, {Loop(3600, TRUE), Loop(7200, FALSE)}}
Month == 30 * 86400
LongProfile == [sa \in {x, y} |-> {IF sa = x THEN Loop(Month, TRUE) ELSE Loop(7200, FALSE)}]
LongUpdates == {{}, {Loop(Month, FALSE)}, {Awake(Month), Loop(7200, FALSE)}}
OrderUpdates == {{}, {AtTime(o, TRUE) : o \in {1, 2}}, {AtTime(1, FALSE)}}

Loops == INSTANCE TimedCollect WITH
    SAs <- {x, y}, Intervals <- {3600, 7200}, Orders <- {1}, Profile <- LoopProfile,
    TooLong <- {}, MultiUser <- FALSE, Policies <- LoopUpdates, MaxUpdates <- 3,
    MaxCrashes <- 1, policy <- timedPolicy,
    updating <- timedUpdating, queue <- timedQueue, updates <- timedUpdates,
    crashes <- timedCrashes, flags <- timedFlags

LongLoops == INSTANCE TimedCollect WITH
    SAs <- {x, y}, Intervals <- {7200, Month}, Orders <- {1}, Profile <- LongProfile,
    TooLong <- {Month}, MultiUser <- FALSE, Policies <- LongUpdates, MaxUpdates <- 2,
    MaxCrashes <- 1, policy <- timedPolicy,
    updating <- timedUpdating, queue <- timedQueue, updates <- timedUpdates,
    crashes <- timedCrashes, flags <- timedFlags

BaseOrders == INSTANCE TimedCollect WITH
    SAs <- {x, y}, Intervals <- {3600}, Orders <- {1, 2}, Profile <- [sa \in {x, y} |-> {}],
    TooLong <- {2}, MultiUser <- FALSE, Policies <- OrderUpdates, MaxUpdates <- 3,
    MaxCrashes <- 2, policy <- timedPolicy,
    updating <- timedUpdating, queue <- timedQueue, updates <- timedUpdates,
    crashes <- timedCrashes, flags <- timedFlags

UserOrders == INSTANCE TimedCollect WITH
    SAs <- {x, y}, Intervals <- {3600}, Orders <- {1, 2}, Profile <- [sa \in {x, y} |-> {}],
    TooLong <- {2}, MultiUser <- TRUE, Policies <- OrderUpdates, MaxUpdates <- 2,
    MaxCrashes <- 1, policy <- timedPolicy,
    updating <- timedUpdating, queue <- timedQueue, updates <- timedUpdates,
    crashes <- timedCrashes, flags <- timedFlags

Network == INSTANCE DeviceNetworking WITH
    MaxChanges <- 3, MaxCrashes <- 2, MaxFailures <- 2, tasks <- dmTasks, crashes <- dmCrashes,
    flags <- dmFlags

-----------------------------------------------------------------------------
CollectInit ==
    /\ part \in {"policy", "events", "loops", "longLoops", "orders", "userOrders", "network"}
    /\ Init /\ Events!Init /\ Network!Init
    /\ CASE part = "longLoops" -> LongLoops!Init
         [] part = "orders" -> BaseOrders!Init
         [] part = "userOrders" -> UserOrders!Init
         [] OTHER -> Loops!Init

CollectNext ==
    \/ /\ part = "policy" /\ Next
       /\ UNCHANGED <<part, eventVars, timedVars, networkVars>>
    \/ /\ part = "events" /\ Events!Next
       /\ UNCHANGED <<part, vars, timedVars, networkVars>>
    \/ /\ \/ part = "loops" /\ Loops!Next
          \/ part = "longLoops" /\ LongLoops!Next
       /\ UNCHANGED <<part, vars, eventVars, networkVars>>
    \/ /\ \/ part = "orders" /\ BaseOrders!Next
          \/ part = "userOrders" /\ UserOrders!Next
       /\ UNCHANGED <<part, vars, eventVars, networkVars>>
    \/ /\ part = "network" /\ Network!Next
       /\ UNCHANGED <<part, vars, eventVars, timedVars>>

allVars == <<part, vars, eventVars, timedVars, networkVars>>

CollectSpec == CollectInit /\ [][CollectNext]_allVars

-----------------------------------------------------------------------------
(* The properties of the parts; each is stated, with the code it is about, *)
(* in the module of its part.                                              *)

\* A once-only event is recorded exactly when it has acted successfully, once; an id in
\* saExtraDataIdMap_ has its extra data, and data that is kept has its removal posted.
EventsInStep ==
    part = "events" => Events!OnceMeansDoneOnce /\ Events!ListedHasData /\ Events!DataExpires

\* Every loop of a policy has its interval, its time info and one task in DeviceTimedCollect,
\* and a crash does not lose a persistent order it accepted.
TimedEventsKept ==
    /\ part = "loops" => Loops!LoopIsScheduled /\ Loops!OneTaskPerLoop
    /\ part = "longLoops" => LongLoops!LoopIsScheduled /\ LongLoops!OneTaskPerLoop
    /\ part = "orders" => BaseOrders!OrderNotLost
    /\ part = "userOrders" => UserOrders!OrderNotLost

\* deviceOnlineSet_ is the set of the devices online, once what DM sent is handled, and what
\* DeviceNetworkingCollect last reported is whether there is one.
OnlineIsTrue == part = "network" => Network!OnlineIsTrue /\ Network!ReportIsTrue
=============================================================================
