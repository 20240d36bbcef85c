-------------------------- MODULE DeviceNetworking --------------------------
(***************************************************************************)
(* DeviceNetworkingCollect: which devices are online, as the device        *)
(* manager (DM) tells.  A task initialises DM, reads its list, reports     *)
(* what was missed and registers the callback; it is posted again after a  *)
(* second when a step fails, and after the death of DM.  DM's callbacks    *)
(* come on their own thread; they and the task share the set of devices,   *)
(* whose lock each of them holds for one access at a time.                 *)
(***************************************************************************)
EXTENDS Naturals, Sequences, FiniteSets

CONSTANTS Devices, Null, MaxChanges, MaxCrashes, MaxFailures

VARIABLES
    dm,           \* the device manager is up
    trusted,      \* the devices that are online
    initialised,  \* DM knows whom to tell of its death
    registered,   \* DM has the state callback
    calls,        \* callbacks on their way: [device, online]
    deaths,       \* notices of DM's death on their way
    tasks,        \* INIT_EVENT and DM_DIED_EVENT tasks posted
    callback,     \* what the callback that has changed the set is about to report, or Null
    at, list,     \* where the running task is, and what it has still to take from DM's list
    online,       \* deviceOnlineSet_
    reported,     \* the last value reported: "on" or "off"
    changes, crashes, failures,
    flags         \* "gap", "late", "torn"

vars == <<dm, trusted, initialised, registered, calls, deaths, tasks, callback, at, list, online,
          reported, changes, crashes, failures, flags>>

\* ReportMissedEvents from its look at the set to its report.
Midway == {"clear", "readd", "add", "on", "off"}

Init ==
    /\ dm = FALSE /\ trusted = {} /\ initialised = FALSE /\ registered = FALSE
    /\ calls = <<>> /\ deaths = 0
    /\ tasks = 1 /\ callback = Null /\ at = "idle" /\ list = {}
    /\ online = {} /\ reported = "off"
    /\ changes = 0 /\ crashes = 0 /\ failures = 0 /\ flags = {}

(* ------------------------- the device manager ----------------------------- *)

Change(d) ==
    /\ changes < MaxChanges /\ changes' = changes + 1
    /\ trusted' = IF d \in trusted THEN trusted \ {d} ELSE trusted \cup {d}
    /\ calls' = IF dm /\ registered THEN Append(calls, [device |-> d, online |-> d \notin trusted])
                ELSE calls
    /\ flags' = IF dm /\ at \in Midway \cup {"listed", "applied"} THEN flags \cup {"gap"} ELSE flags
    /\ UNCHANGED <<dm, initialised, registered, deaths, tasks, callback, at, list, online,
                   reported, crashes, failures>>

DmStarts ==
    /\ ~dm /\ dm' = TRUE
    /\ UNCHANGED <<trusted, initialised, registered, calls, deaths, tasks, callback, at, list,
                   online, reported, changes, crashes, failures, flags>>

DmDies ==
    /\ dm /\ dm' = FALSE /\ crashes < MaxCrashes /\ crashes' = crashes + 1
    /\ initialised' = FALSE /\ registered' = FALSE /\ calls' = <<>>
    /\ deaths' = IF initialised THEN deaths + 1 ELSE deaths
    /\ UNCHANGED <<trusted, tasks, callback, at, list, online, reported, changes, failures,
                   flags>>

(* ----------------------------- the callbacks ------------------------------ *)

OnRemoteDied ==
    /\ deaths > 0 /\ deaths' = deaths - 1
    /\ tasks' = tasks + 1
    /\ UNCHANGED <<dm, trusted, initialised, registered, calls, callback, at, list, online,
                   reported, changes, crashes, failures, flags>>

\* The set is changed under its lock ...
Handle(set, report) ==
    /\ calls' = Tail(calls)
    /\ online' = set /\ callback' = report
    /\ flags' = IF at \in Midway THEN flags \cup {"torn"}
                ELSE IF report # Null THEN flags \ {"torn"} ELSE flags
    /\ UNCHANGED <<dm, trusted, initialised, registered, deaths, tasks, at, list, reported,
                   changes, crashes, failures>>

OnDeviceOnline ==
    /\ callback = Null /\ calls # <<>> /\ Head(calls).online
    /\ Handle(online \cup {Head(calls).device}, "on")

OnDeviceOffline ==
    /\ callback = Null /\ calls # <<>> /\ ~Head(calls).online
    /\ LET left == online \ {Head(calls).device}
       IN  Handle(left, IF left = {} THEN "off" ELSE Null)

\* ... and reported after it is released.
CallbackReports ==
    /\ callback # Null
    /\ reported' = callback /\ callback' = Null
    /\ flags' = IF at \in Midway THEN flags \cup {"torn"} ELSE flags
    /\ UNCHANGED <<dm, trusted, initialised, registered, calls, deaths, tasks, at, list, online,
                   changes, crashes, failures>>

(* ------------------------ AddDeviceChangeListener ------------------------- *)

\* A step fails when DM is not there, or for reasons of its own.
Fails == ~dm \/ failures < MaxFailures

Failed ==
    /\ failures' = IF dm THEN failures + 1 ELSE failures
    /\ tasks' = tasks + 1 /\ at' = "idle"

\* IsDmReady and InitDeviceManager
InitDeviceManager ==
    /\ at = "idle" /\ tasks > 0
    /\ \/ /\ dm /\ at' = "initialised" /\ initialised' = TRUE
          /\ tasks' = tasks - 1 /\ UNCHANGED failures
       \/ /\ ~dm \/ failures < MaxFailures
          /\ failures' = IF dm THEN failures + 1 ELSE failures
          /\ UNCHANGED <<at, tasks, initialised>>
    /\ UNCHANGED <<dm, trusted, registered, calls, deaths, callback, list, online, reported,
                   changes, crashes, flags>>

GetTrustedDeviceList ==
    /\ at = "initialised"
    /\ \/ dm /\ list' = trusted /\ at' = "listed" /\ UNCHANGED <<failures, tasks>>
          /\ flags' = (flags \cap {"torn"}) \cup IF calls = <<>> THEN {} ELSE {"late"}
       \/ Fails /\ Failed /\ UNCHANGED <<list, flags>>
    /\ UNCHANGED <<dm, trusted, initialised, registered, calls, deaths, callback, online,
                   reported, changes, crashes>>

\* ReportMissedEvents looks whether a device is online, and goes on from there although the
\* callbacks may change the set.
ReportMissedEvents ==
    /\ at = "listed"
    /\ at' = IF online # {} THEN "clear" ELSE IF list # {} THEN "add" ELSE "applied"
    /\ flags' = IF callback # Null THEN flags \cup {"torn"} ELSE flags
    /\ UNCHANGED <<dm, trusted, initialised, registered, calls, deaths, tasks, callback, list,
                   online, reported, changes, crashes, failures>>

\* Mutant: devices that have gone meanwhile stay in the set.
ClearDeviceOnlineSetKeeps ==
    /\ at = "clear" /\ at' = IF list = {} THEN "off" ELSE "readd"
    /\ UNCHANGED <<dm, trusted, initialised, registered, calls, deaths, tasks, callback, list,
                   online, reported, changes, crashes, failures, flags>>

ClearDeviceOnlineSet ==
    /\ at = "clear" /\ at' = IF list = {} THEN "off" ELSE "readd"
    /\ online' = {}
    /\ UNCHANGED <<dm, trusted, initialised, registered, calls, deaths, tasks, callback, list,
                   reported, changes, crashes, failures, flags>>

UpdateDeviceOnlineSet(d) ==
    /\ at \in {"add", "readd"} /\ d \in list
    /\ online' = online \cup {d} /\ list' = list \ {d}
    /\ at' = CASE list' # {} -> at [] at = "add" -> "on" [] OTHER -> "applied"
    /\ UNCHANGED <<dm, trusted, initialised, registered, calls, deaths, tasks, callback, reported,
                   changes, crashes, failures, flags>>

TaskReports ==
    /\ at \in {"on", "off"}
    /\ reported' = at /\ at' = "applied"
    /\ UNCHANGED <<dm, trusted, initialised, registered, calls, deaths, tasks, callback, list,
                   online, changes, crashes, failures, flags>>

RegisterDevStateCallback ==
    /\ at = "applied"
    /\ \/ dm /\ registered' = TRUE /\ at' = "idle" /\ UNCHANGED <<failures, tasks>>
       \/ Fails /\ Failed /\ registered' = FALSE
    /\ UNCHANGED <<dm, trusted, initialised, calls, deaths, callback, list, online, reported,
                   changes, crashes, flags>>

Task ==
    \/ InitDeviceManager \/ GetTrustedDeviceList \/ ReportMissedEvents \/ ClearDeviceOnlineSet
    \/ \E d \in Devices : UpdateDeviceOnlineSet(d)
    \/ TaskReports \/ RegisterDevStateCallback

Callback == OnDeviceOnline \/ OnDeviceOffline \/ CallbackReports

Next ==
    \/ \E d \in Devices : Change(d)
    \/ DmStarts \/ DmDies \/ OnRemoteDied
    \/ Callback \/ Task

Spec == Init /\ [][Next]_vars

(* ------------------------------- properties ------------------------------- *)

Settled == dm /\ registered /\ at = "idle" /\ calls = <<>> /\ deaths = 0 /\ tasks = 0

\* Once the callback is registered and what it was told is handled, deviceOnlineSet_ is the set
\* of devices online, through restarts of DM and failed attempts - unless a device came or went
\* between the reading of the list and the registration, or a callback of an earlier
\* registration was still on its way when the list was read and is applied after it.
OnlineIsTrue == (Settled /\ flags \cap {"gap", "late"} = {}) => online = trusted

\* What was last reported to the policies is whether a device is in the set, while nobody is
\* between a change of the set and its report - unless a callback overlapped the task in
\* ReportMissedEvents: the report of the one may then speak of a set the other has changed,
\* until the next callback reports.
ReportIsTrue ==
    (callback = Null /\ at \notin Midway /\ "torn" \notin flags)
    => (reported = "on") = (online # {})

\* After the last restart of DM and the last failure the callback is registered for good.
EndsUpRegistered == <>[]registered
=============================================================================
