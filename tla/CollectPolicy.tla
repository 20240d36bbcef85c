---------------------------- MODULE CollectPolicy ---------------------------
(***************************************************************************)
(* On-demand policies and the plugins that collect their events.  An       *)
(* update of DeviceStatusCollectManager adds the new events plugin by      *)
(* plugin, in the order of the event ids, stores the policy and removes    *)
(* what nobody uses any more.  The plugins keep their own idea of what     *)
(* they collect (commonEventNames_, params_, isListenSwitchEvent_), which  *)
(* must agree with what the common event service and the parameter watcher *)
(* have been asked for, while those services come, go and refuse.          *)
(***************************************************************************)
EXTENDS Naturals, FiniteSets, Sequences

CONSTANTS SAs, Profile, Policies, \* [plugin, name] events; Profile[sa][type]
          Builtin,                \* names CommonEventCollect::Init adds by itself
          Conditions,             \* common events the conditions of the profile name
          Null, MaxUpdates, MaxCrashes

ASSUME ConstantsAssumption == MaxUpdates \in Nat /\ MaxCrashes \in Nat

Types == {"start", "stop"}
Plugins == <<"switch", "param", "common", "timed">>

VARIABLES
    policy,       \* onDemandSaProfiles_
    updating,     \* [sa, type, events, left]: the update that holds saProfilesLock_, or Null
    names,        \* commonEventNames_
    subscribed,   \* what the common event service sends
    params, pending,
    watched,      \* what the parameter watcher reports
    listening,    \* isListenSwitchEvent_
    switchSent,   \* the service sends the switch events
    ces, watcher, \* the two services are up
    tasks,        \* tasks their arrival has posted and that have not run
    updates, crashes,
    leftover,     \* names of updates that failed in a later plugin
    flags         \* "refused", "noSwitch", "unwatched", "dropped", "restarted"

vars == <<policy, updating, names, subscribed, params, pending, watched, listening, switchSent, ces,
          watcher, tasks, updates, crashes, leftover, flags>>
serviceVars == <<ces, watcher, tasks, crashes>>

Of(plugin, events) == {e.name : e \in {x \in events : x.plugin = plugin}}
Used(pol) == UNION {pol[sa][t] : sa \in SAs, t \in Types}

Init ==
    /\ policy = Profile /\ updating = Null
    /\ names = Builtin \cup Conditions \cup Of("common", Used(Profile)) /\ subscribed = {}
    /\ params = {} /\ pending = Of("param", Used(Profile)) /\ watched = {}
    /\ listening = FALSE /\ switchSent = FALSE
    /\ ces = FALSE /\ watcher = FALSE /\ tasks = {}
    /\ updates = 0 /\ crashes = 0 /\ leftover = {} /\ flags = {}

(* ------------------------------ the services ------------------------------ *)

\* OnAddSystemAbility of the listeners the plugins have subscribed in OnStart.
CesStarts ==
    /\ ~ces /\ ces' = TRUE
    /\ tasks' = tasks \cup {"common"} \cup IF Of("switch", Used(Profile)) # {} THEN {"switch"} ELSE {}
    /\ UNCHANGED <<policy, updating, names, subscribed, params, pending, watched, listening, switchSent,
                   watcher, updates, crashes, leftover, flags>>

\* The subscriptions go with the service.
CesDies ==
    /\ ces /\ ces' = FALSE /\ crashes < MaxCrashes /\ crashes' = crashes + 1
    /\ subscribed' = {} /\ switchSent' = FALSE
    /\ flags' = IF listening THEN flags \cup {"restarted"} ELSE flags
    /\ UNCHANGED <<policy, updating, names, params, pending, watched, listening, watcher, tasks, updates,
                   leftover>>

WatcherStarts ==
    /\ ~watcher /\ watcher' = TRUE /\ tasks' = tasks \cup {"param"}
    /\ UNCHANGED <<policy, updating, names, subscribed, params, pending, watched, listening, switchSent,
                   ces, updates, crashes, leftover, flags>>

\* SUB_COMMON_EVENT; a refused subscription is only logged.
CreateCommonEventSubscriber ==
    /\ "common" \in tasks /\ tasks' = tasks \ {"common"}
    /\ \E ok \in IF ces THEN BOOLEAN ELSE {FALSE} :
         /\ subscribed' = IF ok THEN names ELSE subscribed
         /\ flags' = IF ok THEN flags \ {"refused"} ELSE IF ces THEN flags \cup {"refused"} ELSE flags
    /\ UNCHANGED <<policy, updating, names, params, pending, watched, listening, switchSent, ces, watcher,
                   updates, crashes, leftover>>

SubscribeSwitchEvent(ok) ==
    IF listening THEN UNCHANGED <<listening, switchSent>>
    ELSE listening' = ok /\ switchSent' = ok

SwitchTask ==
    /\ "switch" \in tasks /\ tasks' = tasks \ {"switch"}
    /\ \E ok \in IF ces THEN BOOLEAN ELSE {FALSE} :
         /\ SubscribeSwitchEvent(ok)
         /\ flags' = IF ok \/ listening \/ ~ces THEN flags ELSE flags \cup {"noSwitch"}
    /\ UNCHANGED <<policy, updating, names, subscribed, params, pending, watched, ces, watcher, updates,
                   crashes, leftover>>

\* Parameters that could not be watched are not tried again.
WatchParameters ==
    /\ "param" \in tasks /\ tasks' = tasks \ {"param"}
    /\ \E ok \in SUBSET pending :
         /\ params' = params \cup ok /\ watched' = watched \cup ok
         /\ flags' = IF pending \subseteq params \cup ok THEN flags ELSE flags \cup {"unwatched"}
    /\ pending' = {}
    /\ UNCHANGED <<policy, updating, names, subscribed, listening, switchSent, ces, watcher, updates, crashes,
                   leftover>>

(* --------------------------- AddCollectEvent ------------------------------ *)

\* Mutant: nothing is taken back.
CleanFailedNothing(added) == names' = names \cup added

\* The names this update has inserted are taken back.
CleanFailed(added) == names' = names

AddCommon(events, ok) ==
    LET asked == Of("common", events)
        added == asked \ names
    IN  /\ ok \/ added # {}
        /\ IF added = {} THEN UNCHANGED <<names, subscribed>>
           ELSE IF ok THEN ces /\ names' = names \cup added /\ subscribed' = names'
           ELSE /\ CleanFailed(added)
                /\ \E again \in IF ces THEN BOOLEAN ELSE {FALSE} :
                     subscribed' = IF again THEN names' ELSE subscribed
        /\ UNCHANGED <<params, watched, listening, switchSent>>

\* Watches one after the other and returns at the first that fails.
AddParam(events, ok) ==
    LET new == Of("param", events) \ params
    IN  /\ ok => new = {} \/ watcher
        /\ ~ok => new # {}
        /\ \E done \in (IF ok THEN {new} ELSE IF watcher THEN SUBSET new \ {new} ELSE {{}}) :
             params' = params \cup done /\ watched' = watched \cup done
        /\ UNCHANGED <<names, subscribed, listening, switchSent>>

AddSwitch(events, ok) ==
    /\ ok => listening \/ ces \/ Of("switch", events) = {}
    /\ ~ok => ~listening /\ Of("switch", events) # {}
    /\ IF Of("switch", events) = {} THEN UNCHANGED <<listening, switchSent>> ELSE SubscribeSwitchEvent(ok)
    /\ UNCHANGED <<names, subscribed, params, watched>>

\* DeviceTimedCollect refuses some of its events.
AddTimed(events, ok) ==
    /\ ~ok => Of("timed", events) # {}
    /\ UNCHANGED <<names, subscribed, params, watched, listening, switchSent>>

(* ------------------------- UpdateOnDemandEvents --------------------------- *)

UpdateBegins(sa, type, events) ==
    /\ updating = Null /\ updates < MaxUpdates /\ updates' = updates + 1
    /\ updating' = [sa |-> sa, type |-> type, events |-> events, left |-> Plugins]
    /\ UNCHANGED <<policy, names, subscribed, params, pending, watched, listening, switchSent, serviceVars,
                   leftover, flags>>

\* AddCollectEvents: the first plugin that fails ends the update, and what the earlier ones
\* have added stays.
AddNext ==
    /\ updating # Null /\ updating.left # <<>>
    /\ \E ok \in BOOLEAN :
         /\ CASE Head(updating.left) = "switch" -> AddSwitch(updating.events, ok)
              [] Head(updating.left) = "param" -> AddParam(updating.events, ok)
              [] Head(updating.left) = "common" -> AddCommon(updating.events, ok)
              [] OTHER -> AddTimed(updating.events, ok)
         /\ updating' = IF ok THEN [updating EXCEPT !.left = Tail(@)] ELSE Null
         /\ leftover' = IF ~ok /\ Head(updating.left) = "timed"
                        THEN leftover \cup Of("common", updating.events) ELSE leftover
    /\ UNCHANGED <<policy, pending, serviceVars, updates, flags>>

\* CheckEventUsedLocked asks the events of all policies for the name, not their conditions.
Unused(old, pol) == old \ Used(pol)

\* RemoveUnusedEvent of the plugins; the watcher may refuse to let a parameter go.
Store ==
    /\ updating # Null /\ updating.left = <<>>
    /\ updating' = Null
    /\ policy' = [policy EXCEPT ![updating.sa][updating.type] = updating.events]
    /\ LET gone == Unused(policy[updating.sa][updating.type], policy')
       IN  /\ names' = names \ Of("common", gone)
           /\ \E kept \in SUBSET (Of("param", gone) \cap params) :
                /\ params' = params \ (Of("param", gone) \ kept)
                /\ watched' = watched \ (Of("param", gone) \ kept)
           /\ flags' = IF Of("common", gone) \cap (Builtin \cup Conditions) # {}
                       THEN flags \cup {"dropped"} ELSE flags
    /\ UNCHANGED <<subscribed, pending, listening, switchSent, serviceVars, updates, leftover>>

Next ==
    \/ CesStarts \/ CesDies \/ WatcherStarts
    \/ CreateCommonEventSubscriber \/ SwitchTask \/ WatchParameters
    \/ \E sa \in SAs, type \in Types, events \in Policies : UpdateBegins(sa, type, events)
    \/ AddNext \/ Store

Spec == Init /\ [][Next]_vars

(* ------------------------------- properties ------------------------------- *)

Quiet == updating = Null /\ ces /\ watcher /\ tasks = {}

\* With both services up and their arrival handled, every event of every policy is collected:
\* the common events and parameters are asked for and the switch events are sent, after any
\* mix of accepted, refused and half failed updates - unless the answer to an arrival was a
\* refusal, or the switch events were lost with the service (isListenSwitchEvent_ stays set).
UsedIsCollected ==
    Quiet => /\ "refused" \notin flags => Of("common", Used(policy)) \subseteq subscribed
             /\ "unwatched" \notin flags => Of("param", Used(policy)) \subseteq watched
             /\ Of("switch", Used(policy)) # {} =>
                    switchSent \/ flags \cap {"restarted", "noSwitch"} # {}

\* The names CommonEventCollect will ask for next time are those it added itself and those of
\* the policies; a refused update leaves nothing behind, except the names of one that failed
\* later, in the timed plugin.
NamesAreUsed ==
    updating = Null => names \subseteq Builtin \cup Conditions \cup Of("common", Used(policy)) \cup leftover

\* The names samgr needs for itself, for conditions and to reclaim threads, stay - unless a
\* policy named one of them and dropped it, which nothing prevents.
OwnNamesStay == "dropped" \notin flags => Builtin \cup Conditions \subseteq names

\* What is asked of the services is what the policies and samgr itself use, no less and no more.
PolicyIsCollected == UsedIsCollected /\ NamesAreUsed /\ OwnNamesStay
=============================================================================
