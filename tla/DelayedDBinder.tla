--------------------------- MODULE DelayedDBinder ---------------------------
(***************************************************************************)
(* DBinder, the service for calls between devices, is set up when the      *)
(* first device comes online, and not at the start of samgr.  Distributed  *)
(* abilities registered before are remembered for it, and DBinder is       *)
(* started once both it and the softbus ability are there.  Abilities are  *)
(* registered by several threads; each passes abilityMapLock_ first and    *)
(* dBinderServiceLock_ then.                                               *)
(***************************************************************************)
EXTENDS Naturals, FiniteSets

CONSTANTS Abilities, Softbus, MaxRemovals

VARIABLES
    registered,         \* abilityMap_
    at,                 \* ability -> where its registration is
    dBinder,            \* dBinderService_ is there
    isInit,             \* isDbinderServiceInit_
    distributedSaList,
    proxies,            \* the abilities DBinder knows
    started,            \* DBinder was started
    initAt,             \* where InitDbinderService is
    removals

vars == <<registered, at, dBinder, isInit, distributedSaList, proxies, started, initAt, removals>>

All == Abilities \cup {Softbus}

Init ==
    /\ registered = {} /\ at = [a \in All |-> "idle"]
    /\ dBinder = FALSE /\ isInit = FALSE /\ distributedSaList = {} /\ proxies = {}
    /\ started = FALSE /\ initAt = "idle" /\ removals = 0

(* ----------------------------- AddSystemAbility --------------------------- *)

\* InitDbinderService holds dBinderServiceLock_ from its first step to its last.
LockFree == initAt = "idle"

\* The object is stored under abilityMapLock_; a registered ability may be registered again.
AddSystemAbility(a) ==
    /\ at[a] = "idle"
    /\ registered' = registered \cup {a} /\ at' = [at EXCEPT ![a] = "added"]
    /\ UNCHANGED <<dBinder, isInit, distributedSaList, proxies, started, initAt, removals>>

\* Mutant: an ability registered before DBinder is there is not remembered.
RegisterDistributeNow(a) ==
    /\ at[a] = "added" /\ LockFree /\ a # Softbus
    /\ proxies' = IF dBinder THEN proxies \cup {a} ELSE proxies
    /\ at' = [at EXCEPT ![a] = "idle"]
    /\ UNCHANGED <<registered, dBinder, isInit, distributedSaList, started, initAt, removals>>

RegisterDistribute(a) ==
    /\ at[a] = "added" /\ LockFree /\ a # Softbus
    /\ proxies' = IF dBinder THEN proxies \cup {a} ELSE proxies
    /\ distributedSaList' = IF ~dBinder /\ ~isInit THEN distributedSaList \cup {a} ELSE distributedSaList
    /\ at' = [at EXCEPT ![a] = "idle"]
    /\ UNCHANGED <<registered, dBinder, isInit, started, initAt, removals>>

\* The softbus ability is not distributed; it is what DBinder waits for.
StartForSoftbus ==
    /\ at[Softbus] = "added" /\ LockFree
    /\ started' = (started \/ dBinder)
    /\ at' = [at EXCEPT ![Softbus] = "idle"]
    /\ UNCHANGED <<registered, dBinder, isInit, distributedSaList, proxies, initAt, removals>>

RemoveSystemAbility(a) ==
    /\ a \in registered /\ removals < MaxRemovals /\ removals' = removals + 1
    /\ registered' = registered \ {a}
    /\ UNCHANGED <<at, dBinder, isInit, distributedSaList, proxies, started, initAt>>

(* --------------------------- InitDbinderService --------------------------- *)

\* GetInstance may return nothing; it is asked once.
InitDbinderService ==
    /\ initAt = "idle" /\ initAt' = "checking" /\ isInit' = TRUE
    /\ IF isInit THEN UNCHANGED <<dBinder, proxies, distributedSaList>>
       ELSE /\ dBinder' \in BOOLEAN
            /\ proxies' = IF dBinder' THEN distributedSaList ELSE proxies
            /\ distributedSaList' = IF dBinder' THEN {} ELSE distributedSaList
    /\ UNCHANGED <<registered, at, started, removals>>

\* CheckSystemAbility takes abilityMapLock_ with dBinderServiceLock_ held.
CheckSoftbus ==
    /\ initAt = "checking" /\ initAt' = "idle"
    /\ started' = (started \/ (dBinder /\ Softbus \in registered))
    /\ UNCHANGED <<registered, at, dBinder, isInit, distributedSaList, proxies, removals>>

Next ==
    \/ \E a \in All : AddSystemAbility(a) \/ RemoveSystemAbility(a) \/ RegisterDistribute(a)
    \/ StartForSoftbus \/ InitDbinderService \/ CheckSoftbus

Spec == Init /\ [][Next]_vars

(* ------------------------------- properties ------------------------------- *)

\* A distributed ability whose registration is over is known to DBinder once DBinder is there,
\* whichever came first and however the two were interleaved.
DistributedAreKnown ==
    \A a \in registered \ {Softbus} :
        dBinder /\ at[a] = "idle" => a \in proxies

\* When DBinder is set up and the softbus ability registered, DBinder has been started.
StartedWhenBothThere ==
    dBinder /\ LockFree /\ Softbus \in registered /\ at[Softbus] = "idle" => started
=============================================================================
