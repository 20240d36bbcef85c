---------------------------- MODULE MCListeners ----------------------------
(***************************************************************************)
(* AbilityListeners for TLC, in three instances: one listener beside two   *)
(* registrations on two IPC threads ("race"), one listener and one object  *)
(* that does not die in the manager of a user ("user"), and two listeners  *)
(* of one process of a user on two SAs that nobody registers, with a limit *)
(* of two subscriptions ("limit").  The variable part says which of them a *)
(* behaviour is about; the first two are in the same variables, and the    *)
(* ones a behaviour is not about stay where they start.                    *)
(***************************************************************************)
EXTENDS AbilityListeners, TLC

CONSTANT Others     \* the listeners of the last instance

VARIABLES
    part,
    \* AbilityListeners at its limit
    limitMap, limitListeners, limitCount, limitRecipients, limitWatched, limitDead, limitDeaths,
    limitQueue, limitThread, limitHeard, limitOvertaken, limitStale, limitCrashed, limitInfo,
    limitForeground, limitSkipped

limitVars ==
    <<limitMap, limitListeners, limitCount, limitRecipients, limitWatched, limitDead, limitDeaths,
      limitQueue, limitThread, limitHeard, limitOvertaken, limitStale, limitCrashed, limitInfo,
      limitForeground, limitSkipped>>

-----------------------------------------------------------------------------
(* All objects are of the first SA, all listeners of one process.          *)
MCSAOf == [o \in Objects |-> CHOOSE s \in SAs : TRUE]
MCPidOf == [l \in Listeners |-> CHOOSE p \in Pids : TRUE]

Limit == INSTANCE AbilityListeners WITH
    SAs <- {1, 2}, Objects <- {}, SAOf <- <<>>, Listeners <- Others,
    PidOf <- [l \in Others |-> CHOOSE p \in Pids : TRUE], Threads <- {"h"}, MaxSubscribe <- 2,
    MaxTasks <- 1, PerUser <- TRUE, MaxDeaths <- 2, abilityMap <- limitMap,
    listenerMap <- limitListeners, subscribeCount <- limitCount, recipients <- limitRecipients, watched <- limitWatched,
    dead <- limitDead, deaths <- limitDeaths, workQueue <- limitQueue, thread <- limitThread,
    heard <- limitHeard, overtaken <- limitOvertaken, stale <- limitStale,
    crashed <- limitCrashed, info <- limitInfo, foreground <- limitForeground,
    skipped <- limitSkipped

OneObject == {CHOOSE o \in Objects : TRUE}

User == INSTANCE AbilityListeners WITH
    Objects <- OneObject, SAOf <- [o \in OneObject |-> SAOf[o]], PerUser <- TRUE, MaxTasks <- 1,
    MaxDeaths <- 0

ListenersInit == part \in {"race", "user", "limit"} /\ Init /\ Limit!Init

ListenersNext ==
    \/ part = "race" /\ Next /\ UNCHANGED <<part, limitVars>>
    \/ part = "user" /\ User!Next /\ UNCHANGED <<part, limitVars>>
    \/ part = "limit" /\ Limit!Next /\ UNCHANGED <<part, vars>>

allVars == <<part, vars, limitVars>>

ListenersSpec == ListenersInit /\ [][ListenersNext]_allVars

Symmetry == Permutations(Objects) \cup Permutations(Threads) \cup Permutations(Others)

-----------------------------------------------------------------------------
(* The property of the last instance; AbilityListeners states it.          *)

\* subscribeCountMap_ is the number of listeners a process has in all lists, and at most
\* MAX_SUBSCRIBE_COUNT.
SubscribesCounted == Limit!SubscribeCountMatches
=============================================================================
