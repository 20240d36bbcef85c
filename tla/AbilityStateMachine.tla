------------------------ MODULE AbilityStateMachine ------------------------
(***************************************************************************)
(* The two state machines every system ability (SA) and every process that *)
(* hosts SAs go through: system_ability_state_machine.cpp and the context  *)
(* structures of system_ability_state_context.h.                           *)
(*                                                                         *)
(* A process context keeps, beside the states of its SAs, a map with the   *)
(* number of SAs in each state.  Every decision to stop or to kill the     *)
(* process reads that map and never the SAs themselves, so the operators   *)
(* below work on both at once: a context c is a record                     *)
(*   c.sa  - the state of every SA (only the SAs of the process move),     *)
(*   c.cnt - abilityStateCountMap of the process.                          *)
(***************************************************************************)
EXTENDS Integers, FiniteSets

CONSTANT SAs        \* the SAs of the profiles, samgr's own SA 0 excluded

ASSUME SAsFinite == IsFiniteSet(SAs)

AbilityStates == {"NOT_LOADED", "LOADING", "LOADED", "UNLOADABLE", "UNLOADING"}
ProcStates == {"NOT_STARTED", "STARTED", "STOPPING"}

Contexts == [sa : [SAs -> AbilityStates], cnt : [AbilityStates -> Int]]

-----------------------------------------------------------------------------
(* CanEnter of the five ability state handlers: the states from which each *)
(* state may be entered.  The first form is a faulty variant in which      *)
(* NotLoadedStateHandler does not expect an UNLOADABLE SA.                 *)
CanEnterForgetsUnloadable(from, to) ==
    \/ to = "NOT_LOADED" /\ from \notin {"NOT_LOADED", "UNLOADABLE"}
    \/ to = "LOADING"    /\ from = "NOT_LOADED"
    \/ to = "LOADED"     /\ from \in {"NOT_LOADED", "LOADING", "UNLOADABLE"}
    \/ to = "UNLOADABLE" /\ from = "LOADED"
    \/ to = "UNLOADING"  /\ from = "UNLOADABLE"

CanEnter(from, to) ==
    \/ to = "NOT_LOADED" /\ from # "NOT_LOADED"
    \/ to = "LOADING"    /\ from = "NOT_LOADED"
    \/ to = "LOADED"     /\ from \in {"NOT_LOADED", "LOADING", "UNLOADABLE"}
    \/ to = "UNLOADABLE" /\ from = "LOADED"
    \/ to = "UNLOADING"  /\ from = "UNLOADABLE"

(* CanEnter of the three process state handlers.                           *)
CanEnterProc(from, to) ==
    \/ to = "NOT_STARTED" /\ from # "NOT_STARTED"
    \/ to = "STARTED"     /\ from = "NOT_STARTED"
    \/ to = "STOPPING"    /\ from = "STARTED"

(* UpdateStateCount: each SA that moves takes one from the count of the    *)
(* state it leaves and adds one to the state it enters.  The faulty        *)
(* variant forgets the state that is left.                                 *)
UpdateStateCountOnlyAdds(c, moved, to) ==
    [x \in AbilityStates |-> IF x = to THEN c.cnt[x] + Cardinality(moved) ELSE c.cnt[x]]

UpdateStateCount(c, moved, to) ==
    [x \in AbilityStates |->
        IF x = to THEN c.cnt[x] + Cardinality(moved)
                  ELSE c.cnt[x] - Cardinality({s \in moved : c.sa[s] = x})]

(* AbilityStateTransitionLocked for the SAs of S, one of them in most      *)
(* handlers and several in the loops over saList.  An SA that may not      *)
(* enter the state, or whose present state is counted as empty, stays.     *)
AbilityStateTransition(c, S, to) ==
    LET moved == {s \in S : CanEnter(c.sa[s], to) /\ c.cnt[c.sa[s]] > 0}
    IN  [sa  |-> [s \in SAs |-> IF s \in moved THEN to ELSE c.sa[s]],
         cnt |-> UpdateStateCount(c, moved, to)]

(* ProcessStateTransitionLocked: a refused transition leaves the state.    *)
ProcessStateTransition(from, to) == IF CanEnterProc(from, to) THEN to ELSE from
=============================================================================
