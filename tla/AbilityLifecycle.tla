-------------------------- MODULE AbilityLifecycle --------------------------
(***************************************************************************)
(* What SystemAbilityStateScheduler promises about the states of system    *)
(* abilities (SAs) and of the processes that host them, without queues,    *)
(* timers, pending requests or counts.  AbilityScheduler implements it.    *)
(***************************************************************************)
CONSTANTS
    SAs, Procs,
    ProcOf,             \* the process of each SA
    IndependentUnload   \* the SAs that unload without their process

VARIABLES saState, procState

vars == <<saState, procState>>

Hosted(p) == {s \in SAs : ProcOf[s] = p}

Init ==
    /\ saState = [s \in SAs |-> "NOT_LOADED"]
    /\ procState = [p \in Procs |-> "NOT_STARTED"]

Become(s, state) ==
    /\ saState' = [saState EXCEPT ![s] = state]
    /\ UNCHANGED procState

(* A load starts only where it is not lost: not in a process that is being *)
(* stopped.                                                                *)
StartLoading(s) ==
    /\ saState[s] = "NOT_LOADED" /\ procState[ProcOf[s]] # "STOPPING"
    /\ Become(s, "LOADING")

(* An SA registers, or an idle one is wanted again.                        *)
Load(s) ==
    /\ saState[s] \in {"NOT_LOADED", "LOADING", "UNLOADABLE"}
    /\ Become(s, "LOADED")

(* Only an SA of a running process becomes idle; unloading it by itself is *)
(* for the SAs that unload independently.                                  *)
Idle(s) ==
    /\ saState[s] = "LOADED" /\ procState[ProcOf[s]] # "NOT_STARTED"
    /\ \/ Become(s, "UNLOADABLE")
       \/ s \in IndependentUnload /\ Become(s, "UNLOADING")

Withdraw(s) == saState[s] # "NOT_LOADED" /\ Become(s, "NOT_LOADED")

StartProcess(p) ==
    /\ procState[p] = "NOT_STARTED"
    /\ procState' = [procState EXCEPT ![p] = "STARTED"]
    /\ UNCHANGED saState

(* A running process is stopped only when none of its SAs is in use or     *)
(* being loaded and some are idle; idle ones are told to unload.           *)
StopProcess(p, told) ==
    /\ procState[p] # "NOT_STARTED"
    /\ \A s \in Hosted(p) : saState[s] \in {"NOT_LOADED", "UNLOADABLE", "UNLOADING"}
    /\ \E s \in Hosted(p) : saState[s] # "NOT_LOADED"
    /\ \A s \in told : saState[s] = "UNLOADABLE"
    /\ procState' = [procState EXCEPT ![p] = "STOPPING"]
    /\ saState' = [s \in SAs |-> IF s \in told THEN "UNLOADING" ELSE saState[s]]

(* The end of a process ends its SAs; some may be loaded again at once.    *)
EndProcess(p, again) ==
    /\ procState[p] # "NOT_STARTED"
    /\ procState' = [procState EXCEPT ![p] = "NOT_STARTED"]
    /\ saState' = [s \in SAs |-> IF s \in again THEN "LOADING"
                                 ELSE IF s \in Hosted(p) THEN "NOT_LOADED"
                                 ELSE saState[s]]

Next ==
    \/ \E s \in SAs : StartLoading(s) \/ Load(s) \/ Idle(s) \/ Withdraw(s)
    \/ \E p \in Procs :
        \/ StartProcess(p)
        \/ \E S \in SUBSET Hosted(p) : StopProcess(p, S) \/ EndProcess(p, S)

Spec == Init /\ [][Next]_vars
=============================================================================
