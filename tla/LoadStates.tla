----------------------------- MODULE LoadStates -----------------------------
(***************************************************************************)
(* AbilityLoading composed with the states the scheduler keeps of each SA  *)
(* and process while it loads: who moves an SA out of LOADING.             *)
(*                                                                         *)
(* The scheduler asks the manager to load with the lock of the process     *)
(* held and moves the SA to LOADING when the manager says yes.  It leaves  *)
(* LOADING by events the manager sends after its own step, when the thread *)
(* gets that lock.  Unloading is not part of this module (AbilityScheduler *)
(* has it), so an SA is NOT_LOADED, LOADING or LOADED and a process        *)
(* NOT_STARTED or STARTED.                                                 *)
(***************************************************************************)
EXTENDS AbilityLoading

CONSTANT MaxSent    \* bound: events a host sends while others are on their way

ASSUME StatesAssumption == MaxSent \in Nat \ {0}

VARIABLES
    saState,        \* SystemAbilityContext.state
    procState,      \* SystemProcessContext.state
    sent,           \* events whose sender waits for the lock of the process
    refused,        \* processes init has refused to start, for the load in progress
    unwatched       \* history: SAs LOADING since a step that leaves no load timer

stateVars == <<saState, procState, sent, refused, unwatched>>
allVars == <<vars, stateVars>>

StatesInit ==
    /\ Init
    /\ saState = [s \in SAs |-> "NOT_LOADED"]
    /\ procState = [p \in Procs |-> "NOT_STARTED"]
    /\ sent = {} /\ refused = {} /\ unwatched = {}

Moves(s, from, to) ==
    saState' = IF saState[s] \in from THEN [saState EXCEPT ![s] = to] ELSE saState

(* DoLoadSystemAbilityLocked, when the manager has answered ERR_OK.        *)
StartsLoading(s) == Moves(s, {"NOT_LOADED"}, "LOADING")

-----------------------------------------------------------------------------
(* HandleLoadAbilityEvent and DoLoadSystemAbility.  For an SA that is      *)
(* registered the manager answers at once and sets no timer: the event of  *)
(* the registration is still to come, or the object is a dead one whose    *)
(* process has ended already.                                              *)
Request(s, c) ==
    /\ DoLoad(s, c)
    /\ IF s \in registered
       THEN /\ StartsLoading(s)
            /\ unwatched' = IF saState[s] = "NOT_LOADED" THEN unwatched \cup {s} ELSE unwatched
       ELSE UNCHANGED <<saState, unwatched>>
    /\ UNCHANGED <<procState, sent, refused>>

(* A callback that is in the list already is fine, too, without a timer of *)
(* its own; one too many is refused.                                       *)
KeepRequest(p) ==
    /\ KeepCallback(p)
    /\ LET s == loading[p].sa IN
        IF loading[p].cb \in starting[s].callbacks
        THEN /\ StartsLoading(s)
             /\ unwatched' = IF saState[s] = "NOT_LOADED" THEN unwatched \cup {s} ELSE unwatched
        ELSE UNCHANGED <<saState, unwatched>>
    /\ UNCHANGED <<procState, sent, refused>>

AskInit(p) ==
    /\ StartProcess(p)
    /\ refused' = IF p \in startingProc' THEN refused ELSE refused \cup {p}
    /\ UNCHANGED <<saState, procState, sent, unwatched>>

(* The timer is set whatever init has said.                                *)
EndRequest(p) ==
    /\ SetTimer(p)
    /\ IF p \in refused THEN UNCHANGED saState ELSE StartsLoading(loading[p].sa)
    /\ refused' = refused \ {p}
    /\ unwatched' = unwatched \ {loading[p].sa}
    /\ UNCHANGED <<procState, sent>>

(* HandleLoadAbilityEvent for CheckSystemAbility: only in a process that   *)
(* runs, without a callback and without a timer.                           *)
Check(s) ==
    /\ SchedulerFree(ProcOf[s])
    /\ procState[ProcOf[s]] = "STARTED" /\ saState[s] = "NOT_LOADED"
    /\ \/ s \in registered /\ UNCHANGED vars
       \/ s \notin registered /\ starting[s].state = "STARTING" /\ UNCHANGED vars
       \/ DoLoadOnDemand(s) /\ starting'[s].state = "STARTING"
    /\ StartsLoading(s)
    /\ unwatched' = unwatched \cup {s}
    /\ UNCHANGED <<procState, sent, refused>>

(* The entry is made, but the process is not there to be told.             *)
CheckFails(s) ==
    /\ procState[ProcOf[s]] = "STARTED" /\ saState[s] = "NOT_LOADED"
    /\ DoLoadOnDemand(s) /\ starting'[s].state # "STARTING"
    /\ UNCHANGED stateVars

-----------------------------------------------------------------------------
(* The events.  A registration reports success before it posts its task.   *)
(* The faulty variant is accepted only by an SA nobody has asked for.      *)
RegisteredUnasked(s) ==
    /\ AddReports(s)
    /\ Moves(s, {"NOT_LOADED"}, "LOADED")
    /\ UNCHANGED <<procState, sent, refused, unwatched>>

Registered(s) ==
    /\ AddReports(s)
    /\ Moves(s, {"NOT_LOADED", "LOADING"}, "LOADED")
    /\ unwatched' = unwatched \ {s}
    /\ UNCHANGED <<procState, sent, refused>>

Send(e) == e \notin sent /\ sent' = sent \cup {e}
RoomToSend == Cardinality(sent) < MaxSent

(* RemoveSystemAbility by id sends an event; the death of the object does  *)
(* not (HandleAbilityDiedEvent is empty).                                  *)
Unregister(s) ==
    /\ RoomToSend /\ RemoveAbility(s)
    /\ Send(<<"unloaded", s>>)
    /\ UNCHANGED <<saState, procState, refused, unwatched>>

ObjectDied(s) == RemoveAbility(s) /\ UNCHANGED stateVars

(* The load timer sends "failed" from the serial queue, which waits for it. *)
(* The faulty variant sends nothing.                                       *)
TimeoutSendsNothing ==
    TimerRuns /\ UNCHANGED stateVars

Timeout ==
    /\ TimerRuns
    /\ IF timerDue[1] \in registered THEN UNCHANGED sent ELSE Send(<<"loadFailed", timerDue[1]>>)
    /\ UNCHANGED <<saState, procState, refused, unwatched>>

WorkFree == \A s \in SAs : <<"loadFailed", s>> \notin sent

(* HandleAbilityLoadFailedEventLocked, HandleAbilityUnLoadSuccessEvent-    *)
(* Locked.                                                                 *)
Deliver(e) ==
    /\ e \in sent /\ e[1] \in {"loadFailed", "unloaded"}
    /\ SchedulerFree(ProcOf[e[2]])
    /\ sent' = sent \ {e}
    /\ Moves(e[2], IF e[1] = "loadFailed" THEN {"LOADING"} ELSE {"LOADING", "LOADED"},
             "NOT_LOADED")
    /\ unwatched' = unwatched \ {e[2]}
    /\ UNCHANGED <<vars, procState, refused>>

ProcessUp(p) ==
    /\ RoomToSend /\ AddProcess(p)
    /\ Send(<<"started", p>>)
    /\ UNCHANGED <<saState, procState, refused, unwatched>>

ProcessStarted(p) ==
    /\ <<"started", p>> \in sent /\ SchedulerFree(p)
    /\ sent' = sent \ {<<"started", p>>}
    /\ procState' = [procState EXCEPT ![p] = "STARTED"]
    /\ UNCHANGED <<vars, saState, refused, unwatched>>

(* OnProcessNotStartedLocked; a process that is NOT_STARTED refuses the    *)
(* event and forgets nothing.                                              *)
ProcessStopped(p) ==
    IF procState[p] = "NOT_STARTED"
    THEN /\ p \in died /\ SchedulerFree(p)
         /\ died' = died \ {p}
         /\ UNCHANGED <<requestVars, registered, adding, systemProcess, startingProc, onDemand,
                        loading, workQueue, timerVars, outstanding, stateVars>>
    ELSE /\ ForgetOnDemand(p)
         /\ procState' = [procState EXCEPT ![p] = "NOT_STARTED"]
         /\ saState' = [s \in SAs |-> IF ProcOf[s] = p THEN "NOT_LOADED" ELSE saState[s]]
         /\ unwatched' = {s \in unwatched : ProcOf[s] # p}
         /\ UNCHANGED <<sent, refused>>

(* OnStartSystemAbilityFail cancels the timer and sends no event.          *)
StartFailed(s) ==
    /\ StartFails(s)
    /\ unwatched' = IF saState[s] = "LOADING" /\ starting[s].state # "NONE"
                    THEN unwatched \cup {s} ELSE unwatched
    /\ UNCHANGED <<saState, procState, sent, refused>>
-----------------------------------------------------------------------------
(* The steps of the manager the scheduler takes no part in.                *)
ManagerStep ==
    /\ \/ \E s \in SAs, c \in Callbacks : WorkFree /\ TimerFires(s, c)
       \/ WorkFree /\ RunTask
       \/ \E p \in Procs : FindProcess(p) \/ RemoveProcess(p)
       \/ \E s \in SAs : AddOnDemand(s) \/ AddAbility(s) \/ AddCancels(s)
       \/ \E c \in Callbacks : CallbackDied(c)
    /\ UNCHANGED stateVars

Requesting(p) ==
    \/ KeepRequest(p) \/ AskInit(p) \/ EndRequest(p)
    \/ (FindProcess(p) /\ UNCHANGED stateVars)

Registering(s) == Registered(s) \/ (AddCancels(s) /\ UNCHANGED stateVars)

StatesNext ==
    \/ ManagerStep
    \/ \E s \in SAs, c \in Callbacks : Request(s, c)
    \/ \E p \in Procs :
        \/ KeepRequest(p) \/ AskInit(p) \/ EndRequest(p)
        \/ ProcessUp(p) \/ ProcessStarted(p) \/ ProcessStopped(p)
    \/ \E s \in SAs :
        \/ Check(s) \/ CheckFails(s)
        \/ Registered(s) \/ Unregister(s) \/ ObjectDied(s) \/ StartFailed(s)
    \/ Timeout
    \/ \E e \in sent : Deliver(e)

(* As in AbilityLoading; who waits for the lock of a process gets it.      *)
StatesFairness ==
    /\ \A p \in Procs : WF_allVars(Requesting(p))
    /\ \A s \in SAs : SF_allVars(Registering(s))
    /\ \A s \in SAs, c \in Callbacks :
        SF_allVars(WorkFree /\ TimerFires(s, c) /\ UNCHANGED stateVars)
    /\ WF_allVars(WorkFree /\ RunTask /\ UNCHANGED stateVars)
    /\ WF_allVars(Timeout)
    /\ \A s \in SAs : SF_allVars(Deliver(<<"loadFailed", s>>))

StatesSpec == StatesInit /\ [][StatesNext]_allVars /\ StatesFairness

-----------------------------------------------------------------------------
(* An SA that is LOADING for a request with a callback does not wait for   *)
(* nothing: its load timer runs, its registration is in progress, or the   *)
(* event of the timeout waits for the lock.  The exceptions are the loads  *)
(* no timer was set for: those CheckSystemAbility began, those whose host  *)
(* reported that the start has failed, and those asked for while an object *)
(* or a request of an ended process was listed.  The next request of       *)
(* another callback sets a timer and ends them.                            *)
LoadingIsWatched ==
    \A s \in SAs : saState[s] = "LOADING" /\ s \notin unwatched =>
        \/ \E c \in Callbacks : timers[<<s, c>>] > 0 \/ timerDue = <<s, c>>
        \/ adding[s] # "idle"
        \/ <<"loadFailed", s>> \in sent

(* And it ends.                                                            *)
LoadingEnds ==
    \A s \in SAs : saState[s] = "LOADING" ~> saState[s] # "LOADING" \/ s \in unwatched
=============================================================================
