--------------------------- MODULE AbilityLoading ---------------------------
(***************************************************************************)
(* How the manager starts an SA and answers those who asked for it:        *)
(* startingAbilityMap_ with the load callbacks, startingProcessMap_,       *)
(* onDemandAbilityMap_ and the four-second load timer.                     *)
(*                                                                         *)
(* The scheduler calls DoLoadSystemAbility and DoLoadOnDemandAbility with  *)
(* the lock of the process held, so one of them is in progress per         *)
(* process; between its own locks it interleaves with registrations,       *)
(* deaths and the tasks of workHandler_ (serial FIFO, with timers).        *)
(* AddSystemAbility has to pass the lock of the process (SendAbilityState- *)
(* Event) before it posts the task that answers the callbacks.             *)
(***************************************************************************)
EXTENDS Integers, Sequences, FiniteSets

CONSTANTS
    SAs, Procs, ProcOf,     \* SAs and the process of each
    Callbacks,              \* ISystemAbilityLoadCallback objects
    Pids, CallerOf,         \* the process that passes each callback
    MaxCallbacks,           \* MAX_SUBSCRIBE_COUNT
    MaxTasks,               \* bound: no post from outside beyond it
    MaxTimers,              \* bound: load timers of an SA and a callback
    MaxOutstanding,         \* bound: unanswered requests of a callback
    None

ASSUME LoadingAssumption ==
    /\ ProcOf \in [SAs -> Procs]
    /\ CallerOf \in [Callbacks -> Pids]
    /\ MaxCallbacks \in Nat /\ MaxTasks \in Nat
    /\ MaxTimers \in Nat /\ MaxOutstanding \in Nat

VARIABLES
    starting,       \* startingAbilityMap_: state and callbacks (LOCAL_DEVICE)
    callbackCount,  \* callbackCountMap_
    registered,     \* SAs in abilityMap_
    adding,         \* where AddSystemAbility is for each SA
    systemProcess,  \* processes in systemProcessMap_
    startingProc,   \* processes in startingProcessMap_
    died,           \* processes removed whose stop event has not been handled
    onDemand,       \* SAs in onDemandAbilityMap_
    loading,        \* the DoLoadSystemAbility in progress for each process
    workQueue,      \* tasks of workHandler_
    timers,         \* load timers waiting in workHandler_
    timerDue,       \* the load timer that has left the queue
    outstanding     \* requests of each callback that have not been answered

requestVars == <<starting, callbackCount>>
procVars == <<systemProcess, startingProc, died>>
timerVars == <<timers, timerDue>>
vars == <<requestVars, registered, adding, procVars, onDemand, loading, workQueue,
          timerVars, outstanding>>

NotStarting == [state |-> "NONE", callbacks |-> {}]
Idle == [at |-> "idle", sa |-> None, cb |-> None]

TypeOK ==
    /\ starting \in [SAs -> [state : {"NONE", "INIT", "STARTING"},
                             callbacks : SUBSET Callbacks]]
    /\ callbackCount \in [Pids -> 0..MaxCallbacks]
    /\ registered \subseteq SAs
    /\ adding \in [SAs -> {"idle", "stored", "cancelled"}]
    /\ systemProcess \subseteq Procs /\ startingProc \subseteq Procs /\ died \subseteq Procs
    /\ onDemand \subseteq SAs
    /\ \A p \in Procs : loading[p].at \in {"idle", "absent", "kept", "notUp", "started"}
    /\ timers \in [SAs \X Callbacks -> 0..MaxTimers]
    /\ timerDue \in (SAs \X Callbacks) \cup {None}
    /\ outstanding \in [Callbacks -> Int]

Init ==
    /\ starting = [s \in SAs |-> NotStarting]
    /\ callbackCount = [p \in Pids |-> 0]
    /\ registered = {}
    /\ adding = [s \in SAs |-> "idle"]
    /\ systemProcess = {} /\ startingProc = {} /\ died = {} /\ onDemand = {}
    /\ loading = [p \in Procs |-> Idle]
    /\ workQueue = <<>>
    /\ timers = [x \in SAs \X Callbacks |-> 0] /\ timerDue = None
    /\ outstanding = [c \in Callbacks |-> 0]

-----------------------------------------------------------------------------
PostTask(task) ==
    /\ Len(workQueue) < MaxTasks
    /\ workQueue' = Append(workQueue, task)

SchedulerFree(p) == loading[p] = Idle
Goes(p, at) == loading' = [loading EXCEPT ![p].at = at]

(* operator[] creates a missing entry.                                     *)
Entry(s) == IF starting[s].state = "NONE" THEN [NotStarting EXCEPT !.state = "INIT"]
                                          ELSE starting[s]

(* StartOnDemandAbilityInner: an entry in state INIT whose process is      *)
(* there is sent StartAbility once.                                        *)
Started(s, entry) ==
    IF entry.state = "INIT" /\ ProcOf[s] \in systemProcess
    THEN [entry EXCEPT !.state = "STARTING"] ELSE entry

(* RemoveStartingAbilityCallbackLocked for the callbacks C of entry s.     *)
Uncount(C) ==
    [p \in Pids |-> callbackCount[p] - Cardinality({c \in C : CallerOf[c] = p})]

-----------------------------------------------------------------------------
(* DoLoadSystemAbility.  An SA that is registered is reported by a task.   *)
DoLoad(s, c) ==
    /\ SchedulerFree(ProcOf[s])
    /\ outstanding[c] < MaxOutstanding /\ timers[<<s, c>>] < MaxTimers
    /\ IF s \in registered
       THEN /\ PostTask(<<"loaded", s, c>>)
            /\ outstanding' = [outstanding EXCEPT ![c] = @ + 1]
            /\ UNCHANGED loading
       ELSE /\ loading' = [loading EXCEPT ![ProcOf[s]] = [at |-> "absent", sa |-> s, cb |-> c]]
            /\ UNCHANGED <<workQueue, outstanding>>
    /\ UNCHANGED <<requestVars, registered, adding, procVars, onDemand, timerVars>>

(* The callback is kept, unless it is there already or its process has too *)
(* many; the entry of the SA is created in any case.                       *)
AtLimit(c) == callbackCount[CallerOf[c]] >= MaxCallbacks

KeepCallback(p) ==
    /\ loading[p].at = "absent"
    /\ LET s == loading[p].sa
           c == loading[p].cb IN
        IF c \in starting[s].callbacks \/ AtLimit(c)
        THEN /\ starting' = [starting EXCEPT ![s] = Entry(s)]
             /\ loading' = [loading EXCEPT ![p] = Idle]
             /\ UNCHANGED <<callbackCount, outstanding>>
        ELSE /\ starting' = [starting EXCEPT ![s] =
                    [Entry(s) EXCEPT !.callbacks = @ \cup {c}]]
             /\ callbackCount' = [callbackCount EXCEPT ![CallerOf[c]] = @ + 1]
             /\ outstanding' = [outstanding EXCEPT ![c] = @ + 1]
             /\ Goes(p, "kept")
    /\ UNCHANGED <<registered, adding, procVars, onDemand, workQueue, timerVars>>

(* StartingSystemProcess: in a running process the SA is started if the    *)
(* process has announced it (StartOnDemandAbilityLocked)...                *)
FindProcess(p) ==
    /\ loading[p].at = "kept"
    /\ LET s == loading[p].sa IN
        IF p \in systemProcess
        THEN /\ starting' = IF s \in onDemand
                            THEN [starting EXCEPT ![s] = Started(s, Entry(s))]
                            ELSE starting
             /\ Goes(p, "started")
        ELSE Goes(p, "notUp") /\ UNCHANGED starting
    /\ UNCHANGED <<callbackCount, registered, adding, procVars, onDemand, workQueue,
                   timerVars, outstanding>>

(* ...otherwise init is asked to start it, unless that is under way.       *)
StartProcess(p) ==
    /\ loading[p].at = "notUp"
    /\ \/ startingProc' = startingProc \cup {p}
       \/ p \notin startingProc /\ UNCHANGED startingProc    \* init refuses
    /\ Goes(p, "started")
    /\ UNCHANGED <<requestVars, registered, adding, systemProcess, died, onDemand, workQueue,
                   timerVars, outstanding>>

(* SendCheckLoadedMsg.                                                     *)
SetTimer(p) ==
    /\ loading[p].at = "started"
    /\ timers' = [timers EXCEPT ![<<loading[p].sa, loading[p].cb>>] = @ + 1]
    /\ loading' = [loading EXCEPT ![p] = Idle]
    /\ UNCHANGED <<requestVars, registered, adding, procVars, onDemand, workQueue,
                   timerDue, outstanding>>

(* DoLoadOnDemandAbility, for GetSystemAbility: no callback and no timer.  *)
DoLoadOnDemand(s) ==
    /\ SchedulerFree(ProcOf[s])
    /\ s \notin registered /\ starting[s].state # "STARTING" /\ s \in onDemand
    /\ starting' = [starting EXCEPT ![s] = Started(s, Entry(s))]
    /\ UNCHANGED <<callbackCount, registered, adding, procVars, onDemand, loading,
                   workQueue, timerVars, outstanding>>

-----------------------------------------------------------------------------
(* The host process.  AddSystemProcess replaces the object of an earlier   *)
(* process whose death has not been noticed, and is then all that notices. *)
AddProcess(p) ==
    /\ systemProcess' = systemProcess \cup {p}
    /\ startingProc' = startingProc \ {p}
    /\ UNCHANGED <<requestVars, registered, adding, died, onDemand, loading, workQueue,
                   timerVars, outstanding>>

(* RemoveSystemProcess; the scheduler hears of it when it gets its lock.   *)
RemoveProcess(p) ==
    /\ p \in systemProcess /\ p \notin died      \* bound: one stop event at a time
    /\ died' = died \cup {p}
    /\ systemProcess' = systemProcess \ {p}
    /\ UNCHANGED <<requestVars, registered, adding, startingProc, onDemand, loading,
                   workQueue, timerVars, outstanding>>

(* RemoveOnDemandSaInDiedProc, called by the scheduler for the stop event; *)
(* a process of the same name may be up again and have announced its SAs.  *)
ForgetOnDemand(p) ==
    /\ SchedulerFree(p)
    /\ p \in died
    /\ died' = died \ {p}
    /\ onDemand' = {s \in onDemand : ProcOf[s] # p}
    /\ UNCHANGED <<requestVars, registered, adding, systemProcess, startingProc, loading,
                   workQueue, timerVars, outstanding>>

(* AddOnDemandSystemAbilityInfo: a process announces an SA it can start;   *)
(* one that is wanted already is started by a task.                        *)
AddOnDemand(s) ==
    /\ ProcOf[s] \in systemProcess
    /\ onDemand' = onDemand \cup {s}
    /\ IF starting[s].state # "NONE" THEN PostTask(<<"start", s, None>>)
                                     ELSE UNCHANGED workQueue
    /\ UNCHANGED <<requestVars, registered, adding, procVars, loading, timerVars, outstanding>>

(* AddSystemAbility: stored in the map, load timers cancelled, then the    *)
(* state event, which waits for the lock of the process, and the report.   *)
AddAbility(s) ==
    /\ adding[s] = "idle" /\ Len(workQueue) < MaxTasks
    /\ registered' = registered \cup {s}
    /\ adding' = [adding EXCEPT ![s] = "stored"]
    /\ UNCHANGED <<requestVars, procVars, onDemand, loading, workQueue, timerVars, outstanding>>

CancelTimers(s) == timers' = [x \in SAs \X Callbacks |-> IF x[1] = s THEN 0 ELSE timers[x]]

AddCancels(s) ==
    /\ adding[s] = "stored"
    /\ CancelTimers(s)
    /\ adding' = [adding EXCEPT ![s] = "cancelled"]
    /\ UNCHANGED <<requestVars, registered, procVars, onDemand, loading, workQueue,
                   timerDue, outstanding>>

(* The faulty variant does not pass the lock before it posts the report.   *)
AddReportsUnordered(s) ==
    /\ adding[s] = "cancelled"
    /\ workQueue' = Append(workQueue, <<"added", s, None>>)
    /\ adding' = [adding EXCEPT ![s] = "idle"]
    /\ UNCHANGED <<requestVars, registered, procVars, onDemand, loading, timerVars, outstanding>>

AddReports(s) ==
    /\ adding[s] = "cancelled"
    /\ SchedulerFree(ProcOf[s])
    /\ workQueue' = Append(workQueue, <<"added", s, None>>)
    /\ adding' = [adding EXCEPT ![s] = "idle"]
    /\ UNCHANGED <<requestVars, registered, procVars, onDemand, loading, timerVars, outstanding>>

(* RemoveSystemAbility and RemoveDiedSystemAbility.                        *)
RemoveAbility(s) ==
    /\ s \in registered
    /\ registered' = registered \ {s}
    /\ UNCHANGED <<requestVars, adding, procVars, onDemand, loading, workQueue,
                   timerVars, outstanding>>

(* All callbacks of the entry of s get their answer and the entry goes.    *)
AnswerAll(s) ==
    /\ outstanding' = [c \in Callbacks |->
            IF c \in starting[s].callbacks THEN outstanding[c] - 1 ELSE outstanding[c]]
    /\ callbackCount' = Uncount(starting[s].callbacks)
    /\ starting' = [starting EXCEPT ![s] = NotStarting]

(* OnStartSystemAbilityFail, called by the host: the timers are cancelled  *)
(* and every callback hears of the failure.                                *)
StartFails(s) ==
    /\ s \notin registered /\ ProcOf[s] \in systemProcess
    /\ onDemand' = onDemand \cup {s}
    /\ IF starting[s].state = "NONE" THEN UNCHANGED <<requestVars, outstanding, timers>>
       ELSE CancelTimers(s) /\ AnswerAll(s)
    /\ UNCHANGED <<registered, adding, procVars, loading, workQueue, timerDue>>

-----------------------------------------------------------------------------
(* workHandler_: a task runs...                                            *)
RunTask ==
    /\ timerDue = None /\ workQueue # <<>>
    /\ workQueue' = Tail(workQueue)
    /\ LET task == Head(workQueue)
           s == task[2] IN
        \/ /\ task[1] = "start"         \* StartOnDemandAbility
           /\ starting' = IF starting[s].state = "NONE" THEN starting
                          ELSE [starting EXCEPT ![s] = Started(s, @)]
           /\ UNCHANGED <<callbackCount, outstanding>>
        \/ task[1] = "added" /\ AnswerAll(s)        \* NotifySystemAbilityLoaded
        \/ /\ task[1] \in {"loaded", "failed"}      \* the answer to one callback
           /\ outstanding' = [outstanding EXCEPT ![task[3]] = @ - 1]
           /\ UNCHANGED requestVars
    /\ UNCHANGED <<registered, adding, procVars, onDemand, loading, timerVars>>

(* ...or a load timer leaves the queue, and then asks whether the SA has   *)
(* been registered in the meantime.                                        *)
TimerFires(s, c) ==
    /\ timerDue = None /\ timers[<<s, c>>] > 0
    /\ timers' = [timers EXCEPT ![<<s, c>>] = @ - 1]
    /\ timerDue' = <<s, c>>
    /\ UNCHANGED <<requestVars, registered, adding, procVars, onDemand, loading,
                   workQueue, outstanding>>

(* CleanCallbackForLoadFailed: the callback is answered by a task.  The    *)
(* faulty variant leaves it in the list.                                   *)
CleanKeepsCallback(s, c) ==
    /\ startingProc' = startingProc \ {ProcOf[s]}
    /\ IF c \in starting[s].callbacks
       THEN workQueue' = Append(workQueue, <<"failed", s, c>>) ELSE UNCHANGED workQueue
    /\ UNCHANGED requestVars

CleanCallback(s, c) ==
    LET left == starting[s].callbacks \ {c} IN
    /\ startingProc' = startingProc \ {ProcOf[s]}
    /\ IF c \in starting[s].callbacks
       THEN /\ workQueue' = Append(workQueue, <<"failed", s, c>>)
            /\ callbackCount' = Uncount({c})
       ELSE UNCHANGED <<workQueue, callbackCount>>
    /\ starting' = [starting EXCEPT ![s] =
            IF left = {} THEN NotStarting ELSE [@ EXCEPT !.callbacks = left]]

TimerRuns ==
    /\ timerDue # None
    /\ timerDue' = None
    /\ IF timerDue[1] \in registered
       THEN UNCHANGED <<requestVars, startingProc, workQueue>>
       ELSE CleanCallback(timerDue[1], timerDue[2])
    /\ UNCHANGED <<registered, adding, systemProcess, died, onDemand, loading, timers,
                   outstanding>>

(* OnAbilityCallbackDied: the callback leaves all entries, and entries     *)
(* without callbacks go, also those that never had one.                    *)
Held(c) == {s \in SAs : c \in starting[s].callbacks}

CallbackDied(c) ==
    /\ starting' = [s \in SAs |->
            IF starting[s].callbacks \ {c} = {} THEN NotStarting
            ELSE [starting[s] EXCEPT !.callbacks = @ \ {c}]]
    /\ callbackCount' = [callbackCount EXCEPT ![CallerOf[c]] = @ - Cardinality(Held(c))]
    /\ outstanding' = [outstanding EXCEPT ![c] = @ - Cardinality(Held(c))]
    /\ UNCHANGED <<registered, adding, procVars, onDemand, loading, workQueue, timerVars>>

Load(p) == KeepCallback(p) \/ FindProcess(p) \/ StartProcess(p) \/ SetTimer(p)
Register(s) == AddCancels(s) \/ AddReports(s)

Next ==
    \/ \E s \in SAs, c \in Callbacks : DoLoad(s, c) \/ TimerFires(s, c)
    \/ \E p \in Procs : Load(p) \/ AddProcess(p) \/ RemoveProcess(p) \/ ForgetOnDemand(p)
    \/ \E s \in SAs :
        \/ DoLoadOnDemand(s) \/ AddOnDemand(s) \/ AddAbility(s) \/ Register(s)
        \/ RemoveAbility(s) \/ StartFails(s)
    \/ RunTask \/ TimerRuns
    \/ \E c \in Callbacks : CallbackDied(c)

(* Requests and registrations in progress go on.  The timers compete with  *)
(* the tasks of the serial queue, which takes them in the order they are   *)
(* due: the turn of each comes, however many others are set meanwhile.     *)
Fairness ==
    /\ \A p \in Procs : WF_vars(Load(p))
    /\ \A s \in SAs : SF_vars(Register(s))
    /\ \A s \in SAs, c \in Callbacks : SF_vars(TimerFires(s, c))
    /\ SF_vars(RunTask) /\ WF_vars(TimerRuns)

Spec == Init /\ [][Next]_vars /\ Fairness

-----------------------------------------------------------------------------
(* callbackCountMap_, against which the limit is checked, is the number of *)
(* callbacks a process has in all entries, through answers, timeouts,      *)
(* failed starts and deaths.                                               *)
CallbackCountMatches ==
    \A p \in Pids : callbackCount[p] =
        Cardinality({x \in SAs \X Callbacks :
            CallerOf[x[2]] = p /\ x[2] \in starting[x[1]].callbacks})

(* A request is answered exactly once: what has been accepted and not yet  *)
(* answered is in an entry or in a task, and nothing else is.              *)
InTasks(c) == {i \in 1..Len(workQueue) : workQueue[i][3] = c}
RequestsConserved ==
    \A c \in Callbacks : outstanding[c] =
        Cardinality({s \in SAs : c \in starting[s].callbacks}) + Cardinality(InTasks(c))

(* A request that waits in startingAbilityMap_ is watched: its timer runs, *)
(* it is about to be set, or the report of a registration is on its way.   *)
(* This rests on AddSystemAbility passing the lock of the process before   *)
(* it posts its report: a request whose look-up missed the registration is *)
(* kept before the report.                                                 *)
ReportComes(s) ==
    \/ adding[s] # "idle"
    \/ \E i \in 1..Len(workQueue) : workQueue[i][1] = "added" /\ workQueue[i][2] = s

WaitingIsWatched ==
    \A s \in SAs : \A c \in starting[s].callbacks :
        \/ timers[<<s, c>>] > 0 \/ timerDue = <<s, c>>
        \/ loading[ProcOf[s]].sa = s /\ loading[ProcOf[s]].cb = c
        \/ ReportComes(s)

(* No request is lost, answered twice or left with nothing that ends it,   *)
(* and the limit on requests is checked against the requests there are.    *)
RequestsAccounted == CallbackCountMatches /\ RequestsConserved /\ WaitingIsWatched

(* Every request that is kept is answered, or goes with its callback.      *)
RequestsEnd ==
    \A s \in SAs, c \in Callbacks :
        c \in starting[s].callbacks ~> c \notin starting[s].callbacks
=============================================================================
