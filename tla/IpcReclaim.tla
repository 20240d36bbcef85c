----------------------------- MODULE IpcReclaim -----------------------------
(***************************************************************************)
(* When CommonEventCollect asks for IPC threads to be reclaimed: after a   *)
(* countdown that the screen going off starts and the screen going on      *)
(* cancels, and when the CPU monitor finds the device idle.  The events    *)
(* arrive on one thread, the countdown and the monitor are detached        *)
(* threads; they share the atomics isCancel_ and isTriggerTaskStart_.      *)
(***************************************************************************)
EXTENDS Naturals, FiniteSets

CONSTANTS Checks,     \* TRIGGER_THREAD_RECLAIM_DELAY_TIME / TRIGGER_THREAD_RECLAIM_DURATION_TIME
          Threads,    \* countdown threads that may exist at a time
          Width,      \* the bits of an unsigned long
          SHIFT,      \* CPU_LOAD_SHIFT
          Cores, Loads, Ticks,
          Null, MaxEvents, MaxSamples

VARIABLES
    isCancel, isTriggerTaskStart,
    receiver,     \* "idle", or "trigger" between the two writes of a triggering event
    countdown,    \* thread -> [at, n]: where it is and how many checks it has passed
    owed,         \* a trigger waits for its reclaim
    keepRunning, monitor,
    sample,       \* the last reading of the monitor, and whether it reclaimed
    events, samples,
    flags         \* "lost"

vars == <<isCancel, isTriggerTaskStart, receiver, countdown, owed, keepRunning, monitor, sample, events,
          samples, flags>>
monitorVars == <<keepRunning, monitor, sample, samples>>

Gone == [at |-> "none", n |-> 0]

Init ==
    /\ isCancel = FALSE /\ isTriggerTaskStart = FALSE /\ receiver = "idle"
    /\ countdown = [t \in Threads |-> Gone] /\ owed = FALSE
    /\ keepRunning = TRUE /\ monitor = "sleeping" /\ sample = Null
    /\ events = 0 /\ samples = 0 /\ flags = {}

Active == {t \in Threads : countdown[t].at # "none"}

(* -------------------------- StartReclaimIpcThreadWork --------------------- *)

\* Mutant: a trigger does not withdraw an older cancel.
TriggerKeepsCancel ==
    /\ receiver = "idle" /\ events < MaxEvents
    /\ events' = events + 1 /\ receiver' = "trigger"
    /\ UNCHANGED <<isCancel, isTriggerTaskStart, countdown, owed, flags, monitorVars>>

\* SCREEN_OFF, or RECENT_CLEAR_ALL (which also reclaims at once).
Trigger ==
    /\ receiver = "idle" /\ events < MaxEvents
    /\ events' = events + 1 /\ receiver' = "trigger"
    /\ isCancel' = FALSE
    /\ UNCHANGED <<isTriggerTaskStart, countdown, owed, flags, monitorVars>>

\* The exchange, and the thread if there was none.
StartCountdown ==
    /\ receiver = "trigger" /\ receiver' = "idle"
    /\ isTriggerTaskStart' = TRUE /\ owed' = TRUE
    /\ IF isTriggerTaskStart
       THEN /\ flags' = IF \E t \in Active : countdown[t].at \in {"cancelled", "reclaimed"}
                        THEN flags \cup {"lost"} ELSE flags
            /\ UNCHANGED countdown
       ELSE /\ \E t \in Threads \ Active : countdown' = [countdown EXCEPT ![t] = [at |-> "check", n |-> 0]]
            /\ UNCHANGED flags
    /\ UNCHANGED <<isCancel, events, monitorVars>>

ScreenOn ==
    /\ receiver = "idle" /\ events < MaxEvents
    /\ events' = events + 1
    /\ isCancel' = TRUE /\ owed' = FALSE
    /\ UNCHANGED <<isTriggerTaskStart, receiver, countdown, flags, monitorVars>>

(* ------------------------ SendKernalReclaimIpcThread ---------------------- *)

\* One round of the loop: a look at isCancel_, and two seconds of sleep.
Check(t) ==
    /\ countdown[t].at = "check" /\ countdown[t].n < Checks
    /\ countdown' = [countdown EXCEPT ![t] = IF isCancel THEN [@ EXCEPT !.at = "cancelled"]
                                             ELSE [@ EXCEPT !.n = @ + 1]]
    /\ UNCHANGED <<isCancel, isTriggerTaskStart, receiver, owed, events, flags, monitorVars>>

Reclaim(t) ==
    /\ countdown[t].at = "check" /\ countdown[t].n = Checks
    /\ countdown' = [countdown EXCEPT ![t].at = "reclaimed"]
    /\ owed' = FALSE
    /\ UNCHANGED <<isCancel, isTriggerTaskStart, receiver, events, flags, monitorVars>>

End(t) ==
    /\ countdown[t].at \in {"cancelled", "reclaimed"}
    /\ countdown' = [countdown EXCEPT ![t] = Gone]
    /\ isTriggerTaskStart' = FALSE
    /\ UNCHANGED <<isCancel, receiver, owed, events, flags, monitorVars>>

(* ----------------------------- the CPU monitor ---------------------------- *)

\* Unsigned subtraction, and the distance GetCpuUsage takes when a counter has started again.
Minus(x, y) == (x + 2^Width - y) % 2^Width
Delta(before, after) == IF after >= before THEN after - before ELSE 2^Width - 1 - before + after

\* The usage is above 0% and at most CPU_LOAD_IDLE_THRESHOLD (a tenth); a reading that makes no
\* sense counts as 0%.
GetCpuUsageIsIdle(t0, i0, t1, i1) ==
    LET total == Delta(t0, t1)
        idle == Delta(i0, i1)
    IN  total # 0 /\ total > idle /\ 10 * (total - idle) <= total

MonitorReclaims(l1, l5, idle) ==
    /\ Minus(l1, Cores * 2^SHIFT) < 2^SHIFT
    /\ l1 < l5
    /\ idle

\* The device may be sampled once more after StopMonitorThread.
MonitorCpuUsageThread ==
    /\ monitor = "sleeping" /\ samples < MaxSamples
    /\ \E l1 \in Loads, l5 \in Loads, total \in Ticks, busy \in Ticks :
         LET idle == GetCpuUsageIsIdle(0, 0, total, IF busy > total THEN 0 ELSE total - busy)
         IN  sample' = [l1 |-> l1, l5 |-> l5, idle |-> idle, reclaims |-> MonitorReclaims(l1, l5, idle)]
    /\ monitor' = IF keepRunning THEN "sleeping" ELSE "ended"
    /\ samples' = samples + 1
    /\ UNCHANGED <<isCancel, isTriggerTaskStart, receiver, countdown, owed, keepRunning, events, flags>>

\* The thread is detached: nothing waits for it.
StopMonitorThread ==
    /\ keepRunning /\ keepRunning' = FALSE
    /\ UNCHANGED <<isCancel, isTriggerTaskStart, receiver, countdown, owed, monitor, sample, events, samples,
                   flags>>

Next ==
    \/ Trigger \/ StartCountdown \/ ScreenOn
    \/ \E t \in Threads : Check(t) \/ Reclaim(t) \/ End(t)
    \/ MonitorCpuUsageThread \/ StopMonitorThread

Spec == Init /\ [][Next]_vars

(* ------------------------------- properties ------------------------------- *)

\* isTriggerTaskStart_ is set exactly while one countdown thread is there, whatever order the
\* events and the thread's own last writes come in: a second countdown never starts beside the
\* first, and the flag is never left set with nobody to reset it.
OneCountdown == Cardinality(Active) = IF isTriggerTaskStart THEN 1 ELSE 0

\* A trigger that is not cancelled is followed by a reclaim - unless it came while the thread
\* had seen an older cancel, or had just reclaimed, and had not reset the flag: it is lost then.
TriggerIsServed == owed ~> (~owed \/ "lost" \in flags)

\* What the comments of MonitorCpuUsageThread say: a 1 minute load below the number of cores
\* plus one and below the 5 minute load, with a usage of at most 10%, reclaims.
IdleDeviceReclaims ==
    sample # Null =>
        (sample.l1 < (Cores + 1) * 2^SHIFT /\ sample.l1 < sample.l5 /\ sample.idle => sample.reclaims)
=============================================================================
