------------------------------ MODULE IpcPrior ------------------------------
(***************************************************************************)
(* SetSamgrIpcPrior: clients ask samgr to serve requests at high priority  *)
(* for a while.  priorRefCnt_ counts the requests, a task takes the        *)
(* priority back when none was made for five seconds, and every thread     *)
(* that serves a request while the priority is enabled raises itself.      *)
(***************************************************************************)
EXTENDS Naturals, FiniteSets

CONSTANTS Clients, Threads, MaxEnables, MaxServed

ASSUME ConstantsAssumption == IsFiniteSet(Clients) /\ MaxEnables \in Nat /\ MaxServed \in Nat

VARIABLES
    priorEnable,
    priorRefCnt,
    queued,     \* RESET_IPC_PRIOR is in the queue
    started,    \* the task has left the queue and waits for priorRefCntLock_
    raised,     \* highPrioTidSet_
    saw,        \* threads that have read priorEnable_ and wait for highPrioTidSetLock_
    holds,      \* client -> "no", "yes", or "expired" once the five seconds are over
    enables, served,
    flags       \* "early", "taken", "late"

vars == <<priorEnable, priorRefCnt, queued, started, raised, saw, holds, enables, served, flags>>

Init ==
    /\ priorEnable = FALSE /\ priorRefCnt = 0 /\ queued = FALSE /\ started = FALSE
    /\ raised = {} /\ saw = {} /\ holds = [c \in Clients |-> "no"]
    /\ enables = 0 /\ served = 0 /\ flags = {}

Enable(c) ==
    /\ enables < MaxEnables /\ enables' = enables + 1
    /\ holds' = [holds EXCEPT ![c] = "yes"]
    /\ priorEnable' = TRUE /\ priorRefCnt' = priorRefCnt + 1
    /\ queued' = TRUE          \* FlushResetPriorTask: the old task is cancelled
    /\ UNCHANGED <<started, raised, saw, served, flags>>

\* Nothing ties the call to a request of the caller: a client whose request has expired, or
\* that made none, takes away the request of another.
Disable(c) ==
    /\ holds' = [holds EXCEPT ![c] = "no"]
    /\ IF ~priorEnable \/ priorRefCnt = 0
       THEN UNCHANGED <<priorEnable, priorRefCnt, queued, raised, flags>>
       ELSE /\ priorRefCnt' = priorRefCnt - 1
            /\ flags' = IF holds[c] # "yes" THEN flags \cup {"taken"} ELSE flags
            /\ IF priorRefCnt = 1 THEN priorEnable' = FALSE /\ raised' = {} /\ queued' = FALSE
               ELSE UNCHANGED <<priorEnable, raised, queued>>
    /\ UNCHANGED <<started, saw, enables, served>>

\* The queue takes the task: it can no longer be cancelled.
TaskStarts ==
    /\ queued /\ ~started
    /\ queued' = FALSE /\ started' = TRUE
    /\ holds' = [c \in Clients |-> IF holds[c] = "yes" THEN "expired" ELSE holds[c]]
    /\ UNCHANGED <<priorEnable, priorRefCnt, raised, saw, enables, served, flags>>

\* Mutant: the count is left as it is.
ResetTimeoutCounts ==
    /\ started /\ started' = FALSE
    /\ priorEnable' = FALSE /\ raised' = {}
    /\ flags' = IF \E c \in Clients : holds[c] = "yes" THEN flags \cup {"early"} ELSE flags
    /\ UNCHANGED <<priorRefCnt, queued, saw, holds, enables, served>>

\* resetTimeoutTask
ResetTimeout ==
    /\ started /\ started' = FALSE
    /\ priorEnable' = FALSE /\ priorRefCnt' = 0 /\ raised' = {}
    /\ flags' = IF \E c \in Clients : holds[c] = "yes" THEN flags \cup {"early"} ELSE flags
    /\ UNCHANGED <<queued, saw, holds, enables, served>>

\* SetIpcPrior, at the beginning of every request: the flag is read without a lock.
Serve(t) ==
    /\ served < MaxServed /\ served' = served + 1
    /\ t \notin saw /\ priorEnable /\ saw' = saw \cup {t}
    /\ UNCHANGED <<priorEnable, priorRefCnt, queued, started, raised, holds, enables, flags>>

Raise(t) ==
    /\ t \in saw /\ saw' = saw \ {t} /\ raised' = raised \cup {t}
    /\ flags' = IF priorEnable THEN flags ELSE flags \cup {"late"}
    /\ UNCHANGED <<priorEnable, priorRefCnt, queued, started, holds, enables, served>>

Next ==
    \/ \E c \in Clients : Enable(c) \/ Disable(c)
    \/ TaskStarts \/ ResetTimeout
    \/ \E t \in Threads : Serve(t) \/ Raise(t)

Spec == Init /\ [][Next]_vars

(* ------------------------------- properties ------------------------------- *)

\* The priority is enabled exactly while it is counted for somebody, and then a task that
\* takes it back is in the queue or at work: it cannot stay for good.
CountedAndTimed ==
    /\ priorEnable <=> priorRefCnt > 0
    /\ priorEnable => queued \/ started

\* A client that has asked for the priority less than five seconds ago and has not given it
\* back has it - unless the task of an earlier request was waiting for the lock when it asked,
\* or a client without a request of its own gave it back in its place.
HolderHasPriority ==
    flags \cap {"early", "taken"} = {} => \A c \in Clients : holds[c] = "yes" => priorEnable

\* When the priority is disabled no thread of samgr is left raised, unless it read the flag
\* before it was cleared and raised itself after the others were reset.
NoThreadStaysRaised == "late" \notin flags => (raised # {} => priorEnable)

\* The flag, the count, the task that ends the priority and the threads that have it agree.
PriorityInStep == CountedAndTimed /\ HolderHasPriority /\ NoThreadStaysRaised
=============================================================================
