---------------------------- MODULE TaskHandler ----------------------------
(***************************************************************************)
(* FFRTHandler: a serial FFRT queue of immediate and delayed tasks, with a *)
(* map from a task's name to the queue of its handles so that delayed      *)
(* tasks can be cancelled by name.                                         *)
(*                                                                         *)
(* Tasks are numbered in the order in which they are submitted, so a queue *)
(* of handles is a set of numbers whose front is its least element.  The   *)
(* tasks of one name are all submitted with the same delay and become due  *)
(* in that order.  The task of an unload, of an unload timeout or of a     *)
(* delayed common event calls DelTask with its own name before it does     *)
(* anything else; between leaving the queue and that call it can no longer *)
(* be cancelled.  The tasks that reset the IPC priority and that clear the *)
(* FFRT statistics never call it: their handles stay until the name is     *)
(* removed or the queue is replaced.                                       *)
(***************************************************************************)
EXTENDS Naturals, FiniteSets

CONSTANTS
    Names,          \* names of delayed tasks
    Kept,           \* those of tasks that do not call DelTask
    NoName,         \* tasks submitted without a name
    NoTask,         \* no task has left the queue
    MaxPosts,       \* bound: tasks submitted
    MaxRenewals     \* bound: calls of SetFfrt

VARIABLES
    waiting,    \* tasks in the FFRT queue, by queue and name
    running,    \* the task that has left each queue and has not yet called
                \* DelTask
    taskMap,    \* the handles of each name
    up,         \* queue_ is not null
    posts,      \* tasks submitted so far
    renewals    \* calls of SetFfrt so far

vars == <<waiting, running, taskMap, up, posts, renewals>>

(* SetFfrt replaces queue_ and then destroys the queue it has replaced.    *)
Queues == {"queue", "old"}
AllNames == Names \cup {NoName}
Tasks == AllNames \X Nat

TypeOK ==
    /\ waiting \in [Queues -> [AllNames -> SUBSET Nat]]
    /\ running \in [Queues -> Tasks \cup {NoTask}]
    /\ taskMap \in [Names -> SUBSET Nat]
    /\ up \in BOOLEAN
    /\ posts \in Nat
    /\ renewals \in Nat

Front(S) == CHOOSE i \in S : \A j \in S : i <= j

NoneWaiting == [n \in AllNames |-> {}]
NoHandles == [n \in Names |-> {}]

Init ==
    /\ waiting = [q \in Queues |-> NoneWaiting]
    /\ running = [q \in Queues |-> NoTask]
    /\ taskMap = NoHandles
    /\ up = TRUE
    /\ posts = 0 /\ renewals = 0

(* The three PostTask: the handle of a named task is kept.  A submission   *)
(* that fails changes nothing.                                             *)
PostTask(n) ==
    /\ up /\ posts < MaxPosts
    /\ posts' = posts + 1
    /\ waiting' = [waiting EXCEPT !["queue"][n] = @ \cup {posts}]
    /\ taskMap' = [m \in Names |-> IF m = n THEN taskMap[m] \cup {posts}
                                            ELSE taskMap[m]]
    /\ UNCHANGED <<running, up, renewals>>

(* FFRT: a task is due and the queue is free.                              *)
TaskDue(q, n) ==
    /\ running[q] = NoTask
    /\ waiting[q][n] # {}
    /\ LET i == Front(waiting[q][n]) IN
        /\ running' = [running EXCEPT ![q] = <<n, i>>]
        /\ waiting' = [waiting EXCEPT ![q][n] = @ \ {i}]
    /\ UNCHANGED <<taskMap, up, posts, renewals>>

(* DelTask takes the front handle of the name out of the map.  The faulty  *)
(* variant takes all handles.                                              *)
DelTaskAll(n) == taskMap' = [taskMap EXCEPT ![n] = {}]

DelTask(n) ==
    taskMap' = [taskMap EXCEPT ![n] = IF @ = {} THEN @ ELSE @ \ {Front(@)}]

(* The task that has left the queue runs.                                  *)
TaskRuns(q) ==
    /\ running[q] # NoTask
    /\ IF running[q][1] \in Names \ Kept THEN DelTask(running[q][1])
                                          ELSE UNCHANGED taskMap
    /\ running' = [running EXCEPT ![q] = NoTask]
    /\ UNCHANGED <<waiting, up, posts, renewals>>

(* RemoveTask cancels every task whose handle is in the map.  Cancelling   *)
(* reaches only what is still in a queue.                                  *)
RemoveTask(n) ==
    /\ waiting' = [waiting EXCEPT !["queue"][n] = @ \ taskMap[n]]
    /\ taskMap' = [taskMap EXCEPT ![n] = {}]
    /\ UNCHANGED <<running, up, posts, renewals>>

(* CleanFfrt: the queue is destroyed with everything that waits in it; a   *)
(* task that has left it runs to its end.                                  *)
CleanFfrt ==
    /\ up
    /\ up' = FALSE
    /\ taskMap' = NoHandles
    /\ waiting' = [waiting EXCEPT !["queue"] = NoneWaiting]
    /\ UNCHANGED <<running, posts, renewals>>

(* SetFfrt: a new queue takes the place of queue_, and the old one is      *)
(* destroyed after the lock has been released.                             *)
SetFfrt ==
    /\ renewals < MaxRenewals
    /\ waiting["old"] = NoneWaiting /\ running["old"] = NoTask
    /\ renewals' = renewals + 1
    /\ up' = TRUE
    /\ taskMap' = NoHandles
    /\ waiting' = [old |-> waiting["queue"], queue |-> NoneWaiting]
    /\ running' = [old |-> running["queue"], queue |-> NoTask]
    /\ UNCHANGED posts

QueueDestroyed ==
    /\ waiting["old"] # NoneWaiting
    /\ waiting' = [waiting EXCEPT !["old"] = NoneWaiting]
    /\ UNCHANGED <<running, taskMap, up, posts, renewals>>

Next ==
    \/ \E n \in AllNames : PostTask(n)
    \/ \E n \in Names : RemoveTask(n)
    \/ \E q \in Queues, n \in AllNames : TaskDue(q, n)
    \/ \E q \in Queues : TaskRuns(q)
    \/ CleanFfrt \/ SetFfrt \/ QueueDestroyed

Spec == Init /\ [][Next]_vars

-----------------------------------------------------------------------------
(* The tasks of a name that will still run in queue_.                      *)
Pending(n) ==
    waiting["queue"][n] \cup
        (IF running["queue"] # NoTask /\ running["queue"][1] = n
         THEN {running["queue"][2]} ELSE {})

(* HasInnerEvent never reports a task that is not going to run: every      *)
(* handle in the map belongs to a task which waits, or which is about to   *)
(* call DelTask.  A delayed unload is not set again while HasInnerEvent    *)
(* reports one, so it would be lost otherwise.  For a kept name            *)
(* HasInnerEvent goes on reporting tasks that have run; its one reader     *)
(* then calls RemoveTask, which cancels nothing.                           *)
NoPhantomEvent == \A n \in Names \ Kept : taskMap[n] \subseteq Pending(n)

(* As long as the queue is the first one, RemoveTask reaches all tasks of  *)
(* a name but one: DelTask drops the handle of a newer task when           *)
(* RemoveTask ran between a task leaving the queue and its DelTask, and    *)
(* the newer task is then out of reach.                                    *)
Escaped(n) == Pending(n) \ taskMap[n]
AtMostOneEscapes ==
    renewals = 0 => \A n \in Names : Cardinality(Escaped(n)) <= 1
=============================================================================
