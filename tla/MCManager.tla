----------------------------- MODULE MCManager -----------------------------
(***************************************************************************)
(* What the manager of all users does, for TLC: it routes requests to the  *)
(* managers of the users, fetches the abilities of other devices, tells    *)
(* DBinder of the distributed ones and tells of processes; its tasks run   *)
(* in FFRTHandler.  The parts share no state, so the instance is the sum   *)
(* of theirs: part says which of them a behaviour is about, and the others *)
(* stay where they start.                                                  *)
(***************************************************************************)
EXTENDS UserRouting, TLC

CONSTANTS Keys, Callbacks,             \* RemoteLoad
          Abilities, Softbus,          \* DelayedDBinder
          Names, Kept, NoName, NoTask, \* TaskHandler
          Listeners, Procs             \* ProcessListeners

VARIABLES
    part,
    \* RemoteLoad
    remoteCallbacks, threads, recipients, waiting, dead, notices, loads, flags,
    \* DelayedDBinder
    registered, at, dBinder, isInit, distributedSaList, proxies, started, initAt, removals,
    \* TaskHandler
    queued, running, taskMap, up, posts, renewals,
    \* ProcessListeners
    sources, entries, named, count, procRecipients, procDead, procNotices, call, inForeground,
    procRunning, idle, round, heard, heardIdle, calls, changes, procFlags

remoteVars == <<remoteCallbacks, threads, recipients, waiting, dead, notices, loads, flags>>
dbinderVars ==
    <<registered, at, dBinder, isInit, distributedSaList, proxies, started, initAt, removals>>
handlerVars == <<queued, running, taskMap, up, posts, renewals>>
procVars ==
    <<sources, entries, named, count, procRecipients, procDead, procNotices, call, inForeground,
      procRunning, idle, round, heard, heardIdle, calls, changes, procFlags>>

Remote == INSTANCE RemoteLoad WITH MaxRequests <- 5, requests <- loads

DBinder == INSTANCE DelayedDBinder WITH MaxRemovals <- 3

\* Enough submissions for a handle to be dropped twice, and one replacement of the queue.
Handler == INSTANCE TaskHandler WITH MaxPosts <- 5, MaxRenewals <- 1, waiting <- queued

Processes == INSTANCE ProcessListeners WITH
    MAX_SUBSCRIBE_COUNT <- 3, MaxCalls <- 4, MaxChanges <- 2, recipients <- procRecipients,
    dead <- procDead, notices <- procNotices, foreground <- inForeground,
    running <- procRunning, flags <- procFlags

ManagerInit ==
    /\ part \in {"routing", "remote", "dbinder", "handler", "process"}
    /\ Init /\ Remote!Init /\ DBinder!Init /\ Handler!Init /\ Processes!Init

ManagerNext ==
    \/ /\ part = "routing" /\ Next
       /\ UNCHANGED <<part, remoteVars, dbinderVars, handlerVars, procVars>>
    \/ /\ part = "remote" /\ Remote!Next
       /\ UNCHANGED <<part, vars, dbinderVars, handlerVars, procVars>>
    \/ /\ part = "dbinder" /\ DBinder!Next
       /\ UNCHANGED <<part, vars, remoteVars, handlerVars, procVars>>
    \/ /\ part = "handler" /\ Handler!Next
       /\ UNCHANGED <<part, vars, remoteVars, dbinderVars, procVars>>
    \/ /\ part = "process" /\ Processes!Next
       /\ UNCHANGED <<part, vars, remoteVars, dbinderVars, handlerVars>>

allVars == <<part, vars, remoteVars, dbinderVars, handlerVars, procVars>>

ManagerSpec == ManagerInit /\ [][ManagerNext]_allVars

\* The listeners and the processes of the last part are interchangeable.
Symmetry == Permutations(Listeners) \cup Permutations(Procs)

-----------------------------------------------------------------------------
(* The properties of the parts; each is stated, with the code it is about, *)
(* in the module of its part.                                              *)

\* An accepted request for a remote ability waits only while a thread of
\* DoLoadRemoteSystemAbility will answer it, and remoteCallbacks_ holds only what a thread
\* will remove: no answer is missed, and none given twice.
RemoteLoadsServed == Remote!WaitingIsServed /\ Remote!ListedIsServed

\* Once DBinder and a distributed or the softbus ability are both there, DBinder knows the
\* one and has been started for the other, whichever came first.
DBinderInStep == DBinder!DistributedAreKnown /\ DBinder!StartedWhenBothThere

\* HasInnerEvent of FFRTHandler reports only tasks that are going to run, and DelTask leaves
\* at most one task of a name out of the reach of RemoveTask.
TasksWithinReach == Handler!NoPhantomEvent /\ Handler!AtMostOneEscapes

\* A living listener of processes has last heard the state the process is in, a dead one
\* leaves processListeners_, and subscribeProcCountMap_ is the number of entries of a process.
ProcessListenersInStep ==
    Processes!HeardIsTrue /\ Processes!DeadLeave /\ Processes!ProcCountMatches
=============================================================================
