----------------------------- MODULE MCThreads -----------------------------
(***************************************************************************)
(* The threads of samgr for TLC: the priority of those that serve IPC, and *)
(* those that serve alarms.  They share no state, so the instance is the   *)
(* sum of theirs: part says which of them a behaviour is about, and the    *)
(* other stays where it starts.                                            *)
(***************************************************************************)
EXTENDS IpcPrior, TLC

CONSTANTS Fds, Tasks, TimerThreads, None     \* TimeHandler

VARIABLES part,
          timer, timeFunc, posting, thread, batch, current, called, early, terminated

timerVars == <<timer, timeFunc, posting, thread, batch, current, called, early, terminated>>

Timers == INSTANCE TimeHandler WITH Threads <- TimerThreads

ThreadsInit == part \in {"priority", "timers"} /\ Init /\ Timers!Init

ThreadsNext ==
    \/ part = "priority" /\ Next /\ UNCHANGED <<part, timerVars>>
    \/ part = "timers" /\ Timers!Next /\ UNCHANGED <<part, vars>>

ThreadsSpec == ThreadsInit /\ [][ThreadsNext]_<<part, vars, timerVars>>

\* The descriptors, functions and threads of the alarms are interchangeable.
Symmetry == Permutations(Fds) \cup Permutations(Tasks) \cup Permutations(TimerThreads)

-----------------------------------------------------------------------------
(* The properties of the alarms; each is stated, with the code it is       *)
(* about, in TimeHandler.                                                  *)

\* As long as timeFunc holds a function there is a thread to call it, and OnTime calls an
\* empty function only for a timer that expired before its insertion.
AlarmsAreServed == Timers!PendingIsServed /\ Timers!EmptyCallOnlyIfEarly
=============================================================================
