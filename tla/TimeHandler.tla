---------------------------- MODULE TimeHandler ----------------------------
(***************************************************************************)
(* SamgrTimeHandler: one-shot alarms on timer file descriptors, served by  *)
(* a detached thread that polls them and lives as long as timeFunc is not  *)
(* empty.                                                                  *)
(*                                                                         *)
(* PostTask takes no lock of its own: it creates and arms the timer,       *)
(* inserts the function (ConcurrentMap::FirstInsert, atomic) and starts a  *)
(* thread when the map was empty, in four steps.  A thread asks whether    *)
(* the map is empty, waits for readable timers, and for each of them       *)
(* reads, calls and closes, in steps that interleave with other threads.   *)
(* Descriptors are reused once closed.  The clock is abstract: an armed    *)
(* timer expires at any moment.                                            *)
(***************************************************************************)
EXTENDS Naturals, FiniteSets

CONSTANTS
    Fds,        \* timer descriptors
    Tasks,      \* functions to be called, each posted once
    Threads,    \* bound: threads ever started
    None

VARIABLES
    timer,      \* of each descriptor: closed, idle, armed, expired, or drained
                \* (its one expiration has been read)
    timeFunc,   \* the function of each descriptor (None: not in the map)
    posting,    \* where PostTask is for each task, and with which descriptor
    thread,     \* where each thread is
    batch,      \* readable descriptors the thread has still to handle
    current,    \* the descriptor a thread handles
    called,     \* functions that have been called
    early,      \* a timer expired before its function was in the map
    terminated  \* an empty function was called: the process is gone

vars == <<timer, timeFunc, posting, thread, batch, current, called, early, terminated>>

PostSteps == {"none", "created", "armed", "first", "done", "failed"}
ThreadSteps == {"unused", "check", "wait", "handle", "read", "blocked", "call",
                "erase", "close", "end"}

TypeOK ==
    /\ timer \in [Fds -> {"closed", "idle", "armed", "expired", "drained"}]
    /\ timeFunc \in [Fds -> Tasks \cup {None}]
    /\ posting \in [Tasks -> [at : PostSteps, fd : Fds \cup {None}]]
    /\ thread \in [Threads -> ThreadSteps]
    /\ batch \in [Threads -> SUBSET Fds]
    /\ current \in [Threads -> Fds \cup {None}]
    /\ called \subseteq Tasks
    /\ early \in BOOLEAN /\ terminated \in BOOLEAN

Init ==
    /\ timer = [f \in Fds |-> "closed"]
    /\ timeFunc = [f \in Fds |-> None]
    /\ posting = [t \in Tasks |-> [at |-> "none", fd |-> None]]
    /\ thread = [h \in Threads |-> "unused"]
    /\ batch = [h \in Threads |-> {}]
    /\ current = [h \in Threads |-> None]
    /\ called = {}
    /\ early = FALSE /\ terminated = FALSE

threadVars == <<thread, batch, current>>
outcomeVars == <<called, terminated>>

(* PostTask, first step: CreateAndRetry (an alarm timer, else a monotonic  *)
(* one) and EPOLL_CTL_ADD.  Without a descriptor PostTask returns false.   *)
CreateTimer(t) ==
    /\ posting[t].at = "none"
    /\ \/ \E f \in Fds :
            /\ timer[f] = "closed"
            /\ timer' = [timer EXCEPT ![f] = "idle"]
            /\ posting' = [posting EXCEPT ![t] = [at |-> "created", fd |-> f]]
       \/ /\ posting' = [posting EXCEPT ![t].at = "failed"]
          /\ UNCHANGED timer
    /\ UNCHANGED <<timeFunc, threadVars, early, outcomeVars>>

(* timerfd_settime; when it fails the descriptor is closed.                *)
ArmTimer(t) ==
    /\ posting[t].at = "created"
    /\ \/ /\ timer' = [timer EXCEPT ![posting[t].fd] = "armed"]
          /\ posting' = [posting EXCEPT ![t].at = "armed"]
       \/ /\ timer' = [timer EXCEPT ![posting[t].fd] = "closed"]
          /\ posting' = [posting EXCEPT ![t].at = "failed"]
    /\ UNCHANGED <<timeFunc, threadVars, early, outcomeVars>>

(* FirstInsert: the map is asked whether it is empty and extended at once. *)
(* The faulty variant asks after the insertion.                            *)
IsEmpty == \A f \in Fds : timeFunc[f] = None

InsertThenAsk(t) ==
    /\ posting[t].at = "armed"
    /\ timeFunc' = [timeFunc EXCEPT ![posting[t].fd] = t]
    /\ posting' = [posting EXCEPT ![t].at = IF IsEmpty' THEN "first" ELSE "done"]
    /\ UNCHANGED <<timer, threadVars, early, outcomeVars>>

FirstInsert(t) ==
    /\ posting[t].at = "armed"
    /\ timeFunc' = [timeFunc EXCEPT ![posting[t].fd] = t]
    /\ posting' = [posting EXCEPT ![t].at = IF IsEmpty THEN "first" ELSE "done"]
    /\ UNCHANGED <<timer, threadVars, early, outcomeVars>>

StartThread(t) ==
    /\ posting[t].at = "first"
    /\ posting' = [posting EXCEPT ![t].at = "done"]
    /\ \E h \in Threads :
        /\ thread[h] = "unused"
        /\ thread' = [thread EXCEPT ![h] = "check"]
    /\ UNCHANGED <<timer, timeFunc, batch, current, early, outcomeVars>>

(* The kernel: an armed timer expires.                                     *)
Expires(f) ==
    /\ timer[f] = "armed"
    /\ timer' = [timer EXCEPT ![f] = "expired"]
    /\ early' = (early \/ timeFunc[f] = None)
    /\ UNCHANGED <<timeFunc, posting, threadVars, outcomeVars>>

(* The loop of a thread: while timeFunc is not empty, wait for readable    *)
(* timers and handle them.                                                 *)
CheckEmpty(h) ==
    /\ thread[h] = "check"
    /\ thread' = [thread EXCEPT ![h] = IF IsEmpty THEN "end" ELSE "wait"]
    /\ UNCHANGED <<timer, timeFunc, posting, batch, current, early, outcomeVars>>

EpollWait(h) ==
    /\ thread[h] = "wait"
    /\ \E f \in Fds : timer[f] = "expired"
    /\ batch' = [batch EXCEPT ![h] = {f \in Fds : timer[f] = "expired"}]
    /\ thread' = [thread EXCEPT ![h] = "handle"]
    /\ UNCHANGED <<timer, timeFunc, posting, current, early, outcomeVars>>

NextEvent(h) ==
    /\ thread[h] = "handle"
    /\ IF batch[h] = {}
       THEN /\ thread' = [thread EXCEPT ![h] = "check"]
            /\ current' = [current EXCEPT ![h] = None]
            /\ UNCHANGED batch
       ELSE \E f \in batch[h] :
            /\ thread' = [thread EXCEPT ![h] = "read"]
            /\ current' = [current EXCEPT ![h] = f]
            /\ batch' = [batch EXCEPT ![h] = @ \ {f}]
    /\ UNCHANGED <<timer, timeFunc, posting, early, outcomeVars>>

(* read: one thread gets the expiration.  On a descriptor that is closed   *)
(* the read fails, on one that is not due it waits: for a timer that can   *)
(* still expire until it does, for one that has been read forever.         *)
Read(h) ==
    /\ thread[h] = "read"
    /\ LET f == current[h] IN
        \/ /\ timer[f] = "expired"
           /\ timer' = [timer EXCEPT ![f] = "drained"]
           /\ thread' = [thread EXCEPT ![h] = "call"]
        \/ /\ timer[f] = "closed"
           /\ thread' = [thread EXCEPT ![h] = "handle"]
           /\ UNCHANGED timer
        \/ /\ timer[f] = "drained"
           /\ thread' = [thread EXCEPT ![h] = "blocked"]
           /\ UNCHANGED timer
    /\ UNCHANGED <<timeFunc, posting, batch, current, early, outcomeVars>>

(* Find and the call.  What Find answers is only logged: without a         *)
(* function an empty std::function is called, which ends the process.      *)
CallFunction(h) ==
    /\ thread[h] = "call"
    /\ LET t == timeFunc[current[h]] IN
        IF t = None THEN terminated' = TRUE /\ UNCHANGED <<called, thread>>
        ELSE /\ called' = called \cup {t}
             /\ thread' = [thread EXCEPT ![h] = "erase"]
             /\ UNCHANGED terminated
    /\ UNCHANGED <<timer, timeFunc, posting, batch, current, early>>

(* Erase, then EPOLL_CTL_DEL and close.  The faulty variant closes first.  *)
EraseFunction(h) ==
    timeFunc' = [timeFunc EXCEPT ![current[h]] = None] /\ UNCHANGED timer

CloseTimer(h) ==
    timer' = [timer EXCEPT ![current[h]] = "closed"] /\ UNCHANGED timeFunc

CloseThenErase(h) ==
    /\ \/ /\ thread[h] = "erase"
          /\ CloseTimer(h)
          /\ thread' = [thread EXCEPT ![h] = "close"]
       \/ /\ thread[h] = "close"
          /\ EraseFunction(h)
          /\ thread' = [thread EXCEPT ![h] = "handle"]
    /\ UNCHANGED <<posting, batch, current, early, outcomeVars>>

FinishTimer(h) ==
    /\ \/ /\ thread[h] = "erase"
          /\ EraseFunction(h)
          /\ thread' = [thread EXCEPT ![h] = "close"]
       \/ /\ thread[h] = "close"
          /\ CloseTimer(h)
          /\ thread' = [thread EXCEPT ![h] = "handle"]
    /\ UNCHANGED <<posting, batch, current, early, outcomeVars>>

Post(t) == CreateTimer(t) \/ ArmTimer(t) \/ FirstInsert(t) \/ StartThread(t)
Serve(h) ==
    CheckEmpty(h) \/ EpollWait(h) \/ NextEvent(h) \/ Read(h) \/ CallFunction(h)
        \/ FinishTimer(h)

Next ==
    /\ ~terminated
    /\ \/ \E t \in Tasks : Post(t)
       \/ \E f \in Fds : Expires(f)
       \/ \E h \in Threads : Serve(h)

Spec == Init /\ [][Next]_vars

-----------------------------------------------------------------------------
(* Alive: the thread polls or will poll again.                             *)
Alive(h) == thread[h] \notin {"unused", "blocked", "end"}

(* As long as timeFunc holds a function there is a thread to call it, or   *)
(* PostTask is about to start one: the loop of OnTime may not end just     *)
(* when a function is inserted, nor may all threads wait in read.          *)
PendingIsServed ==
    IsEmpty \/ (\E h \in Threads : Alive(h))
            \/ (\E t \in Tasks : posting[t].at = "first")

(* The only way to an empty function is a timer that expires between       *)
(* timerfd_settime and FirstInsert: neither a second thread nor a reused   *)
(* descriptor leads OnTime to one.                                         *)
EmptyCallOnlyIfEarly == terminated => early

(* What PostTask has accepted is called, unless the process has ended.     *)
AcceptedIsCalled ==
    \A t \in Tasks : posting[t].at = "done" ~> (t \in called \/ terminated)
=============================================================================
