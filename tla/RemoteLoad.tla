----------------------------- MODULE RemoteLoad -----------------------------
(***************************************************************************)
(* LoadSystemAbility on another device: the callback is kept under the key *)
(* of ability and device, a thread of its own makes the remote binder,     *)
(* calls the callback and removes it from the list.  A request whose       *)
(* callback is listed starts no thread.  Callbacks die at any time.        *)
(***************************************************************************)
EXTENDS Naturals, FiniteSets, Bags, BagsExt

CONSTANTS Keys, Callbacks, MaxRequests

VARIABLES
    remoteCallbacks,  \* the listed callbacks: <<key, callback>>
    threads,          \* bag of [key, callback, at]: "making", "answered"
    recipients,       \* callback -> death recipients the IPC framework holds for it
    waiting,          \* the accepted requests that were not answered since: <<key, callback>>
    dead, notices,
    requests,
    flags             \* "tooLate"

vars == <<remoteCallbacks, threads, recipients, waiting, dead, notices, requests, flags>>

Init ==
    /\ remoteCallbacks = {} /\ threads = EmptyBag /\ recipients = [c \in Callbacks |-> 0]
    /\ waiting = {} /\ dead = {} /\ notices = {} /\ requests = 0 /\ flags = {}

Making(k, c) == [key |-> k, callback |-> c, at |-> "making"]
Answered(k, c) == [key |-> k, callback |-> c, at |-> "answered"]

\* A callback that has died since the request was sent cannot be watched.
Watch(c) == IF c \in dead THEN recipients ELSE [recipients EXCEPT ![c] = @ + 1]

Accept(k, c) ==
    /\ requests < MaxRequests /\ requests' = requests + 1
    /\ waiting' = waiting \cup {<<k, c>>}

\* Mutant: the callback is looked for under any key.
LoadUnderAnyKey(k, c) ==
    /\ Accept(k, c)
    /\ IF \E other \in Keys : <<other, c>> \in remoteCallbacks
       THEN UNCHANGED <<remoteCallbacks, threads, recipients>>
       ELSE /\ remoteCallbacks' = remoteCallbacks \cup {<<k, c>>}
            /\ threads' = BagAdd(threads, Making(k, c))
            /\ recipients' = Watch(c)
    /\ flags' = IF <<k, c>> \in remoteCallbacks /\ ~BagIn(Making(k, c), threads) THEN {"tooLate"} ELSE flags
    /\ UNCHANGED <<dead, notices>>

\* A request that finds its callback listed relies on the thread of the earlier one, which may
\* have called it already.
LoadSystemAbility(k, c) ==
    /\ Accept(k, c)
    /\ IF <<k, c>> \in remoteCallbacks
       THEN /\ flags' = IF BagIn(Making(k, c), threads) THEN flags ELSE flags \cup {"tooLate"}
            /\ UNCHANGED <<remoteCallbacks, threads, recipients>>
       ELSE /\ remoteCallbacks' = remoteCallbacks \cup {<<k, c>>}
            /\ threads' = BagAdd(threads, Making(k, c))
            /\ recipients' = Watch(c)
            /\ UNCHANGED flags
    /\ UNCHANGED <<dead, notices>>

\* DoMakeRemoteBinder answers with a binder or with none; the callback is told either way.
OnLoadSACompleteForRemote(k, c) ==
    /\ BagIn(Making(k, c), threads)
    /\ threads' = BagAdd(BagRemove(threads, Making(k, c)), Answered(k, c))
    /\ waiting' = waiting \ {<<k, c>>}
    /\ UNCHANGED <<remoteCallbacks, recipients, dead, notices, requests, flags>>

Forget(k, c) ==
    /\ BagIn(Answered(k, c), threads)
    /\ threads' = BagRemove(threads, Answered(k, c))
    /\ recipients' = [recipients EXCEPT ![c] = IF @ = 0 THEN 0 ELSE @ - 1]
    /\ remoteCallbacks' = remoteCallbacks \ {<<k, c>>}
    /\ UNCHANGED <<waiting, dead, notices, requests, flags>>

CallbackDies(c) ==
    /\ c \notin dead /\ dead' = dead \cup {c}
    /\ notices' = IF recipients[c] > 0 THEN notices \cup {c} ELSE notices
    /\ UNCHANGED <<remoteCallbacks, threads, recipients, waiting, requests, flags>>

\* OnRemoteCallbackDied visits the lists of all keys.
OnRemoteCallbackDied(c) ==
    /\ c \in notices /\ notices' = notices \ {c}
    /\ remoteCallbacks' = {e \in remoteCallbacks : e[2] # c}
    /\ recipients' = [recipients EXCEPT ![c] = 0]
    /\ UNCHANGED <<threads, waiting, dead, requests, flags>>

Next ==
    \/ \E k \in Keys, c \in Callbacks :
         LoadSystemAbility(k, c) \/ OnLoadSACompleteForRemote(k, c) \/ Forget(k, c)
    \/ \E c \in Callbacks : CallbackDies(c) \/ OnRemoteCallbackDied(c)

Spec == Init /\ [][Next]_vars

(* ------------------------------- properties ------------------------------- *)

\* A request that was accepted is answered: as long as it waits, a thread that will call its
\* callback is at work - unless the request came between the call of the callback for an earlier
\* request and its removal from the list.
WaitingIsServed ==
    "tooLate" \notin flags =>
        \A k \in Keys, c \in Callbacks : <<k, c>> \in waiting => BagIn(Making(k, c), threads)

\* The list holds only what a thread will remove, and a living callback never has a second thread
\* for the same ability and device: remoteCallbacks_ does not grow without end, and no answer is
\* given twice.
ListedIsServed ==
    \A k \in Keys, c \in Callbacks :
        /\ <<k, c>> \in remoteCallbacks => BagIn(Making(k, c), threads) \/ BagIn(Answered(k, c), threads)
        /\ c \notin dead => CopiesIn(Making(k, c), threads) + CopiesIn(Answered(k, c), threads) <= 1
=============================================================================
