-------------------------- MODULE ProcessListeners --------------------------
(***************************************************************************)
(* The listeners of the state scheduler of one user's manager: those of    *)
(* processListeners_ hear of a process starting and stopping, those of     *)
(* procListenerMap_ of low-memory processes becoming active and idle.  A   *)
(* listener of processListeners_ has a direct subscription, one made for   *)
(* all users, which only hears of the foreground user, or both.            *)
(***************************************************************************)
EXTENDS Naturals, FiniteSets, FiniteSetsExt

CONSTANTS Listeners, Procs, Null, MAX_SUBSCRIBE_COUNT, MaxCalls, MaxChanges

Sources == {"direct", "foreground"}

VARIABLES
    sources,     \* processListeners_: listener -> its subscriptions
    entries,     \* procListenerMap_: process -> listener -> how often it is listed
    named,       \* the processes that procListenerMap_ has a list for
    count,       \* subscribeProcCountMap_ of the process the listeners are in
    recipients,  \* listener -> death recipients the IPC framework holds for it
    dead, notices,
    call,        \* the call for the list of low-memory processes that is going on, or Null
    foreground,  \* the user of this manager is the foreground user
    running,     \* the process that is started and stopped
    idle,        \* process -> it is idle
    round,       \* the notification that is going on, with its process lock held, or Null
    heard,       \* listener -> what it last heard of the process
    heardIdle,   \* listener, process -> what it last heard
    calls, changes,
    flags        \* "unwatched", "missed"

vars == <<sources, entries, named, count, recipients, dead, notices, call, foreground, running, idle, round,
          heard, heardIdle, calls, changes, flags>>
listVars == <<entries, named, count, call>>
procVars == <<foreground, running, idle, round, changes>>

Init ==
    /\ sources = [l \in Listeners |-> {}] /\ entries = [p \in Procs |-> [l \in Listeners |-> 0]]
    /\ named = {} /\ count = 0 /\ recipients = [l \in Listeners |-> 0]
    /\ dead = {} /\ notices = {} /\ call = Null
    /\ foreground = TRUE /\ running = FALSE /\ idle = [p \in Procs |-> FALSE] /\ round = Null
    /\ heard = [l \in Listeners |-> "nothing"]
    /\ heardIdle = [l \in Listeners |-> [p \in Procs |-> "nothing"]]
    /\ calls = 0 /\ changes = 0 /\ flags = {}

(* --------------------------- processListeners_ ---------------------------- *)

Call(l) == l \notin dead /\ calls < MaxCalls /\ calls' = calls + 1

AddDeathRecipient(l) == recipients' = [recipients EXCEPT ![l] = @ + 1]
RemoveDeathRecipient(l) == recipients' = [recipients EXCEPT ![l] = IF @ = 0 THEN 0 ELSE @ - 1]

SubscribeSystemProcess(l, source) ==
    /\ Call(l)
    /\ IF sources[l] = {} THEN AddDeathRecipient(l) ELSE UNCHANGED recipients
    /\ sources' = [sources EXCEPT ![l] = @ \cup {source}]
    /\ UNCHANGED <<listVars, dead, notices, procVars, heard, heardIdle, flags>>

\* Mutant: the recipient goes with the first of two subscriptions.
UnSubscribeSystemProcessUnwatched(l, source) ==
    /\ Call(l) /\ sources[l] # {}
    /\ sources' = [sources EXCEPT ![l] = @ \ {source}]
    /\ RemoveDeathRecipient(l)
    /\ heard' = IF sources'[l] = {} THEN [heard EXCEPT ![l] = "nothing"] ELSE heard
    /\ UNCHANGED <<listVars, dead, notices, procVars, heardIdle, flags>>

UnSubscribeSystemProcess(l, source) ==
    /\ Call(l) /\ sources[l] # {}
    /\ sources' = [sources EXCEPT ![l] = @ \ {source}]
    /\ IF sources'[l] = {} THEN RemoveDeathRecipient(l) ELSE UNCHANGED recipients
    /\ heard' = IF sources'[l] = {} THEN [heard EXCEPT ![l] = "nothing"] ELSE heard
    /\ UNCHANGED <<listVars, dead, notices, procVars, heardIdle, flags>>

\* NotifyProcessStarted and NotifyProcessStopped: the listeners are copied under the lock ...
HearsOfStart(l) == sources[l] # {} /\ ("direct" \in sources[l] \/ foreground)

StartOrStop ==
    /\ round = Null /\ changes < MaxChanges /\ changes' = changes + 1
    /\ running' = ~running
    /\ round' = {l \in Listeners : HearsOfStart(l)}
    /\ flags' = IF \E l \in Listeners : sources[l] # {} /\ ~HearsOfStart(l) THEN flags \cup {"missed"} ELSE flags
    /\ UNCHANGED <<sources, listVars, recipients, dead, notices, foreground, idle, heard, heardIdle, calls>>

\* ... and called without it, so that one may have unsubscribed meanwhile.
Tell(l) ==
    /\ round # Null /\ l \in round
    /\ round' = round \ {l}
    /\ heard' = [heard EXCEPT ![l] = IF sources[l] = {} THEN @ ELSE IF running THEN "started" ELSE "stopped"]
    /\ UNCHANGED <<sources, listVars, recipients, dead, notices, foreground, running, idle, heardIdle, calls,
                   changes, flags>>

RoundEnds ==
    /\ round = {} /\ round' = Null
    /\ UNCHANGED <<sources, listVars, recipients, dead, notices, foreground, running, idle, heard, heardIdle,
                   calls, changes, flags>>

SwitchUser ==
    /\ changes < MaxChanges /\ changes' = changes + 1
    /\ foreground' = ~foreground
    /\ UNCHANGED <<sources, listVars, recipients, dead, notices, running, idle, round, heard, heardIdle, calls,
                   flags>>

(* --------------------------- procListenerMap_ ----------------------------- *)

\* SubscribeLowMemSystemProcess and UnSubscribeLowMemSystemProcess visit the processes in turn,
\* each under procListenerMapLock_.
ListBegins(l, kind) ==
    /\ Call(l) /\ call = Null
    /\ call' = [listener |-> l, kind |-> kind, todo |-> Procs]
    /\ UNCHANGED <<sources, entries, named, count, recipients, dead, notices, procVars, heard, heardIdle, flags>>

AtLimit == count >= MAX_SUBSCRIBE_COUNT

\* The listener is looked for by its proxy, of which every call may have made a new one: a
\* listener that is listed may be found or listed once more.  At the limit the processes
\* visited before stay listed.
SubscribeSystemProcessList(p) ==
    LET l == call.listener
    IN  /\ call # Null /\ call.kind = "subscribe" /\ p \in call.todo
        /\ named' = named \cup {p}
        /\ \/ /\ entries[p][l] > 0 /\ call' = [call EXCEPT !.todo = @ \ {p}]
              /\ UNCHANGED <<entries, count, recipients>>
           \/ /\ AtLimit /\ call' = Null
              /\ UNCHANGED <<entries, count, recipients>>
           \/ /\ ~AtLimit /\ call' = [call EXCEPT !.todo = @ \ {p}]
              /\ entries' = [entries EXCEPT ![p][l] = @ + 1] /\ count' = count + 1
              /\ AddDeathRecipient(l)
        /\ UNCHANGED <<sources, dead, notices, procVars, heard, heardIdle, calls, flags>>

Uncount(p, l) == IF entries[p][l] > 0 THEN count - 1 ELSE count

\* The recipient is removed whether or not the listener was listed.
UnSubscribeSystemProcessList(p) ==
    LET l == call.listener
    IN  /\ call # Null /\ call.kind = "unsubscribe" /\ p \in call.todo
        /\ call' = [call EXCEPT !.todo = @ \ {p}]
        /\ IF p \in named
           THEN /\ entries' = [entries EXCEPT ![p][l] = IF @ = 0 THEN 0 ELSE @ - 1]
                /\ count' = Uncount(p, l)
                /\ RemoveDeathRecipient(l)
                /\ flags' = IF recipients'[l] = 0 /\ sources[l] # {} THEN flags \cup {"unwatched"} ELSE flags
                /\ heardIdle' = IF entries'[p][l] = 0 THEN [heardIdle EXCEPT ![l][p] = "nothing"] ELSE heardIdle
           ELSE UNCHANGED <<entries, count, recipients, flags, heardIdle>>
        /\ UNCHANGED <<sources, named, dead, notices, procVars, heard, calls>>

ListEnds ==
    /\ call # Null /\ call.todo = {} /\ call' = Null
    /\ UNCHANGED <<sources, entries, named, count, recipients, dead, notices, procVars, heard, heardIdle, calls,
                   flags>>

Told(p) ==
    heardIdle' = [l \in Listeners |->
        IF entries[p][l] = 0 THEN heardIdle[l]
        ELSE [heardIdle[l] EXCEPT ![p] = IF idle'[p] THEN "idle" ELSE "active"]]

\* NotifyProcessActivated and NotifyProcessIdled call the listeners with the lock held.
NotifyProcess(p) == Told(p)

ActivatedOrIdled(p) ==
    /\ changes < MaxChanges /\ changes' = changes + 1
    /\ idle' = [idle EXCEPT ![p] = ~@] /\ named' = named \cup {p}
    /\ NotifyProcess(p)
    /\ UNCHANGED <<sources, entries, count, call, recipients, dead, notices, foreground, running, round, heard,
                   calls, flags>>

(* -------------------------- death of a listener --------------------------- *)

Dies(l) ==
    /\ l \notin dead /\ dead' = dead \cup {l}
    /\ notices' = IF recipients[l] > 0 THEN notices \cup {l} ELSE notices
    /\ UNCHANGED <<sources, listVars, recipients, procVars, heard, heardIdle, calls, flags>>

\* UnSubscribeSystemProcess(remoteObject); procListenerMap_ keeps the listener and its count.
UnSubscribeDied(l) ==
    /\ l \in notices /\ notices' = notices \ {l}
    /\ sources' = [sources EXCEPT ![l] = {}]
    /\ UNCHANGED <<listVars, recipients, dead, procVars, heard, heardIdle, calls, flags>>

Next ==
    \/ \E l \in Listeners, s \in Sources : SubscribeSystemProcess(l, s) \/ UnSubscribeSystemProcess(l, s)
    \/ \E l \in Listeners : ListBegins(l, "subscribe") \/ ListBegins(l, "unsubscribe")
    \/ \E p \in Procs : \/ SubscribeSystemProcessList(p) \/ UnSubscribeSystemProcessList(p)
                        \/ ActivatedOrIdled(p)
    \/ ListEnds \/ StartOrStop \/ RoundEnds \/ SwitchUser
    \/ \E l \in Listeners : Tell(l) \/ Dies(l) \/ UnSubscribeDied(l)

Spec == Init /\ [][Next]_vars

(* ------------------------------- properties ------------------------------- *)

\* The count that is compared with the limit is the number of entries, through refused, repeated
\* and needless calls, and never passes the limit.  The entries of the dead are counted too.
ProcCountMatches ==
    /\ count = MapThenSumSet(LAMBDA p : MapThenSumSet(LAMBDA l : entries[p][l], Listeners), Procs)
    /\ count <= MAX_SUBSCRIBE_COUNT

\* A dead listener leaves processListeners_ once its death notice was handled, whichever of its
\* subscriptions were withdrawn before - unless it withdrew a low-memory subscription that it
\* did not have, which took the recipient its other subscription needs.
DeadLeave ==
    "unwatched" \notin flags => \A l \in dead : sources[l] # {} => l \in notices

\* Between notifications a living listener has last heard the state the process is in, if it has
\* heard anything - unless it only listens to the foreground user and the user was not.
HeardIsTrue ==
    \A l \in Listeners \ dead :
        /\ round = Null /\ "missed" \notin flags /\ heard[l] # "nothing" => heard[l] = IF running THEN "started" ELSE "stopped"
        /\ \A p \in Procs : heardIdle[l][p] # "nothing" => heardIdle[l][p] = IF idle[p] THEN "idle" ELSE "active"
=============================================================================
