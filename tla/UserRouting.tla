---------------------------- MODULE UserRouting -----------------------------
(***************************************************************************)
(* SystemAbilityManager hands every request to the manager of a user or    *)
(* serves it itself, as the base user, by the user of the caller and by    *)
(* whether the ability has an instance per user.  It reads the foreground  *)
(* user or the valid users first, finds the manager then and calls it      *)
(* last, under no common lock, while users are activated, switched and     *)
(* stopped.  A manager is named by its user and its incarnation.           *)
(***************************************************************************)
EXTENDS Naturals, FiniteSets

CONSTANTS Users, Base, Single, Multi, Clients, Null, MaxEvents, MaxRequests

ASSUME ConstantsAssumption ==
    /\ Base \notin Users /\ Null \notin Users \cup {Base} /\ Single \cap Multi = {}
    /\ MaxEvents \in Nat /\ MaxRequests \in Nat

VARIABLES
    managers,    \* multiUserManagers_: user -> incarnation of its manager, or 0; as validUserIds_
    contexts,    \* userStoppingContexts_: user -> incarnation, or 0
    leaving,     \* user -> manager taken out of the one map and not yet put in the other, or 0
    foreground,  \* foregroundUserId_
    born,        \* user -> managers made so far
    abilities,   \* the abilityMap_ of all managers: <<user, incarnation, ability>>
    request,     \* client -> its request
    events, requests

vars == <<managers, contexts, leaving, foreground, born, abilities, request, events, requests>>
userVars == <<managers, contexts, leaving, foreground, born, events>>

Callers == Users \cup {Base}
Valid == {u \in Users : managers[u] # 0}
Idle == [at |-> "idle"]
NoOne == [u \in Users |-> 0]

Init ==
    /\ managers = NoOne /\ contexts = NoOne /\ leaving = NoOne /\ born = NoOne
    /\ foreground = Null /\ abilities = {}
    /\ request = [c \in Clients |-> Idle] /\ events = 0 /\ requests = 0

(* --------------------------- life of the users ---------------------------- *)

\* A request remembers who was in the foreground since it began, who was valid all the time, and
\* whose manager was moved.
Seen(fg, stopped) ==
    request' = [c \in Clients |->
        IF request[c].at \in {"idle", "done"} THEN request[c]
        ELSE [request[c] EXCEPT !.foregrounds = @ \cup {fg}, !.throughout = @ \ stopped, !.moved = @ \cup stopped]]

Event == events < MaxEvents /\ events' = events + 1

HandleUserActivating(u) ==
    /\ Event /\ managers[u] = 0 /\ contexts[u] = 0 /\ leaving[u] = 0
    /\ born' = [born EXCEPT ![u] = @ + 1] /\ managers' = [managers EXCEPT ![u] = born'[u]]
    /\ UNCHANGED <<contexts, leaving, foreground, abilities, request, requests>>

HandleUserSwitching(u) ==
    /\ Event /\ managers[u] # 0 /\ foreground # u
    /\ foreground' = u /\ Seen(u, {})
    /\ UNCHANGED <<managers, contexts, leaving, born, abilities, requests>>

HandleUserStopping(u) ==
    /\ Event /\ managers[u] # 0
    /\ leaving' = [leaving EXCEPT ![u] = managers[u]] /\ managers' = [managers EXCEPT ![u] = 0]
    /\ foreground' = IF foreground = u THEN Null ELSE foreground
    /\ Seen(foreground', {u})
    /\ UNCHANGED <<contexts, born, abilities, requests>>

StartUserStopping(u) ==
    /\ leaving[u] # 0
    /\ contexts' = [contexts EXCEPT ![u] = leaving[u]] /\ leaving' = [leaving EXCEPT ![u] = 0]
    /\ Seen(foreground, {u})
    /\ UNCHANGED <<managers, foreground, born, abilities, events, requests>>

CompleteUserStopping(u) ==
    /\ contexts[u] # 0
    /\ abilities' = {e \in abilities : e[1] # u}
    /\ contexts' = [contexts EXCEPT ![u] = 0] /\ Seen(foreground, {u})
    /\ UNCHANGED <<managers, leaving, foreground, born, events, requests>>

(* -------------------------------- routing --------------------------------- *)

\* Mutant: every caller is sent to the foreground user.
RouteForeground(sa, caller) == IF sa \in Multi THEN foreground ELSE Base

RouteForUser(sa, caller) ==
    IF sa \notin Multi THEN Base ELSE IF caller = Base THEN foreground ELSE caller

RouteForSa(sa, caller) == (caller = Base) = (sa \in Single)

New(caller, kind, sa, target) ==
    [at |-> "routed", caller |-> caller, kind |-> kind, sa |-> sa, target |-> target, stopping |-> FALSE,
     manager |-> 0, missed |-> FALSE, answer |-> Null, todo |-> {}, visited |-> {},
     foregrounds |-> {foreground}, throughout |-> Valid, moved |-> {}]

Begin(c, r) ==
    /\ request[c].at \in {"idle", "done"} /\ requests < MaxRequests /\ requests' = requests + 1
    /\ request' = [request EXCEPT ![c] = r]
    /\ UNCHANGED <<userVars, abilities>>

\* GetSystemAbility, CheckSystemAbility, LoadSystemAbility, GetSystemProcessInfo,
\* GetLocalAbilityManagerProxy: to the user of the caller, or to the foreground user.
BeginLookup(c, caller, sa) == Begin(c, New(caller, "lookup", sa, RouteForUser(sa, caller)))

\* The same with a user given: only the base user may, and only for a valid user.
BeginLookupForUser(c, sa, u) == u \in Valid /\ Begin(c, New(Base, "given", sa, u))

BeginAdd(c, caller, sa) == RouteForSa(sa, caller) /\ Begin(c, New(caller, "add", sa, caller))

\* UnloadSystemAbility, CancelUnloadSystemAbility and the on-demand policies change no abilityMap_.
BeginOwn(c, caller, sa) == RouteForSa(sa, caller) /\ Begin(c, New(caller, "own", sa, caller))

BeginRemove(c, caller, sa) ==
    /\ RouteForSa(sa, caller)
    /\ Begin(c, [New(caller, "remove", sa, caller) EXCEPT
                    !.stopping = caller # Base /\ contexts[caller] # 0])

(* ----------------------------- the managers ------------------------------- *)

\* GetMultiUserManager, or GetStoppingMultiUserManager for the removals of a stopping user.
ManagerOf(r) ==
    CASE r.target = Base -> 1 [] r.target = Null -> 0
      [] OTHER -> IF r.stopping THEN contexts[r.target] ELSE managers[r.target]

FindManager(c) ==
    LET r == request[c] IN
    /\ r.at = "routed" /\ r.kind # "all"
    /\ request' = [request EXCEPT ![c].manager = ManagerOf(r),
                                  ![c].missed = ManagerOf(r) = 0 /\ r.target \in Users /\ contexts[r.target] # 0,
                                  ![c].at = IF ManagerOf(r) = 0 THEN "done" ELSE "found"]
    /\ UNCHANGED <<userVars, abilities, requests>>

\* A manager that was destroyed since is empty and keeps nothing.
Exists(r) == r.target = Base \/ r.manager \in {managers[r.target], contexts[r.target], leaving[r.target]}

Call(c) ==
    LET r == request[c]
        entry == <<r.target, r.manager, r.sa>>
    IN
    /\ r.at = "found"
    /\ abilities' = CASE r.kind = "add" /\ Exists(r) -> abilities \cup {entry}
                      [] r.kind = "remove" -> abilities \ {entry}
                      [] OTHER -> abilities
    /\ request' = [request EXCEPT ![c].at = "done",
                     ![c].answer = IF r.kind \in {"lookup", "given"} /\ entry \in abilities THEN r.target ELSE Null]
    /\ UNCHANGED <<userVars, requests>>

(* ------------------------- requests to all users -------------------------- *)

\* UnloadAllIdleSystemAbility, UnloadProcess, GetLruIdleSystemAbilityProc, SendStrategy, the
\* extension lists and the online event: the base user first, then the valid users.
BeginAll(c) == Begin(c, [New(Base, "all", Null, Base) EXCEPT !.todo = Valid])

\* Mutant: the loop ends at the first user that has no manager any more.
VisitUntilGone(c, u) ==
    LET r == request[c] IN
    /\ r.at = "routed" /\ r.kind = "all" /\ u \in r.todo
    /\ request' = [request EXCEPT ![c].todo = IF managers[u] = 0 THEN {} ELSE @ \ {u},
                                  ![c].visited = IF managers[u] = 0 THEN @ ELSE @ \cup {u}]
    /\ UNCHANGED <<userVars, abilities, requests>>

Visit(c, u) ==
    LET r == request[c] IN
    /\ r.at = "routed" /\ r.kind = "all" /\ u \in r.todo
    /\ request' = [request EXCEPT ![c].todo = @ \ {u},
                                  ![c].visited = IF managers[u] = 0 THEN @ ELSE @ \cup {u}]
    /\ UNCHANGED <<userVars, abilities, requests>>

\* GetRunningSystemProcess gives up when the manager of a user has gone since.
GiveUp(c, u) ==
    /\ request[c].at = "routed" /\ request[c].kind = "all" /\ u \in request[c].todo /\ managers[u] = 0
    /\ request' = [request EXCEPT ![c].at = "done"]
    /\ UNCHANGED <<userVars, abilities, requests>>

EndAll(c) ==
    /\ request[c].at = "routed" /\ request[c].kind = "all" /\ request[c].todo = {}
    /\ request' = [request EXCEPT ![c].at = "done"]
    /\ UNCHANGED <<userVars, abilities, requests>>

Next ==
    \/ \E u \in Users :
         \/ HandleUserActivating(u) \/ HandleUserSwitching(u) \/ HandleUserStopping(u)
         \/ StartUserStopping(u) \/ CompleteUserStopping(u)
    \/ \E c \in Clients :
         \/ \E caller \in Callers, sa \in Single \cup Multi :
              \/ BeginLookup(c, caller, sa) \/ BeginAdd(c, caller, sa) \/ BeginOwn(c, caller, sa)
              \/ BeginRemove(c, caller, sa)
         \/ \E sa \in Single \cup Multi, u \in Users : BeginLookupForUser(c, sa, u)
         \/ BeginAll(c) \/ FindManager(c) \/ Call(c) \/ EndAll(c)
         \/ \E u \in Users : Visit(c, u) \/ GiveUp(c, u)

Spec == Init /\ [][Next]_vars

(* ------------------------------- properties ------------------------------- *)

Done == {c \in Clients : request[c].at = "done"}

\* What has one instance is registered with the base user and what has one per user with a user,
\* whoever calls AddSystemAbility while users come and go.
InstancesApart == \A e \in abilities : (e[1] = Base) = (e[3] \in Single)

\* A lookup that finds an object finds the caller's own: for a caller of a user the instance of that
\* user, for the base user that of a user who was in the foreground during the call.
AnswerIsForCaller ==
    \A c \in Done : LET r == request[c] IN
        r.kind = "lookup" /\ r.answer # Null =>
            IF r.sa \in Single THEN r.answer = Base
            ELSE IF r.caller = Base THEN r.answer \in r.foregrounds
            ELSE r.answer = r.caller

\* The process of a user that is being stopped can remove its abilities: the removal misses the
\* manager that waits in the contexts of the stopping users only when that was moved while the
\* request was going on.  A request that falls between the two maps finds no manager at all,
\* and is not meant here.
StoppingUserCanRemove ==
    \A c \in Done : LET r == request[c] IN
        r.kind = "remove" /\ r.missed => r.caller \in r.moved

\* A request to all users reaches each one that was valid from its beginning to its end, even when
\* others are stopped in the middle, unless it reports an error.
AllUsersVisited ==
    \A c \in Done : LET r == request[c] IN
        r.kind = "all" /\ r.todo = {} => r.throughout \subseteq r.visited

\* The instances of the users are kept apart, in the registers and in the answers.
UsersApart == InstancesApart /\ AnswerIsForCaller

\* A request reaches the managers it is for, although users are stopped while it is on its way.
RequestsReachManagers == StoppingUserCanRemove /\ AllUsersVisited
=============================================================================
