-------------------------- MODULE UserRoutingProofs -------------------------
(***************************************************************************)
(* Routing of requests between the users, for any users, clients and       *)
(* abilities.  The inductive invariant says of each request what the users *)
(* that have come and gone since its last step can have changed.           *)
(***************************************************************************)
EXTENDS UserRouting, TLAPS

Requests ==
    [at : {"routed", "found", "done"}, caller : Callers, kind : {"lookup", "given", "add", "own", "remove", "all"},
     sa : Single \cup Multi \cup {Null}, target : Callers \cup {Null}, stopping : BOOLEAN,
     manager : Nat, missed : BOOLEAN, answer : Callers \cup {Null},
     todo : SUBSET Users, visited : SUBSET Users,
     foregrounds : SUBSET (Users \cup {Null}), throughout : SUBSET Users, moved : SUBSET Users]

(* Where a request may go: to a user that the foreground has been with, to *)
(* the caller, or to the base.                                             *)
RoutedWell(r) ==
    /\ r.kind = "add" => /\ r.target \in Callers /\ r.sa \in Single \cup Multi
                         /\ (r.target = Base) <=> (r.sa \in Single)
    /\ r.kind = "lookup" => /\ r.sa \in Single => r.target = Base
                            /\ r.sa \in Multi /\ r.caller = Base => r.target \in r.foregrounds
                            /\ r.sa \in Multi /\ r.caller # Base => r.target = r.caller
                            /\ r.sa \in Single \cup Multi
                            /\ r.answer # Null => r.answer = r.target
    /\ r.kind = "remove" => r.target = r.caller

(* What is still to be visited, and where the manager of the caller is.    *)
OnItsWay(r) ==
    /\ r.kind = "all" => /\ r.throughout \subseteq r.visited \cup r.todo
                         /\ r.throughout \subseteq Valid
    /\ r.kind = "remove" /\ r.target \in Users /\ ~r.stopping => contexts[r.target] = 0 \/ r.target \in r.moved

Finished(r) ==
    /\ r.kind = "all" /\ r.todo = {} => r.throughout \subseteq r.visited
    /\ r.kind = "remove" /\ r.missed => r.caller \in r.moved

RequestInv(r) ==
    \/ r = Idle
    \/ /\ r \in Requests /\ RoutedWell(r)
       /\ r.at = "routed" => OnItsWay(r)
       /\ r.at # "routed" => Finished(r)

TypeInv ==
    /\ managers \in [Users -> Nat] /\ contexts \in [Users -> Nat] /\ leaving \in [Users -> Nat]
    /\ born \in [Users -> Nat] /\ foreground \in Users \cup {Null}
    /\ abilities \subseteq Callers \X Nat \X (Single \cup Multi)
    /\ DOMAIN request = Clients /\ request = [c \in Clients |-> request[c]]

RoutingInv == TypeInv /\ InstancesApart /\ \A c \in Clients : RequestInv(request[c])

LEMMA RoutingInit == Init => RoutingInv
BY ConstantsAssumption DEF Init, NoOne, RoutingInv, TypeInv, InstancesApart, RequestInv

(* One client takes a step, the users none.                                *)
LEMMA ClientSteps ==
    ASSUME RoutingInv, NEW c \in Clients, NEW r, RequestInv(r), UNCHANGED userVars,
           request' = [request EXCEPT ![c] = r],
           abilities' \subseteq Callers \X Nat \X (Single \cup Multi), InstancesApart'
    PROVE  RoutingInv'
<1>1. ASSUME NEW d \in Clients PROVE RequestInv(request[d])'
  <2>1. request'[d] = IF d = c THEN r ELSE request[d]
    BY DEF RoutingInv, TypeInv
  <2>2. RequestInv(request'[d])
    BY <2>1 DEF RoutingInv
  <2>3. Valid' = Valid /\ contexts' = contexts
    BY DEF userVars, Valid
  <2> QED BY <2>2, <2>3 DEF RequestInv, OnItsWay, Finished, RoutedWell
<1>2. TypeInv'
    BY DEF RoutingInv, TypeInv, userVars
<1> QED BY <1>1, <1>2 DEF RoutingInv

(* Users are switched or stopped: the requests take note of it.            *)
LEMMA SeenSteps ==
    ASSUME RoutingInv, NEW fg \in Users \cup {Null}, NEW stopped \in SUBSET Users, Seen(fg, stopped),
           \A u \in Users \ stopped : (managers[u] # 0 => managers'[u] # 0) /\ contexts'[u] = contexts[u]
    PROVE  \A c \in Clients : RequestInv(request[c])'
<1> SUFFICES ASSUME NEW c \in Clients PROVE RequestInv(request[c])'
    OBVIOUS
<1> DEFINE r == request[c]
           n == [r EXCEPT !.foregrounds = @ \cup {fg}, !.throughout = @ \ stopped, !.moved = @ \cup stopped]
<1>1. request'[c] = IF r.at \in {"idle", "done"} THEN r ELSE n
    BY DEF Seen, RoutingInv, TypeInv
<1>2. CASE r = Idle
    BY <1>1, <1>2 DEF Idle, RequestInv
<1>3. CASE r # Idle
  <2>1. r \in Requests /\ RoutedWell(r) /\ (r.at = "routed" => OnItsWay(r)) /\ (r.at # "routed" => Finished(r))
    BY <1>3 DEF RoutingInv, RequestInv
  <2>2. CASE r.at = "done"
    <3>1. request'[c] = r
        BY <1>1, <2>2
    <3> QED BY <2>1, <2>2, <3>1 DEF RequestInv, RoutedWell, Finished
  <2>3. CASE r.at # "done"
    <3>1. request'[c] = n
        BY <1>1, <2>1, <2>3 DEF Requests
    <3>2. n \in Requests
        BY <2>1 DEF Requests
    <3>3. /\ n.foregrounds = r.foregrounds \cup {fg} /\ n.throughout = r.throughout \ stopped
          /\ n.moved = r.moved \cup stopped
          /\ n.at = r.at /\ n.kind = r.kind /\ n.sa = r.sa /\ n.target = r.target /\ n.caller = r.caller
          /\ n.stopping = r.stopping /\ n.missed = r.missed /\ n.answer = r.answer
          /\ n.todo = r.todo /\ n.visited = r.visited
        BY <2>1 DEF Requests
    <3> HIDE DEF n
    <3>4. RoutedWell(request[c])'
        BY <2>1, <3>1, <3>3 DEF RoutedWell
    <3>5. request'[c].at # "routed" => Finished(request[c])'
        BY <2>1, <3>1, <3>3 DEF Finished
    <3>6. request'[c].at = "routed" => OnItsWay(request[c])'
      <4>1. Valid \ stopped \subseteq Valid'
        BY DEF Valid
      <4> QED BY <2>1, <3>1, <3>3, <4>1 DEF OnItsWay, Requests
    <3> QED BY <3>1, <3>2, <3>4, <3>5, <3>6 DEF RequestInv
  <2> QED BY <2>2, <2>3
<1> QED BY <1>2, <1>3

LEMMA UserSteps ==
    ASSUME RoutingInv, NEW u \in Users,
           \/ HandleUserActivating(u) \/ HandleUserSwitching(u) \/ HandleUserStopping(u)
           \/ StartUserStopping(u) \/ CompleteUserStopping(u)
    PROVE  RoutingInv'
<1> USE DEF RoutingInv, TypeInv
<1>1. CASE HandleUserActivating(u)
  <2>1. TypeInv' /\ InstancesApart'
    BY <1>1 DEF HandleUserActivating, Event, InstancesApart
  <2>2. Valid \subseteq Valid' /\ contexts' = contexts /\ request' = request
    BY <1>1 DEF HandleUserActivating, Event, Valid
  <2>3. ASSUME NEW c \in Clients PROVE RequestInv(request[c])'
    BY <2>2 DEF RequestInv, RoutedWell, OnItsWay, Finished
  <2> QED BY <2>1, <2>3
<1>2. CASE HandleUserSwitching(u)
  <2>1. TypeInv' /\ InstancesApart'
    BY <1>2 DEF HandleUserSwitching, Event, InstancesApart, Seen
  <2>2. \A c \in Clients : RequestInv(request[c])'
    BY <1>2, SeenSteps DEF HandleUserSwitching, Event
  <2> QED BY <2>1, <2>2
<1>3. CASE HandleUserStopping(u)
  <2>1. TypeInv' /\ InstancesApart'
    BY <1>3 DEF HandleUserStopping, Event, InstancesApart, Seen
  <2>2. \A v \in Users \ {u} : (managers[v] # 0 => managers'[v] # 0) /\ contexts'[v] = contexts[v]
    BY <1>3 DEF HandleUserStopping
  <2>3. PICK fg \in Users \cup {Null} : fg = foreground'
    BY <2>1
  <2>4. Seen(fg, {u})
    BY <1>3, <2>3 DEF HandleUserStopping
  <2>5. \A c \in Clients : RequestInv(request[c])'
    BY <2>2, <2>4, SeenSteps
  <2> QED BY <2>1, <2>5
<1>4. CASE StartUserStopping(u)
  <2>1. TypeInv' /\ InstancesApart'
    BY <1>4 DEF StartUserStopping, InstancesApart, Seen
  <2>2. \A v \in Users \ {u} : (managers[v] # 0 => managers'[v] # 0) /\ contexts'[v] = contexts[v]
    BY <1>4 DEF StartUserStopping
  <2>3. Seen(foreground, {u})
    BY <1>4 DEF StartUserStopping
  <2>4. \A c \in Clients : RequestInv(request[c])'
    BY <2>2, <2>3, SeenSteps
  <2> QED BY <2>1, <2>4
<1>5. CASE CompleteUserStopping(u)
  <2>1. TypeInv' /\ InstancesApart'
    BY <1>5 DEF CompleteUserStopping, InstancesApart, Seen
  <2>2. \A v \in Users \ {u} : (managers[v] # 0 => managers'[v] # 0) /\ contexts'[v] = contexts[v]
    BY <1>5 DEF CompleteUserStopping
  <2>3. Seen(foreground, {u})
    BY <1>5 DEF CompleteUserStopping
  <2>4. \A c \in Clients : RequestInv(request[c])'
    BY <2>2, <2>3, SeenSteps
  <2> QED BY <2>1, <2>4
<1> QED BY <1>1, <1>2, <1>3, <1>4, <1>5

(* A request begins: the users it depends on are those of this moment.     *)
LEMMA BeginSteps ==
    ASSUME RoutingInv, NEW c \in Clients,
           \/ \E caller \in Callers, sa \in Single \cup Multi :
                \/ BeginLookup(c, caller, sa) \/ BeginAdd(c, caller, sa) \/ BeginOwn(c, caller, sa)
                \/ BeginRemove(c, caller, sa)
           \/ \E sa \in Single \cup Multi, u \in Users : BeginLookupForUser(c, sa, u)
           \/ BeginAll(c)
    PROVE  RoutingInv'
<1> USE ConstantsAssumption
<1>0. ASSUME NEW caller \in Callers, NEW kind \in {"lookup", "given", "add", "own", "remove", "all"},
             NEW sa \in Single \cup Multi \cup {Null}, NEW target \in Callers \cup {Null}
      PROVE  New(caller, kind, sa, target) \in Requests
    BY DEF New, Requests, Valid, RoutingInv, TypeInv
<1>1. ASSUME NEW r, RequestInv(r), Begin(c, r) PROVE RoutingInv'
  <2>1. InstancesApart' /\ abilities' = abilities
    BY <1>1 DEF Begin, RoutingInv, InstancesApart
  <2> QED BY <1>1, <2>1, ClientSteps DEF Begin, RoutingInv, TypeInv
<1>2. ASSUME NEW caller \in Callers, NEW sa \in Single \cup Multi, BeginLookup(c, caller, sa) PROVE RoutingInv'
  <2>1. RouteForUser(sa, caller) \in Callers \cup {Null}
    BY DEF RouteForUser, Callers, RoutingInv, TypeInv
  <2>2. New(caller, "lookup", sa, RouteForUser(sa, caller)) \in Requests
    BY <1>0, <2>1
  <2>3. RequestInv(New(caller, "lookup", sa, RouteForUser(sa, caller)))
    BY <2>2 DEF RequestInv, RoutedWell, OnItsWay, New, RouteForUser
  <2> QED BY <1>1, <1>2, <2>3 DEF BeginLookup
<1>3. ASSUME NEW caller \in Callers, NEW sa \in Single \cup Multi, BeginAdd(c, caller, sa) PROVE RoutingInv'
  <2>1. RequestInv(New(caller, "add", sa, caller))
    BY <1>0, <1>3 DEF RequestInv, RoutedWell, OnItsWay, New, BeginAdd, RouteForSa
  <2> QED BY <1>1, <1>3, <2>1 DEF BeginAdd
<1>4. ASSUME NEW caller \in Callers, NEW sa \in Single \cup Multi, BeginOwn(c, caller, sa) PROVE RoutingInv'
  <2>1. RequestInv(New(caller, "own", sa, caller))
    BY <1>0 DEF RequestInv, RoutedWell, OnItsWay, New
  <2> QED BY <1>1, <1>4, <2>1 DEF BeginOwn
<1>5. ASSUME NEW caller \in Callers, NEW sa \in Single \cup Multi, BeginRemove(c, caller, sa) PROVE RoutingInv'
  <2> DEFINE n == New(caller, "remove", sa, caller)
             stops == caller # Base /\ contexts[caller] # 0
             r == [n EXCEPT !.stopping = stops]
  <2>4. n \in Requests /\ n.at = "routed" /\ n.kind = "remove" /\ n.target = caller /\ n.caller = caller
    BY <1>0 DEF New
  <2>1. stops \in BOOLEAN /\ (~stops => caller = Base \/ contexts[caller] = 0)
    OBVIOUS
  <2> HIDE DEF n, stops
  <2>2. r \in Requests /\ r.at = "routed" /\ r.kind = "remove" /\ r.target = caller /\ r.caller = caller
        /\ r.stopping = stops
    BY <2>1, <2>4 DEF Requests
  <2>3. RequestInv(r)
    <3> HIDE DEF r
    <3> QED BY <2>1, <2>2 DEF RequestInv, RoutedWell, OnItsWay
  <2> QED BY <1>1, <1>5, <2>3 DEF BeginRemove, n, stops
<1>6. ASSUME NEW sa \in Single \cup Multi, NEW u \in Users, BeginLookupForUser(c, sa, u) PROVE RoutingInv'
  <2>1. RequestInv(New(Base, "given", sa, u))
    BY <1>0 DEF RequestInv, RoutedWell, OnItsWay, New, Callers
  <2> QED BY <1>1, <1>6, <2>1 DEF BeginLookupForUser
<1>7. ASSUME BeginAll(c) PROVE RoutingInv'
  <2> DEFINE n == New(Base, "all", Null, Base)
             r == [n EXCEPT !.todo = Valid]
  <2>1. n \in Requests
    BY <1>0 DEF Callers
  <2>2. r \in Requests /\ r.at = "routed" /\ r.kind = "all" /\ r.throughout = Valid /\ r.todo = Valid
    BY <2>1 DEF New, Requests, Valid
  <2>3. RequestInv(r)
    <3> HIDE DEF r
    <3> QED BY <2>2 DEF RequestInv, RoutedWell, OnItsWay
  <2> QED BY <1>1, <1>7, <2>3 DEF BeginAll
<1> QED BY <1>2, <1>3, <1>4, <1>5, <1>6, <1>7

(* The two steps of a routed request.                                      *)
LEMMA ManagerSteps ==
    ASSUME RoutingInv, NEW c \in Clients, FindManager(c) \/ Call(c)
    PROVE  RoutingInv'
<1> DEFINE r == request[c]
<1>0. r.at # "idle" => /\ r \in Requests /\ RoutedWell(r)
                       /\ (r.at = "routed" => OnItsWay(r)) /\ (r.at # "routed" => Finished(r))
    BY DEF RoutingInv, RequestInv, Idle
<1>1. CASE FindManager(c)
  <2> DEFINE m == ManagerOf(r)
             miss == m = 0 /\ r.target \in Users /\ contexts[r.target] # 0
             next == IF m = 0 THEN "done" ELSE "found"
             n == [r EXCEPT !.manager = m, !.missed = miss, !.at = next]
  <2>1. r.at = "routed" /\ r.kind # "all" /\ r \in Requests /\ RoutedWell(r) /\ OnItsWay(r)
    BY <1>0, <1>1 DEF FindManager
  <2>2. request' = [request EXCEPT ![c] = n] /\ UNCHANGED <<userVars, abilities>>
    BY <1>1, <2>1 DEF FindManager, Requests
  <2>3. m \in Nat
    BY <2>1, ConstantsAssumption DEF ManagerOf, Requests, Callers, RoutingInv, TypeInv
  <2>4. miss /\ r.kind = "remove" => r.target \in r.moved
    <3>1. r.target \in Users /\ r.stopping => m = contexts[r.target]
        BY ConstantsAssumption DEF ManagerOf
    <3> HIDE DEF m
    <3> QED BY <2>1, <3>1 DEF OnItsWay
  <2>5. miss \in BOOLEAN /\ next \in {"done", "found"}
    OBVIOUS
  <2> HIDE DEF m, miss, next
  <2>6. n \in Requests
    BY <2>1, <2>3, <2>5 DEF Requests
  <2>7. /\ n.at = next /\ n.kind = r.kind /\ n.sa = r.sa /\ n.target = r.target
        /\ n.caller = r.caller /\ n.answer = r.answer /\ n.foregrounds = r.foregrounds
        /\ n.moved = r.moved /\ n.missed = miss
    BY <2>1 DEF Requests
  <2> HIDE DEF n
  <2>8. RequestInv(n)
    BY <2>1, <2>4, <2>5, <2>6, <2>7 DEF RequestInv, RoutedWell, Finished
  <2>9. InstancesApart' /\ abilities' = abilities
    BY <2>2 DEF RoutingInv, InstancesApart
  <2> QED BY <2>2, <2>8, <2>9, ClientSteps DEF RoutingInv, TypeInv
<1>2. CASE Call(c)
  <2> DEFINE entry == <<r.target, r.manager, r.sa>>
             a == IF r.kind \in {"lookup", "given"} /\ entry \in abilities THEN r.target ELSE Null
             n == [r EXCEPT !.at = "done", !.answer = a]
  <2>1. r.at = "found" /\ r \in Requests /\ RoutedWell(r) /\ Finished(r)
    BY <1>0, <1>2 DEF Call
  <2>2. request' = [request EXCEPT ![c] = n] /\ UNCHANGED userVars
    BY <1>2, <2>1 DEF Call, Requests
  <2>3. a \in Callers \cup {Null} /\ (a # Null => a = r.target)
    BY <2>1 DEF Requests
  <2>4. \/ abilities' \subseteq abilities
        \/ r.kind = "add" /\ abilities' = abilities \cup {entry}
    BY <1>2 DEF Call
  <2>5. abilities' \subseteq Callers \X Nat \X (Single \cup Multi) /\ InstancesApart'
    <3>1. r.kind = "add" => /\ entry \in Callers \X Nat \X (Single \cup Multi)
                            /\ (entry[1] = Base) = (entry[3] \in Single)
        BY <2>1 DEF RoutedWell, Requests
    <3> HIDE DEF entry
    <3> QED BY <2>4, <3>1 DEF RoutingInv, TypeInv, InstancesApart
  <2> HIDE DEF a
  <2>6. /\ n \in Requests /\ n.at = "done" /\ n.kind = r.kind /\ n.sa = r.sa /\ n.target = r.target
        /\ n.caller = r.caller /\ n.answer = a /\ n.foregrounds = r.foregrounds
        /\ n.moved = r.moved /\ n.missed = r.missed
        /\ n.todo = r.todo /\ n.visited = r.visited /\ n.throughout = r.throughout
    BY <2>1, <2>3 DEF Requests
  <2> HIDE DEF n
  <2>7. RequestInv(n)
    BY <2>1, <2>3, <2>6 DEF RequestInv, RoutedWell, Finished
  <2> QED BY <2>2, <2>5, <2>7, ClientSteps
<1> QED BY <1>1, <1>2

(* A request to all users goes on, gives up or ends.                       *)
LEMMA AllSteps ==
    ASSUME RoutingInv, NEW c \in Clients, EndAll(c) \/ \E u \in Users : Visit(c, u) \/ GiveUp(c, u)
    PROVE  RoutingInv'
<1> DEFINE r == request[c]
<1>0. r.at = "routed" /\ r.kind = "all"
    BY DEF EndAll, Visit, GiveUp
<1>1. r.at = "routed" /\ r.kind = "all" /\ r \in Requests /\ RoutedWell(r) /\ OnItsWay(r)
  <2>1. RequestInv(r)
    BY DEF RoutingInv
  <2> QED BY <1>0, <2>1 DEF RequestInv, Idle
<1>2. abilities' = abilities /\ UNCHANGED userVars /\ InstancesApart'
    BY DEF EndAll, Visit, GiveUp, RoutingInv, InstancesApart
<1>3. ASSUME NEW u \in Users, Visit(c, u) PROVE RoutingInv'
  <2> DEFINE v == IF managers[u] = 0 THEN r.visited ELSE r.visited \cup {u}
             n == [r EXCEPT !.todo = @ \ {u}, !.visited = v]
  <2>1. request' = [request EXCEPT ![c] = n]
    BY <1>1, <1>3 DEF Visit, Requests
  <2>2. v \subseteq Users /\ r.throughout \subseteq v \cup (r.todo \ {u})
    BY <1>1 DEF OnItsWay, Valid, Requests
  <2> HIDE DEF v
  <2>3. /\ n \in Requests /\ n.at = "routed" /\ n.kind = "all" /\ n.throughout = r.throughout
        /\ n.visited = v /\ n.todo = r.todo \ {u}
    BY <1>1, <2>2 DEF Requests
  <2> HIDE DEF n
  <2>4. RequestInv(n)
    BY <1>1, <2>2, <2>3 DEF RequestInv, RoutedWell, OnItsWay
  <2> QED BY <1>2, <2>1, <2>4, ClientSteps DEF RoutingInv, TypeInv
<1>4. ASSUME EndAll(c) \/ \E u \in Users : GiveUp(c, u) PROVE RoutingInv'
  <2> DEFINE n == [r EXCEPT !.at = "done"]
  <2>1. request' = [request EXCEPT ![c] = n]
    BY <1>1, <1>4 DEF EndAll, GiveUp, Requests
  <2>2. /\ n \in Requests /\ n.at = "done" /\ n.kind = "all" /\ n.throughout = r.throughout
        /\ n.visited = r.visited /\ n.todo = r.todo
    BY <1>1 DEF Requests
  <2> HIDE DEF n
  <2>3. RequestInv(n)
    BY <1>1, <2>2 DEF RequestInv, RoutedWell, OnItsWay, Finished
  <2> QED BY <1>2, <2>1, <2>3, ClientSteps DEF RoutingInv, TypeInv
<1> QED BY <1>3, <1>4

LEMMA RoutingStep == RoutingInv /\ [Next]_vars => RoutingInv'
<1> SUFFICES ASSUME RoutingInv, [Next]_vars PROVE RoutingInv'
    OBVIOUS
<1>1. CASE UNCHANGED vars
  <2>1. Valid' = Valid /\ contexts' = contexts /\ request' = request
    BY <1>1 DEF vars, Valid
  <2>2. \A c \in Clients : RequestInv(request[c])'
    BY <2>1 DEF RoutingInv, RequestInv, RoutedWell, OnItsWay, Finished
  <2> QED BY <1>1, <2>2 DEF vars, RoutingInv, TypeInv, InstancesApart
<1> QED BY <1>1, UserSteps, BeginSteps, ManagerSteps, AllSteps DEF Next

(* RouteForSa keeps single and multi instance abilities apart although the *)
(* manager is found and called after the check.                            *)
LEMMA InstancesStayApart == Spec => []InstancesApart
<1>1. RoutingInv => InstancesApart
    BY DEF RoutingInv
<1> QED BY <1>1, RoutingInit, RoutingStep, PTL DEF Spec

(* RouteForUser sends nobody to the instance of a third user, even when    *)
(* the foreground changes between the routing and the call.                *)
LEMMA AnswersAreForCaller == Spec => []AnswerIsForCaller
<1>1. RoutingInv => AnswerIsForCaller
  <2> SUFFICES ASSUME RoutingInv, NEW c \in Done, request[c].kind = "lookup", request[c].answer # Null
               PROVE  LET r == request[c] IN
                      IF r.sa \in Single THEN r.answer = Base
                      ELSE IF r.caller = Base THEN r.answer \in r.foregrounds
                      ELSE r.answer = r.caller
    BY DEF AnswerIsForCaller
  <2> DEFINE r == request[c]
  <2>1. RoutedWell(r)
    BY DEF RoutingInv, RequestInv, Idle, Done
  <2>2. r.answer = r.target /\ r.sa \in Single \cup Multi
    BY <2>1 DEF RoutedWell
  <2>3. CASE r.sa \in Single
    <3>1. r.answer = Base
        BY <2>1, <2>2, <2>3 DEF RoutedWell
    <3> QED BY <2>3, <3>1
  <2>4. CASE r.sa \notin Single /\ r.caller = Base
    <3>1. r.answer \in r.foregrounds
        BY <2>1, <2>2, <2>4 DEF RoutedWell
    <3> QED BY <2>4, <3>1
  <2>5. CASE r.sa \notin Single /\ r.caller # Base
    <3>1. r.answer = r.caller
        BY <2>1, <2>2, <2>5 DEF RoutedWell
    <3> QED BY <2>5, <3>1
  <2> QED BY <2>3, <2>4, <2>5
<1> QED BY <1>1, RoutingInit, RoutingStep, PTL DEF Spec

(* RemoveSystemAbility asks IsUserStopping before it looks for a manager;  *)
(* only a stop that moves the manager in between makes it miss it.         *)
LEMMA StoppingUsersCanRemove == Spec => []StoppingUserCanRemove
<1>1. RoutingInv => StoppingUserCanRemove
    BY DEF RoutingInv, RequestInv, Idle, Finished, StoppingUserCanRemove, Done
<1> QED BY <1>1, RoutingInit, RoutingStep, PTL DEF Spec

(* The loops over GetValidUserIds skip only users that were stopped.       *)
LEMMA AllUsersAreVisited == Spec => []AllUsersVisited
<1>1. RoutingInv => AllUsersVisited
    BY DEF RoutingInv, RequestInv, Idle, Finished, AllUsersVisited, Done
<1> QED BY <1>1, RoutingInit, RoutingStep, PTL DEF Spec

(* No client gets or changes the instance of another user, although users  *)
(* come and go between the steps of its request.                           *)
THEOREM UsersStayApart == Spec => []UsersApart
BY InstancesStayApart, AnswersAreForCaller, PTL DEF UsersApart

(* A request misses a manager only if that was moved or stopped while the  *)
(* request was on its way.                                                 *)
THEOREM RequestsAreRouted == Spec => []RequestsReachManagers
BY StoppingUsersCanRemove, AllUsersAreVisited, PTL DEF RequestsReachManagers
=============================================================================
