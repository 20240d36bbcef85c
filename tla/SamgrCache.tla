----------------------------- MODULE SamgrCache -----------------------------
(***************************************************************************)
(* How one client process answers GetSystemAbility and CheckSystemAbility: *)
(* the set of on-demand ids it fetches once, the table of the abilities it *)
(* registered itself (LocalAbilitys), the one-entry DynamicCache guarded   *)
(* by a system parameter, the water line, and the retries of               *)
(* GetSystemAbilityWrapper.  The other side is the part of the register    *)
(* that decides when the water line moves: AddSystemAbility,               *)
(* RemoveSystemAbility, and the task that sets the parameter.              *)
(***************************************************************************)
EXTENDS Naturals, Sequences, FiniteSets

CONSTANTS SAs,           \* the ids asked for
          OnDemandSAs,   \* onDemandSaIdsSet_ of the manager
          LocalSAs,      \* the ids this process registers itself
          Threads,       \* threads of the client process
          Null, Other,   \* no object; a caller outside the process
          Default,       \* the water line before the parameter was ever set
          MaxObjects,    \* bound: objects ever registered
          MaxDeaths,     \* bound: of these, the ones whose host dies
          MaxTick,       \* bound: values of GetTickCount
          MaxCalls,      \* bound: calls the process makes
          RETRY_TIME_OUT_NUMBER

ASSUME ConstantsAssumption ==
    /\ OnDemandSAs # {} /\ LocalSAs \subseteq SAs
    /\ {MaxObjects, MaxDeaths, MaxTick, MaxCalls, RETRY_TIME_OUT_NUMBER} \subseteq Nat
    /\ Other \notin Threads

VARIABLES
    abilityMap,   \* register: id -> object or Null
    writer,       \* the covering AddSystemAbility that holds abilityMapLock_, or Null
    removing,     \* RemoveSystemAbility between the erasure and the post
    posted,       \* tasks of setParmHandler_ that have not run
    param,        \* samgr.cache.sa: Default or a tick count
    tick,
    objects,      \* the objects registered so far: their id, and whether the client hosts them
    dead,         \* objects with a dead host
    crashed,      \* ids whose host has ended and may be restarted
    onDemandIds,  \* onDemandSystemAbilityIdsSet_ of the proxy
    localSAMap,   \* LocalAbilitys
    cache,        \* localPara_, lastQuerySaId_, lastQuerySaProxy_
    told,         \* objects whose death the IPC layer of the client has been told of
    obituaries,   \* of these, the ones OnRemoteDied of the cache has still to be called for
    call,         \* thread -> the call it is in
    calls,
    spoilt        \* "cache", "local": something happened that they do not survive

server == <<abilityMap, writer, removing, posted, param, tick, objects, dead, crashed>>
client == <<onDemandIds, localSAMap, cache, told, obituaries, call, calls>>
vars == <<server, client, spoilt>>

Object == 1..MaxObjects
Water == {Default} \cup (0..MaxTick)
Idle == [pc |-> "idle", sa |-> Null, code |-> Null, water |-> Null, tries |-> 0, res |-> Null]
Callers == Threads \cup {Other}
Registered == 1..Len(objects)
Mine(obj) == obj \in Registered /\ objects[obj].mine

TypeOK ==
    /\ abilityMap \in [SAs -> Object \cup {Null}]
    /\ writer \in {Null} \cup [sa: SAs, by: Callers]
    /\ removing \subseteq [sa: SAs, by: Callers] /\ posted \in Nat
    /\ param \in Water /\ tick \in 0..MaxTick
    /\ objects \in Seq([sa: SAs, mine: BOOLEAN]) /\ Len(objects) <= MaxObjects
    /\ dead \subseteq Registered /\ crashed \subseteq SAs
    /\ obituaries \subseteq told /\ told \subseteq dead
    /\ onDemandIds \subseteq OnDemandSAs
    /\ localSAMap \in [SAs -> Object \cup {Null}]
    /\ cache \in [para: Water \cup {Null}, sa: SAs \cup {Null}, proxy: Object \cup {Null}]
    /\ call \in [Threads -> [pc: {"idle", "fetch", "read", "use", "clear", "query", "store",
                                  "add", "added", "remove", "removing", "removed"},
                             sa: SAs \cup {Null}, code: {"get", "check", Null},
                             water: Water \cup {Null},
                             tries: 0..RETRY_TIME_OUT_NUMBER, res: Object \cup {Null}]]
    /\ calls \in 0..MaxCalls /\ spoilt \subseteq {"cache", "local"}

Init ==
    /\ abilityMap = [sa \in SAs |-> Null] /\ writer = Null
    /\ removing = {} /\ posted = 0
    /\ param = Default /\ tick = 0 /\ objects = <<>> /\ dead = {} /\ crashed = {}
    /\ told = {} /\ obituaries = {}
    /\ onDemandIds = {} /\ localSAMap = [sa \in SAs |-> Null]
    /\ cache = [para |-> Null, sa |-> Null, proxy |-> Null]
    /\ call = [t \in Threads |-> Idle] /\ calls = 0 /\ spoilt = {}

Spoils(what, happened) == spoilt' = IF happened THEN spoilt \cup what ELSE spoilt
Goto(t, pc) == call' = [call EXCEPT ![t].pc = pc]
Return(t) == call' = [call EXCEPT ![t] = Idle]

(* ------------------------------ the register ------------------------------ *)

\* An on-demand ability moves no water line: clients do not cache it.
SystemAbilityInvalidateCache(sa) == posted' = IF sa \in OnDemandSAs THEN posted ELSE posted + 1

\* A call of the client reaches the register through the thread that made it.
Asks(by, pc, sa) == by # Other => (call[by].pc = pc /\ call[by].sa = sa)
Replies(by, pc, obj) ==
    IF by = Other THEN UNCHANGED call
    ELSE call' = [call EXCEPT ![by].pc = pc, ![by].res = obj]

Register(sa, by) ==
    /\ objects' = Append(objects, [sa |-> sa, mine |-> by # Other])
    /\ abilityMap' = [abilityMap EXCEPT ![sa] = Len(objects')]
    /\ Replies(by, "added", Len(objects'))

\* AddSystemAbility of an id that is not registered: nothing to invalidate.
AddNew(sa, by) ==
    /\ Asks(by, "add", sa) /\ writer = Null /\ abilityMap[sa] = Null /\ Len(objects) < MaxObjects
    /\ Register(sa, by)
    /\ UNCHANGED <<writer, removing, posted, param, tick, dead, crashed, onDemandIds, localSAMap,
                   cache, told, obituaries, calls, spoilt>>

\* AddSystemAbility of a registered id: the task is posted under the write lock ...
CoverPosts(sa, by) ==
    /\ Asks(by, "add", sa) /\ writer = Null /\ abilityMap[sa] # Null /\ Len(objects) < MaxObjects
    /\ writer' = [sa |-> sa, by |-> by]
    /\ SystemAbilityInvalidateCache(sa)
    /\ Spoils({"local"}, by = Other /\ Mine(abilityMap[sa]))
    /\ UNCHANGED <<abilityMap, removing, param, tick, objects, dead, crashed, client>>

\* ... and the new object is stored before the lock is released.
CoverStores ==
    /\ writer # Null
    /\ Register(writer.sa, writer.by)
    /\ writer' = Null
    /\ UNCHANGED <<removing, posted, param, tick, dead, crashed, onDemandIds, localSAMap, cache,
                   told, obituaries, calls, spoilt>>

\* RemoveSystemAbility of an id, or of a dead object by its death recipient: erased under the
\* lock ...
RemoveErases(sa, by) ==
    /\ Asks(by, "remove", sa) /\ writer = Null /\ abilityMap[sa] # Null
    /\ [sa |-> sa, by |-> by] \notin removing
    /\ abilityMap' = [abilityMap EXCEPT ![sa] = Null]
    /\ removing' = removing \cup {[sa |-> sa, by |-> by]}
    /\ Replies(by, "removing", Null)
    /\ Spoils({"local"}, by = Other /\ Mine(abilityMap[sa]))
    /\ UNCHANGED <<writer, posted, param, tick, objects, dead, crashed, onDemandIds, localSAMap,
                   cache, told, obituaries, calls>>

\* ... and the task is posted after the lock is released.
RemovePosts(r) ==
    /\ r \in removing
    /\ removing' = removing \ {r}
    /\ SystemAbilityInvalidateCache(r.sa)
    /\ Replies(r.by, "removed", Null)
    /\ UNCHANGED <<abilityMap, writer, param, tick, objects, dead, crashed, onDemandIds, localSAMap,
                   cache, told, obituaries, calls, spoilt>>

\* The host of an object ends.
HostDies(obj) ==
    /\ obj \in Registered \ dead /\ ~Mine(obj) /\ Cardinality(dead) < MaxDeaths
    /\ dead' = dead \cup {obj} /\ crashed' = crashed \cup {objects[obj].sa}
    /\ UNCHANGED <<abilityMap, writer, removing, posted, param, tick, objects, client, spoilt>>

\* The scheduler has noticed and restarts the ability: RemoveDiedSystemAbility erases what is
\* registered for the id, the dead object or one registered since, and invalidates nothing.
RemoveDiedSystemAbility(sa) ==
    /\ writer = Null /\ sa \in crashed
    /\ crashed' = crashed \ {sa}
    /\ abilityMap' = [abilityMap EXCEPT ![sa] = Null]
    /\ Spoils({"cache", "local"}, abilityMap[sa] \notin dead \cup {Null})
    /\ UNCHANGED <<writer, removing, posted, param, tick, objects, dead, client>>

\* The task of InvalidateSACache: SetParameter to the tick count, or its error.
InvalidateSACache ==
    /\ posted > 0
    /\ posted' = posted - 1
    /\ \/ param' = tick /\ Spoils({"cache"}, param = tick)
       \/ UNCHANGED param /\ Spoils({"cache"}, TRUE)
    /\ UNCHANGED <<abilityMap, writer, removing, tick, objects, dead, crashed, client>>

TickPasses ==
    /\ tick < MaxTick /\ tick' = tick + 1
    /\ UNCHANGED <<abilityMap, writer, removing, posted, param, objects, dead, crashed, client, spoilt>>

(* ------------------------------- the client ------------------------------- *)

Call(sa, code) ==
    [pc |-> "read", sa |-> sa, code |-> code, water |-> Null, tries |-> RETRY_TIME_OUT_NUMBER,
     res |-> Null]

\* An on-demand ability is asked for directly, any other through the cache.
AfterIds(t, sa, ids) == IF sa \in ids THEN "query" ELSE "read"

\* GetSystemAbility and CheckSystemAbility up to the lock of IsOnDemandSystemAbility.
Ask(t, sa, code) ==
    /\ call[t].pc = "idle" /\ calls < MaxCalls
    /\ calls' = calls + 1
    /\ call' = [call EXCEPT ![t] =
          [Call(sa, code) EXCEPT
              !.pc = IF onDemandIds = {} THEN "fetch" ELSE AfterIds(t, sa, onDemandIds)]]
    /\ UNCHANGED <<server, onDemandIds, localSAMap, cache, told, obituaries, spoilt>>

\* GetOnDemandSystemAbilityIds outside the lock: the set, or nothing when the call fails.
IsOnDemandSystemAbility(t) ==
    /\ call[t].pc = "fetch"
    /\ \E ids \in {OnDemandSAs, {}} :
          /\ onDemandIds' = onDemandIds \cup ids
          /\ Goto(t, AfterIds(t, call[t].sa, onDemandIds'))
          /\ Spoils({"cache"}, call[t].sa \in OnDemandSAs \ onDemandIds')
    /\ UNCHANGED <<server, localSAMap, cache, told, obituaries, calls>>

\* QueryResult reads the water line before it takes queryCacheLock_.
GetParameter(t) ==
    /\ call[t].pc = "read"
    /\ call' = [call EXCEPT ![t].pc = "use", ![t].water = param]
    /\ UNCHANGED <<server, onDemandIds, localSAMap, cache, told, obituaries, calls, spoilt>>

\* IsObjectDead is true once the obituary has reached the client.
CanUseCache(sa, water) ==
    /\ cache.sa = sa /\ water # Default /\ water = cache.para
    /\ cache.proxy # Null /\ cache.proxy \notin told

QueryResult(t) ==
    /\ call[t].pc = "use"
    /\ IF CanUseCache(call[t].sa, call[t].water) THEN Return(t) ELSE Goto(t, "clear")
    /\ UNCHANGED <<server, onDemandIds, localSAMap, cache, told, obituaries, calls, spoilt>>

Cleared == [cache EXCEPT !.sa = Null, !.proxy = Null]

\* Recompute: ClearCache, then the query.
Recompute(t) ==
    /\ call[t].pc = "clear"
    /\ cache' = Cleared
    /\ Goto(t, "query")
    /\ UNCHANGED <<server, onDemandIds, localSAMap, told, obituaries, calls, spoilt>>

\* The IPC layer marks a proxy that the process holds as dead, and calls the death recipient
\* the cache attached to it in Store.
ObituaryArrives(obj) ==
    /\ obj \in dead \ told /\ obj \in {cache.proxy} \cup {call[t].res : t \in Threads}
    /\ told' = told \cup {obj}
    /\ obituaries' = IF cache.proxy = obj THEN obituaries \cup {obj} ELSE obituaries
    /\ UNCHANGED <<server, onDemandIds, localSAMap, cache, call, calls, spoilt>>

\* OnRemoteDied clears the cache, also of an entry that was stored since.
OnRemoteDied(obj) ==
    /\ obj \in obituaries
    /\ obituaries' = obituaries \ {obj}
    /\ cache' = Cleared
    /\ UNCHANGED <<server, onDemandIds, localSAMap, told, call, calls, spoilt>>

\* What one query got: an answer ends the call or is stored; without one
\* GetSystemAbilityWrapper sleeps and tries again, CheckSystemAbilityTransaction does not.
Answered(t, obj) ==
    LET c == call[t]
        again == c.code = "get" /\ c.tries > 0
    IN  IF obj # Null
        THEN IF c.water = Null THEN Return(t)
             ELSE call' = [call EXCEPT ![t].pc = "store", ![t].res = obj]
        ELSE IF again THEN call' = [call EXCEPT ![t].tries = @ - 1] ELSE Return(t)

\* LocalAbilitys answers only the "get" path.
QueryLocal(t) ==
    LET sa == call[t].sa
    IN  /\ call[t].pc = "query" /\ call[t].code = "get" /\ localSAMap[sa] # Null
        /\ Answered(t, localSAMap[sa])
        /\ Spoils({"cache"}, localSAMap[sa] # abilityMap[sa] \/ (writer # Null /\ writer.sa = sa))
        /\ UNCHANGED <<server, onDemandIds, localSAMap, cache, told, obituaries, calls>>

\* Mutant: The read lock dropped.
QueryServerUnlocked(t) ==
    LET sa == call[t].sa
    IN  /\ call[t].pc = "query" /\ ~(call[t].code = "get" /\ localSAMap[sa] # Null)
        /\ Answered(t, abilityMap[sa])
        /\ UNCHANGED <<server, onDemandIds, localSAMap, cache, told, obituaries, calls, spoilt>>

\* CheckSystemAbility of the manager reads abilityMap_ under the read lock.
QueryServer(t) ==
    LET sa == call[t].sa
    IN  /\ call[t].pc = "query" /\ ~(call[t].code = "get" /\ localSAMap[sa] # Null)
        /\ writer = Null
        /\ Answered(t, abilityMap[sa])
        /\ UNCHANGED <<server, onDemandIds, localSAMap, cache, told, obituaries, calls, spoilt>>

\* A transaction that fails is a try without an answer; ERR_PERMISSION_DENIED ends the call.
QueryFails(t) ==
    /\ call[t].pc = "query" /\ ~(call[t].code = "get" /\ localSAMap[call[t].sa] # Null)
    /\ Answered(t, Null) \/ Return(t)
    /\ UNCHANGED <<server, onDemandIds, localSAMap, cache, told, obituaries, calls, spoilt>>

Store(t) ==
    /\ call[t].pc = "store"
    /\ cache' = [para |-> call[t].water, sa |-> call[t].sa, proxy |-> call[t].res]
    /\ Return(t)
    /\ UNCHANGED <<server, onDemandIds, localSAMap, told, obituaries, calls, spoilt>>

\* AddSystemAbility and RemoveSystemAbility of the proxy: the register first ...
Changing(t, sa) == call[t].sa = sa /\ call[t].pc \in {"add", "added", "remove", "removing", "removed"}

Change(t, sa, pc) ==
    /\ call[t].pc = "idle" /\ calls < MaxCalls
    /\ calls' = calls + 1
    /\ call' = [call EXCEPT ![t] = [Idle EXCEPT !.pc = pc, !.sa = sa]]
    /\ Spoils({"local"}, \E u \in Threads \ {t} : Changing(u, sa))
    /\ UNCHANGED <<server, onDemandIds, localSAMap, cache, told, obituaries>>

\* ... which may refuse or never be reached ...
ChangeRefused(t) ==
    /\ call[t].pc \in {"add", "remove"} /\ writer = Null
    /\ Return(t)
    /\ UNCHANGED <<server, onDemandIds, localSAMap, cache, told, obituaries, calls, spoilt>>

\* ... then LocalAbilitys, if the reply says ERR_OK.
AddAbility(t) ==
    /\ call[t].pc = "added"
    /\ localSAMap' = [localSAMap EXCEPT ![call[t].sa] = call[t].res]
    /\ Return(t)
    /\ UNCHANGED <<server, onDemandIds, cache, told, obituaries, calls, spoilt>>

RemoveAbility(t) ==
    /\ call[t].pc = "removed"
    /\ localSAMap' = [localSAMap EXCEPT ![call[t].sa] = Null]
    /\ Return(t)
    /\ UNCHANGED <<server, onDemandIds, cache, told, obituaries, calls, spoilt>>

ReplyLost(t) ==
    /\ call[t].pc \in {"added", "removed"}
    /\ Return(t)
    /\ Spoils({"local"}, TRUE)
    /\ UNCHANGED <<server, onDemandIds, localSAMap, cache, told, obituaries, calls>>

(* ---------------------------- the specification --------------------------- *)

Step(t) ==
    \/ IsOnDemandSystemAbility(t) \/ GetParameter(t) \/ QueryResult(t) \/ Recompute(t)
    \/ QueryLocal(t) \/ QueryServer(t) \/ QueryFails(t) \/ Store(t)
    \/ ChangeRefused(t) \/ AddAbility(t) \/ RemoveAbility(t) \/ ReplyLost(t)

Next ==
    \/ \E t \in Threads :
          \/ \E sa \in SAs, code \in {"get", "check"} : Ask(t, sa, code)
          \/ \E sa \in LocalSAs, pc \in {"add", "remove"} : Change(t, sa, pc)
          \/ Step(t)
    \/ \E sa \in SAs, by \in Callers :
          AddNew(sa, by) \/ CoverPosts(sa, by) \/ RemoveErases(sa, by)
    \/ \E sa \in SAs : RemoveDiedSystemAbility(sa)
    \/ \E r \in removing : RemovePosts(r)
    \/ \E obj \in Registered : HostDies(obj) \/ ObituaryArrives(obj) \/ OnRemoteDied(obj)
    \/ CoverStores \/ InvalidateSACache \/ TickPasses

Spec == Init /\ [][Next]_vars

(* ------------------------------- properties ------------------------------- *)

\* Once every invalidation the register owes has been carried out, an entry the cache would
\* still serve is the object the register holds, or one whose host has just died and whose
\* obituary is still on its way to the client.  The exceptions are the ones the code leaves
\* open: two invalidations in one tick, a parameter that cannot be set, an on-demand id whose
\* list could not be fetched, a query answered by a local entry the register had dropped, and
\* a living object that RemoveDiedSystemAbility erased for the death of its predecessor.
CacheIsFresh ==
    (/\ writer = Null /\ removing = {} /\ posted = 0
     /\ "cache" \notin spoilt /\ cache.sa # Null /\ CanUseCache(cache.sa, param))
    => cache.proxy \in {abilityMap[cache.sa]} \cup (dead \ told)

\* An ability the process registered itself is in LocalAbilitys only while the register holds
\* it, once its own calls have returned, unless two of its calls for the id overlapped,
\* another process covered or removed it, RemoveDiedSystemAbility erased it for the death of
\* its predecessor, or the reply to the removal was lost.
LocalIsRegistered ==
    (/\ "local" \notin spoilt
     /\ \A t \in Threads, sa \in SAs : ~Changing(t, sa))
    => \A sa \in SAs : localSAMap[sa] \in {Null, abilityMap[sa]}

\* What the client hands out without asking the manager is what the manager would answer.
ServedIsRegistered == CacheIsFresh /\ LocalIsRegistered

\* Every call of the client returns: the retries of GetSystemAbilityWrapper run out even if
\* the ability is never registered.
CallsReturn == \A t \in Threads : call[t].pc # "idle" ~> call[t].pc = "idle"
=============================================================================
