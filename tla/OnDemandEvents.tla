--------------------------- MODULE OnDemandEvents ---------------------------
(***************************************************************************)
(* What happens to a common event from its arrival to the last ability it  *)
(* starts or stops.  CommonEventCollect keeps the data of the event under  *)
(* an id for five minutes and remembers, per ability, the ids it may ask   *)
(* for; the collect queue picks the abilities, records the events that act *)
(* only once, and loads or unloads.  Arrival, the removal queue and the    *)
(* collect queue are three threads; abilities go away on a fourth.         *)
(***************************************************************************)
EXTENDS Naturals, Sequences, SequencesExt, FiniteSets, FiniteSetsExt

CONSTANTS SAs, Events,
          Profiles,     \* onDemandSaProfiles_: a sequence of [sa, cache, start, stop]
          MAX_EXTRA_DATA_ID, NoId, Null, MaxReceived, MaxUnref, MaxRemoved

Ids == 1..MAX_EXTRA_DATA_ID
Kinds == {"start", "stop"}
Control == [sa: SAs, kind: Kinds, once: BOOLEAN, priority: Nat, cache: BOOLEAN]

VARIABLES
    extraDataId,  \* the last id given out
    extraDatas,   \* id -> the event whose data is kept, or Null
    arriving,     \* the event OnReceiveEvent is working on, or Null
    timers,       \* ids whose removal is posted, in the order of the posts
    removing,     \* the id whose data is erased and whose lists are not, or Null
    saIds,        \* saExtraDataIdMap_: ability -> list of ids
    queue,        \* the collect queue: events reported and not handled
    current,      \* the event being handled, or Null
    saving, todo, \* its abilities still to be given the id; its controls still to be checked
    acting,       \* the control whose load or unload is going on, or Null
    once,         \* startEnableOnceMap_, stopEnableOnceMap_
    done,         \* [kind -> ability -> event -> successful once-only acts]
    received, unrefs, removals,
    flags         \* "late", "twice"

vars == <<extraDataId, extraDatas, arriving, timers, removing, saIds, queue, current, saving, todo,
          acting, once, done, received, unrefs, removals, flags>>
dataVars == <<extraDataId, extraDatas, arriving, timers, received>>
handleVars == <<current, todo, acting, once, done>>

Init ==
    /\ extraDataId = 0 /\ extraDatas = [i \in Ids |-> Null] /\ arriving = Null
    /\ timers = <<>> /\ removing = Null /\ saIds = [sa \in SAs |-> <<>>]
    /\ queue = <<>> /\ current = Null /\ saving = <<>> /\ todo = <<>> /\ acting = Null
    /\ once = [k \in Kinds |-> [sa \in SAs |-> {}]]
    /\ done = [k \in Kinds |-> [sa \in SAs |-> [e \in Events |-> 0]]]
    /\ received = 0 /\ unrefs = 0 /\ removals = 0 /\ flags = {}

(* -------------------------------- arrival --------------------------------- *)

GenerateExtraDataId == IF extraDataId + 1 > MAX_EXTRA_DATA_ID THEN 1 ELSE extraDataId + 1

\* Fewer than MAX_EXTRA_DATA_ID events arrive while the data of one is kept.
SaveOnDemandReasonExtraData(e) ==
    LET id == GenerateExtraDataId
    IN  /\ arriving = Null /\ received < MaxReceived
        /\ extraDatas[id] = Null /\ id # removing /\ \A i \in DOMAIN queue : queue[i].id # id
        /\ current # Null => current.id # id
        /\ extraDataId' = id
        /\ extraDatas' = [extraDatas EXCEPT ![id] = e]
        /\ arriving' = [event |-> e, id |-> id, timed |-> FALSE]
        /\ received' = received + 1
        /\ UNCHANGED <<timers, removing, saIds, queue, handleVars, saving, unrefs, removals, flags>>

PostRemoval ==
    /\ arriving # Null /\ ~arriving.timed
    /\ arriving' = [arriving EXCEPT !.timed = TRUE]
    /\ timers' = Append(timers, arriving.id)
    /\ UNCHANGED <<extraDataId, extraDatas, received, removing, saIds, queue, handleVars, saving, unrefs,
                   removals, flags>>

\* OnReceiveEvent ends by posting the event to the collect queue.
ReportEvent ==
    /\ arriving # Null /\ arriving.timed
    /\ arriving' = Null
    /\ queue' = Append(queue, [event |-> arriving.event, id |-> arriving.id, stops |-> {}])
    /\ UNCHANGED <<extraDataId, extraDatas, received, timers, removing, saIds, handleVars, saving, unrefs,
                   removals, flags>>

\* RefCountCollect found abilities nobody but samgr refers to.
IdentifyUnrefOndemand(sas) ==
    /\ unrefs < MaxUnref /\ unrefs' = unrefs + 1
    /\ queue' = Append(queue, [event |-> Null, id |-> NoId, stops |-> sas])
    /\ UNCHANGED <<dataVars, removing, saIds, handleVars, saving, removals, flags>>

(* -------------------------------- removal --------------------------------- *)

RemoveData ==
    /\ timers # <<>> /\ removing = Null
    /\ timers' = Tail(timers) /\ removing' = Head(timers)
    /\ extraDatas' = [extraDatas EXCEPT ![Head(timers)] = Null]
    /\ UNCHANGED <<extraDataId, arriving, received, saIds, queue, handleVars, saving, unrefs, removals,
                   flags>>

\* Takes the first occurrence in every list.
RemoveSaExtraDataId ==
    /\ removing # Null /\ removing' = Null
    /\ saIds' = [sa \in SAs |-> RemoveFirst(saIds[sa], removing)]
    /\ UNCHANGED <<dataVars, queue, handleVars, saving, unrefs, removals, flags>>

\* The ability is removed, or its load has timed out.
ClearSaExtraDataId(sa) ==
    /\ removals < MaxRemoved /\ removals' = removals + 1
    /\ saIds' = [saIds EXCEPT ![sa] = <<>>]
    /\ UNCHANGED <<dataVars, removing, queue, handleVars, saving, unrefs, flags>>

(* ------------------------- the collect queue ------------------------------ *)

\* CheckExtraMessage: an event whose data has gone fits nothing.  Whether the messages an entry
\* asks for are in the data is left open, as its conditions are.
CheckExtraMessages(ev) == extraDatas[ev.id] = ev.event

\* The first entry of a list that fits; what it asks for may hold or not at this moment.
Picked(p, kind, ev, hold) ==
    LET list == p[kind]
        fit == {i \in DOMAIN list : /\ list[i].event = ev.event /\ CheckExtraMessages(ev)
                                    /\ list[i].conditional => hold}
    IN  IF fit = {} THEN <<>>
        ELSE LET first == list[Min(fit)]
             IN  <<[sa |-> p.sa, kind |-> kind, once |-> first.once, priority |-> first.priority,
                    cache |-> p.cache]>>

GetSaControlListByEvent(ev, hold) ==
    FlattenSeq([i \in DOMAIN Profiles |->
        Picked(Profiles[i], "start", ev, hold) \o Picked(Profiles[i], "stop", ev, hold)])

\* std::list::sort is stable.
SortSaControlListByLoadPriority(s) ==
    LET ps == {s[i].priority : i \in DOMAIN s}
        nth(n) == CHOOSE p \in ps : Cardinality({q \in ps : q < p}) = n - 1
    IN  FlattenSeq([n \in 1..Cardinality(ps) |-> SelectSeq(s, LAMBDA c : c.priority = nth(n))])

SaControlList(ev, hold) ==
    IF ev.id = NoId
    THEN SetToSeq({[sa |-> sa, kind |-> "stop", once |-> FALSE, priority |-> 0, cache |-> FALSE] :
                      sa \in ev.stops})
    ELSE SortSaControlListByLoadPriority(GetSaControlListByEvent(ev, hold))

\* GetCacheCommonEventSa lists an ability once per control.
GetCacheCommonEventSa(ev, list) ==
    IF ev.id = NoId THEN <<>>
    ELSE LET cached == SelectSeq(list, LAMBDA c : c.cache)
         IN  [i \in DOMAIN cached |-> cached[i].sa]

ProcessOnDemandEvent ==
    /\ current = Null /\ queue # <<>>
    /\ \E hold \in BOOLEAN :
         LET ev == Head(queue)
             list == SaControlList(ev, hold)
         IN  /\ current' = IF list = <<>> THEN Null ELSE ev
             /\ todo' = list
             /\ saving' = GetCacheCommonEventSa(ev, list)
             /\ flags' = IF IsInjective(saving') THEN flags ELSE flags \cup {"twice"}
    /\ queue' = Tail(queue)
    /\ UNCHANGED <<dataVars, removing, saIds, acting, once, done, unrefs, removals>>

SaveSaExtraDataId ==
    /\ current # Null /\ saving # <<>>
    /\ saving' = Tail(saving)
    /\ saIds' = [saIds EXCEPT ![Head(saving)] = Append(@, current.id)]
    /\ flags' = IF extraDatas[current.id] = Null /\ removing # current.id
                THEN flags \cup {"late"} ELSE flags
    /\ UNCHANGED <<dataVars, removing, queue, handleVars, unrefs, removals>>

Handled == IF Len(todo) = 1 THEN Null ELSE current

\* CheckStartEnableOnce and CheckStopEnableOnce, up to the load or unload.
CheckEnableOnce ==
    /\ current # Null /\ saving = <<>> /\ acting = Null
    /\ LET c == Head(todo)
       IN  IF c.once /\ current.event \in once[c.kind][c.sa]
           THEN /\ todo' = Tail(todo) /\ current' = Handled
                /\ UNCHANGED <<acting, once>>
           ELSE /\ acting' = c
                /\ once' = IF c.once THEN [once EXCEPT ![c.kind][c.sa] = @ \cup {current.event}] ELSE once
                /\ UNCHANGED <<todo, current>>
    /\ UNCHANGED <<dataVars, removing, saIds, saving, queue, done, unrefs, removals, flags>>

\* Mutant: the record stays when the load or unload has failed.
ActNoRollback ==
    /\ acting # Null
    /\ \E ok \in BOOLEAN :
         /\ done' = IF acting.once /\ ok
                    THEN [done EXCEPT ![acting.kind][acting.sa][current.event] = @ + 1] ELSE done
         /\ UNCHANGED once
    /\ acting' = Null /\ todo' = Tail(todo) /\ current' = Handled
    /\ UNCHANGED <<dataVars, removing, saIds, saving, queue, unrefs, removals, flags>>

\* HandleLoadAbilityEvent or HandleUnloadAbilityEvent answers; a failed once-only act is forgotten.
Act ==
    /\ acting # Null
    /\ \E ok \in BOOLEAN :
         /\ done' = IF acting.once /\ ok
                    THEN [done EXCEPT ![acting.kind][acting.sa][current.event] = @ + 1] ELSE done
         /\ once' = IF acting.once /\ ~ok
                    THEN [once EXCEPT ![acting.kind][acting.sa] = @ \ {current.event}] ELSE once
    /\ acting' = Null /\ todo' = Tail(todo) /\ current' = Handled
    /\ UNCHANGED <<dataVars, removing, saIds, saving, queue, unrefs, removals, flags>>

Next ==
    \/ \E e \in Events : SaveOnDemandReasonExtraData(e)
    \/ PostRemoval \/ ReportEvent
    \/ \E sas \in SUBSET SAs \ {{}} : IdentifyUnrefOndemand(sas)
    \/ RemoveData \/ RemoveSaExtraDataId
    \/ \E sa \in SAs : ClearSaExtraDataId(sa)
    \/ ProcessOnDemandEvent \/ SaveSaExtraDataId \/ CheckEnableOnce \/ Act

Spec == Init /\ [][Next]_vars

(* ------------------------------- properties ------------------------------- *)

\* An id in the list of an ability has its data, or is being removed at this moment, whatever
\* order arrival, handling, removal and the end of the ability come in - unless the id was
\* listed after its data had gone (the queue was more than five minutes late), or listed
\* twice, because the event both starts and stops the ability: the removal takes one of them.
ListedHasData ==
    flags = {} => \A sa \in SAs : \A i \in DOMAIN saIds[sa] :
                    extraDatas[saIds[sa][i]] # Null \/ removing = saIds[sa][i]

\* Data that is kept has its removal posted, or its arrival is not finished.
DataExpires ==
    \A id \in Ids : extraDatas[id] # Null =>
        id \in Range(timers) \/ (arriving # Null /\ arriving.id = id)

\* A once-only event is recorded for an ability exactly when it has acted on it successfully,
\* once, or is doing so now: failures are forgotten, successes never repeated.
OnceMeansDoneOnce ==
    \A k \in Kinds, sa \in SAs, e \in Events :
        LET now == /\ acting # Null /\ acting.once /\ acting.kind = k /\ acting.sa = sa
                   /\ current.event = e
        IN  done[k][sa][e] = IF e \in once[k][sa] /\ ~now THEN 1 ELSE 0
=============================================================================
