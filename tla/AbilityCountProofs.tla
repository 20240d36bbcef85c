------------------------- MODULE AbilityCountProofs -------------------------
(***************************************************************************)
(* Proofs about AbilityScheduler, for any number of SAs, processes and     *)
(* callbacks and any bounds: every variable keeps its type, and the counts *)
(* of abilityStateCountMap agree with the states of the SAs.               *)
(***************************************************************************)
EXTENDS AbilityScheduler, FiniteSetTheorems, SequenceTheorems, TLAPS

-----------------------------------------------------------------------------
(* The transition operator.                                                *)

(* What a handler of process p may do to a context: the counts are those   *)
(* of the SAs of p, and the SAs of other processes have not moved.         *)
CountsOf(c, p) ==
    \A x \in AbilityStates : c.cnt[x] = Cardinality({s \in saList(p) : c.sa[s] = x})

ContextOK(c, p) ==
    /\ c \in Contexts
    /\ CountsOf(c, p)
    /\ \A s \in SAs \ saList(p) : c.sa[s] = saState[s]

(* The states of the SAs after those of S were moved to a state.           *)
Moved(sa, S, to) ==
    [s \in SAs |-> IF s \in S /\ CanEnter(sa[s], to) THEN to ELSE sa[s]]

(* Any set of SAs is finite, and so are the sets counted below.            *)
LEMMA SubsetsFinite ==
    ASSUME NEW S \in SUBSET SAs
    PROVE  IsFiniteSet(S) /\ Cardinality(S) \in Nat
BY SAsFinite, FS_Subset, FS_CardinalityType

(* With correct counts, UpdateStateCount never refuses: an SA moves        *)
(* whenever it may enter the state.                                        *)
LEMMA NoRefusal ==
    ASSUME NEW p \in Procs, NEW c, ContextOK(c, p), NEW S \in SUBSET saList(p),
           NEW to \in AbilityStates
    PROVE  {s \in S : CanEnter(c.sa[s], to) /\ c.cnt[c.sa[s]] > 0}
               = {s \in S : CanEnter(c.sa[s], to)}
<1> SUFFICES ASSUME NEW s \in S PROVE c.cnt[c.sa[s]] > 0
    OBVIOUS
<1> DEFINE same == {t \in saList(p) : c.sa[t] = c.sa[s]}
<1>1. s \in saList(p) /\ s \in SAs /\ c.sa[s] \in AbilityStates
    BY DEF ContextOK, Contexts, saList
<1>2. s \in same /\ same \in SUBSET SAs
    BY <1>1 DEF saList
<1>3. Cardinality(same) # 0 /\ Cardinality(same) \in Nat
    BY <1>2, SubsetsFinite, FS_EmptySet
<1>4. c.cnt[c.sa[s]] = Cardinality(same)
    BY <1>1 DEF ContextOK, CountsOf
<1> QED BY <1>3, <1>4

(* AbilityStateTransitionLocked keeps the counts right, for any set of SAs *)
(* of the process, and moves exactly the SAs that may enter the state.     *)
LEMMA TransitionOK ==
    ASSUME NEW p \in Procs, NEW c, ContextOK(c, p), NEW S \in SUBSET saList(p),
           NEW to \in AbilityStates
    PROVE  /\ ContextOK(AbilityStateTransition(c, S, to), p)
           /\ AbilityStateTransition(c, S, to).sa = Moved(c.sa, S, to)
<1> DEFINE M == {s \in S : CanEnter(c.sa[s], to)}
           d == AbilityStateTransition(c, S, to)
<1>1. /\ d = [sa |-> [s \in SAs |-> IF s \in M THEN to ELSE c.sa[s]],
              cnt |-> UpdateStateCount(c, M, to)]
  <2>1. {s \in S : CanEnter(c.sa[s], to) /\ c.cnt[c.sa[s]] > 0} = M
    BY NoRefusal
  <2> QED BY <2>1 DEF AbilityStateTransition
<1>2. /\ c \in Contexts /\ c.sa \in [SAs -> AbilityStates]
      /\ c.cnt \in [AbilityStates -> Int]
    BY DEF ContextOK, Contexts
<1>3. M \in SUBSET SAs /\ M \in SUBSET saList(p)
    BY DEF saList
<1>5. d.sa = Moved(c.sa, S, to)
    BY <1>1, <1>2 DEF Moved
<1>6. ASSUME NEW x \in AbilityStates
      PROVE  d.cnt[x] = Cardinality({s \in saList(p) : d.sa[s] = x}) /\ d.cnt[x] \in Int
  <2> DEFINE before == {s \in saList(p) : c.sa[s] = x}
             leaving == {s \in M : c.sa[s] = x}
             after == {s \in saList(p) : d.sa[s] = x}
  <2>1. before \in SUBSET SAs /\ leaving \in SUBSET before
    BY <1>3 DEF saList
  <2>2. /\ c.cnt[x] = Cardinality(before)
        /\ Cardinality(before) \in Nat /\ IsFiniteSet(before)
        /\ Cardinality(M) \in Nat /\ IsFiniteSet(M)
        /\ Cardinality(leaving) \in Nat /\ IsFiniteSet(leaving)
    BY <1>3, <2>1, SubsetsFinite DEF ContextOK, CountsOf
  <2>3. d.cnt = UpdateStateCount(c, M, to)
    BY <1>1
  <2>4. CASE x = to
    <3>1. after = before \cup M
        BY <1>1, <1>3, <2>4 DEF saList
    <3>2. before \cap M = {}
        BY <2>4 DEF CanEnter
    <3>3. UpdateStateCount(c, M, to)[x] = c.cnt[x] + Cardinality(M)
        BY <2>4 DEF UpdateStateCount
    <3> HIDE DEF before, leaving, after, M, d
    <3>4. Cardinality(before \cup M) = Cardinality(before) + Cardinality(M)
        BY <2>2, <3>2, FS_Union, FS_EmptySet
    <3>5. d.cnt[x] = Cardinality(after) /\ d.cnt[x] \in Int
        BY <2>2, <2>3, <3>1, <3>3, <3>4
    <3> QED BY <3>5 DEF after
  <2>5. CASE x # to
    <3>1. after = before \ leaving
        BY <1>1, <1>3, <2>5 DEF saList
    <3>2. before \cap leaving = leaving
        BY <2>1
    <3>3. UpdateStateCount(c, M, to)[x] = c.cnt[x] - Cardinality(leaving)
        BY <2>5 DEF UpdateStateCount
    <3> HIDE DEF before, leaving, after, M, d
    <3>4. Cardinality(before \ leaving) = Cardinality(before) - Cardinality(leaving)
      <4>1. Cardinality(before \ leaving)
              = Cardinality(before) - Cardinality(before \cap leaving)
        BY <2>2, FS_Difference, Zenon
      <4> QED BY <3>2, <4>1
    <3>5. d.cnt[x] = Cardinality(after) /\ d.cnt[x] \in Int
        BY <2>2, <2>3, <3>1, <3>3, <3>4
    <3> QED BY <3>5 DEF after
  <2> QED BY <2>4, <2>5
<1>7. d \in Contexts
  <2>1. d.sa \in [SAs -> AbilityStates]
    BY <1>1, <1>2
  <2>2. d.cnt \in [AbilityStates -> Int]
    <3>1. d.cnt = [x \in AbilityStates |-> d.cnt[x]]
        BY <1>1 DEF UpdateStateCount
    <3> HIDE DEF d
    <3> QED BY <1>6, <3>1
  <2> QED BY <1>1, <2>1, <2>2 DEF Contexts
<1>8. \A s \in SAs \ saList(p) : d.sa[s] = saState[s]
    BY <1>1, <1>3 DEF ContextOK
<1> QED BY <1>5, <1>6, <1>7, <1>8 DEF ContextOK, CountsOf

-----------------------------------------------------------------------------
(* Type correctness and the counts.                                        *)

(* The part of the invariant that is about the states and their counts.    *)
AbilityInv ==
    /\ saState \in [SAs -> AbilityStates]
    /\ stateCount \in [Procs -> [AbilityStates -> Int]]
    /\ StateCountsMatch

CountInv == TypeOK /\ StateCountsMatch

(* A handler starts from a context with correct counts.                    *)
LEMMA ContextIsOK ==
    ASSUME AbilityInv, NEW p \in Procs
    PROVE  ContextOK(Context(p), p)
<1>1. Context(p) \in Contexts
    BY DEF AbilityInv, Context, Contexts
<1>2. CountsOf(Context(p), p)
    BY DEF AbilityInv, StateCountsMatch, CountsOf, Context
<1> QED BY <1>1, <1>2 DEF ContextOK, Context

(* Storing a context with correct counts keeps the counts of all           *)
(* processes correct.                                                      *)
LEMMA StoreOK ==
    ASSUME AbilityInv, NEW p \in Procs, NEW c, ContextOK(c, p), Store(p, c)
    PROVE  AbilityInv' /\ saState' = c.sa
<1>1. /\ saState' = c.sa /\ c.sa \in [SAs -> AbilityStates]
      /\ c.cnt \in [AbilityStates -> Int]
    BY DEF Store, ContextOK, Contexts
<1>2. stateCount' \in [Procs -> [AbilityStates -> Int]]
    BY <1>1 DEF Store, AbilityInv
<1>3. ASSUME NEW q \in Procs, NEW x \in AbilityStates
      PROVE  stateCount'[q][x] = Cardinality({s \in saList(q) : saState'[s] = x})
  <2>1. CASE q = p
    BY <1>1, <2>1 DEF Store, AbilityInv, ContextOK, CountsOf
  <2>2. CASE q # p
    <3>1. {s \in saList(q) : saState'[s] = x} = {s \in saList(q) : saState[s] = x}
        BY <1>1, <2>2 DEF ContextOK, saList
    <3>2. stateCount'[q] = stateCount[q]
        BY <2>2 DEF Store, AbilityInv
    <3> QED BY <3>1, <3>2 DEF AbilityInv, StateCountsMatch
  <2> QED BY <2>1, <2>2
<1> QED BY <1>1, <1>2, <1>3 DEF AbilityInv, StateCountsMatch, saList

(* One transition, of any SAs of the process, stored.                      *)
LEMMA StoreTransition ==
    ASSUME AbilityInv, NEW p \in Procs, NEW S \in SUBSET saList(p),
           NEW to \in AbilityStates,
           Store(p, AbilityStateTransition(Context(p), S, to))
    PROVE  AbilityInv' /\ saState' = Moved(saState, S, to)
<1>1. ContextOK(Context(p), p) /\ Context(p).sa = saState
    BY ContextIsOK DEF Context
<1>2. /\ ContextOK(AbilityStateTransition(Context(p), S, to), p)
      /\ AbilityStateTransition(Context(p), S, to).sa = Moved(saState, S, to)
    BY <1>1, TransitionOK
<1> QED BY <1>2, StoreOK

(* OnAbilityUnloadableLocked: a LOADED SA becomes UNLOADABLE, or UNLOADING *)
(* if it unloads independently and could be told.                          *)
LEMMA UnloadableStep ==
    ASSUME AbilityInv, NEW s \in SAs, saState[s] = "LOADED", NEW queue,
           NEW stopOk \in BOOLEAN, OnAbilityUnloadable(s, queue, stopOk)
    PROVE  /\ AbilityInv'
           /\ saState' = [saState EXCEPT ![s] =
                            IF s \in IndependentUnload /\ stopOk
                              THEN "UNLOADING" ELSE "UNLOADABLE"]
<1> DEFINE p == ProcOf[s]
           c == AbilityStateTransition(Context(p), {s}, "UNLOADABLE")
           d == AbilityStateTransition(c, {s}, "UNLOADING")
<1>1. p \in Procs /\ {s} \in SUBSET saList(p)
    BY SchedulerAssumption DEF saList
<1>2. ContextOK(Context(p), p) /\ Context(p).sa = saState
    BY <1>1, ContextIsOK DEF Context
<1>3. ContextOK(c, p) /\ c.sa = Moved(saState, {s}, "UNLOADABLE")
    BY <1>1, <1>2, TransitionOK DEF AbilityStates
<1>4. ContextOK(d, p) /\ d.sa = Moved(c.sa, {s}, "UNLOADING")
  <2> HIDE DEF c
  <2> QED BY <1>1, <1>3, TransitionOK DEF AbilityStates
<1>5. c.sa = [saState EXCEPT ![s] = "UNLOADABLE"]
    BY <1>3 DEF Moved, CanEnter, AbilityInv
<1>6. d.sa = [saState EXCEPT ![s] = "UNLOADING"]
    BY <1>4, <1>5 DEF Moved, CanEnter, AbilityInv
<1>7. Store(p, IF s \in IndependentUnload /\ stopOk THEN d ELSE c)
    BY DEF OnAbilityUnloadable
<1> HIDE DEF p, c, d
<1>8. CASE s \in IndependentUnload /\ stopOk
    BY <1>1, <1>4, <1>6, <1>7, <1>8, StoreOK
<1>9. CASE ~(s \in IndependentUnload /\ stopOk)
    BY <1>1, <1>3, <1>5, <1>7, <1>9, StoreOK
<1> QED BY <1>8, <1>9

(* ProcessDelayUnloadEventLocked on a LOADED SA.                           *)
LEMMA DelayUnloadStep ==
    ASSUME AbilityInv, NEW s \in SAs, saState[s] = "LOADED", NEW queue, NEW answer,
           NEW stopOk \in BOOLEAN, ProcessDelayUnload(s, queue, answer, stopOk)
    PROVE  /\ AbilityInv'
           /\ \/ saState' = saState
              \/ /\ saState' = [saState EXCEPT ![s] =
                                  IF s \in IndependentUnload /\ stopOk
                                    THEN "UNLOADING" ELSE "UNLOADABLE"]
                 /\ procState[ProcOf[s]] # "NOT_STARTED"
<1>1. CASE answer = "agree" /\ OnAbilityUnloadable(s, queue, stopOk)
  <2>1. procState[ProcOf[s]] # "NOT_STARTED"
    BY <1>1 DEF ProcessDelayUnload, IdleAnswers
  <2> QED BY <1>1, <2>1, UnloadableStep
<1>2. CASE UNCHANGED abilityVars
    BY <1>2 DEF abilityVars, AbilityInv, StateCountsMatch, saList
<1> QED BY <1>1, <1>2 DEF ProcessDelayUnload, abilityVars

(* OnProcessNotStartedLocked: every SA of the process is NOT_LOADED, or    *)
(* LOADING if a load was started for it again.                             *)
LEMMA NotStartedStep ==
    ASSUME AbilityInv, NEW p \in Procs, NEW loading \in SUBSET saList(p),
           NEW watermark \in BOOLEAN, NEW tooFast \in BOOLEAN,
           ProcessNotStarted(p, loading, watermark, tooFast)
    PROVE  /\ AbilityInv'
           /\ saState' = [s \in SAs |-> IF s \in loading THEN "LOADING"
                                         ELSE IF s \in saList(p) THEN "NOT_LOADED"
                                         ELSE saState[s]]
<1> DEFINE c == AbilityStateTransition(Context(p), saList(p), "NOT_LOADED")
           d == AbilityStateTransition(c, loading, "LOADING")
<1>1. ContextOK(Context(p), p) /\ Context(p).sa = saState
    BY ContextIsOK DEF Context
<1>2. ContextOK(c, p) /\ c.sa = Moved(saState, saList(p), "NOT_LOADED")
    BY <1>1, TransitionOK DEF AbilityStates
<1>3. ContextOK(d, p) /\ d.sa = Moved(c.sa, loading, "LOADING")
  <2> HIDE DEF c
  <2> QED BY <1>2, TransitionOK DEF AbilityStates
<1>4. c.sa = [s \in SAs |-> IF s \in saList(p) THEN "NOT_LOADED" ELSE saState[s]]
    BY <1>2 DEF Moved, CanEnter
<1>5. d.sa = [s \in SAs |-> IF s \in loading THEN "LOADING"
                             ELSE IF s \in saList(p) THEN "NOT_LOADED" ELSE saState[s]]
    BY <1>3, <1>4 DEF Moved, CanEnter
<1>6. Store(p, d)
    BY DEF ProcessNotStarted
<1> HIDE DEF c, d
<1> QED BY <1>3, <1>5, <1>6, StoreOK

(* Every step of the scheduler keeps the counts equal to the numbers of    *)
(* SAs: no handler changes a state without its count.                      *)
LEMMA AbilityInvStep ==
    ASSUME AbilityInv, [Next]_vars
    PROVE  AbilityInv'
<1>0. ASSUME UNCHANGED abilityVars PROVE AbilityInv'
    BY <1>0 DEF abilityVars, AbilityInv, StateCountsMatch, saList
<1> USE SchedulerAssumption DEF AbilityStates
<1>1. ASSUME NEW s \in SAs, SANext(s) PROVE AbilityInv'
  <2>0. ProcOf[s] \in Procs /\ {s} \in SUBSET saList(ProcOf[s])
    BY DEF saList
  <2>1. CASE HandleLoadAbilityEvent(s)
    <3>1. CASE \E cb \in Callbacks, tooOld \in BOOLEAN : PendLoad(s, cb, tooOld)
        BY <1>0, <3>1 DEF PendLoad
    <3>2. ASSUME NEW ok \in BOOLEAN, LoadNow(s, ok) PROVE AbilityInv'
        BY <1>0, <2>0, <3>2, StoreTransition DEF LoadNow
    <3> QED BY <2>1, <3>1, <3>2 DEF HandleLoadAbilityEvent
  <2>2. CASE HandleCheckLoad(s)
    BY <2>0, <2>2, StoreTransition DEF HandleCheckLoad
  <2>3. CASE HandleUnloadAbilityEvent(s)
    BY <1>0, <2>3, DelayUnloadStep DEF HandleUnloadAbilityEvent, HandleUnload
  <2>4. CASE HandleCancelUnloadAbilityEvent(s)
    BY <2>0, <2>4, StoreTransition DEF HandleCancelUnloadAbilityEvent
  <2>5. CASE HandleLoadSuccessEvent(s)
    BY <2>0, <2>5, StoreTransition DEF HandleLoadSuccessEvent
  <2>6. CASE HandleLoadFailedEvent(s)
    BY <2>0, <2>6, StoreTransition DEF HandleLoadFailedEvent
  <2>7. CASE HandleUnloadSuccessEvent(s)
    BY <2>0, <2>7, StoreTransition DEF HandleUnloadSuccessEvent
  <2>8. CASE DelayUnloadFires(s)
    BY <1>0, <2>8 DEF DelayUnloadFires
  <2>9. CASE DelayUnloadRuns(s)
    BY <1>0, <2>9, DelayUnloadStep DEF DelayUnloadRuns
  <2>10. CASE HandlePendingUnloadEvent(s)
    BY <1>0, <2>10, DelayUnloadStep DEF HandlePendingUnloadEvent, HandleUnload
  <2>11. CASE OverflowClears(s)
    BY <1>0, <2>11 DEF OverflowClears
  <2> QED BY <1>1, <2>1, <2>2, <2>3, <2>4, <2>5, <2>6, <2>7, <2>8, <2>9, <2>10, <2>11
          DEF SANext
<1>2. ASSUME NEW p \in Procs, ProcNext(p) PROVE AbilityInv'
  <2>0. ASSUME NEW told \in SUBSET saList(p), UnloadAllSystemAbility(p, told)
        PROVE  AbilityInv'
    BY <2>0, StoreTransition DEF UnloadAllSystemAbility
  <2>1. CASE UnloadProcess(p)
    BY <2>0, <2>1 DEF UnloadProcess
  <2>2. CASE TryUnloadAllSystemAbility(p)
    BY <1>0, <2>0, <2>2 DEF TryUnloadAllSystemAbility
  <2>3. CASE TryKillSystemProcess(p)
    BY <1>0, <2>3 DEF TryKillSystemProcess
  <2>4. CASE UnloadTimeoutFires(p)
    BY <1>0, <2>4 DEF UnloadTimeoutFires
  <2>5. CASE UnloadTimeoutRuns(p)
    BY <1>0, <2>5 DEF UnloadTimeoutRuns
  <2>6. CASE HandleProcessStartedEvent(p)
    BY <1>0, <2>6 DEF HandleProcessStartedEvent
  <2>7. CASE HandleProcessStoppedEvent(p)
    BY <2>7, NotStartedStep DEF HandleProcessStoppedEvent
  <2>8. CASE OverflowStops(p)
    BY <1>0, <2>8, NotStartedStep DEF OverflowStops
  <2> QED BY <1>2, <2>1, <2>2, <2>3, <2>4, <2>5, <2>6, <2>7, <2>8 DEF ProcNext
<1>3. CASE UNCHANGED vars
    BY <1>0, <1>3 DEF vars, abilityVars
<1> QED BY <1>1, <1>2, <1>3 DEF Next

(* The task queue holds tasks after a post, and after the first task was   *)
(* taken.                                                                  *)
LEMMA QueueStep ==
    ASSUME taskQueue \in Seq(Tasks)
    PROVE  /\ taskQueue # <<>> => Tail(taskQueue) \in Seq(Tasks)
           /\ \A s \in SAs : << <<"pendingUnload", s>> >> \in Seq(Tasks)
           /\ \A p \in Procs : /\ << <<"tryUnloadAll", p>> >> \in Seq(Tasks)
                               /\ << <<"tryKill", p>> >> \in Seq(Tasks)
           /\ \A queue \in Seq(Tasks), tasks \in Seq(Tasks) :
                Post(queue, tasks) => taskQueue' \in Seq(Tasks)
<1>1. taskQueue # <<>> => Tail(taskQueue) \in Seq(Tasks)
    BY HeadTailProperties
<1>2. \A queue \in Seq(Tasks), tasks \in Seq(Tasks) :
        Post(queue, tasks) => taskQueue' \in Seq(Tasks)
    BY ConcatProperties DEF Post
<1>3. \A s \in SAs : << <<"pendingUnload", s>> >> \in Seq(Tasks)
    BY DEF Tasks
<1>4. \A p \in Procs : /\ << <<"tryUnloadAll", p>> >> \in Seq(Tasks)
                      /\ << <<"tryKill", p>> >> \in Seq(Tasks)
    BY DEF Tasks
<1> QED BY <1>1, <1>2, <1>3, <1>4

(* ProcessStateTransitionLocked yields a process state.                    *)
LEMMA ProcessTransitionType ==
    ASSUME NEW from \in ProcStates, NEW to \in ProcStates
    PROVE  ProcessStateTransition(from, to) \in ProcStates
BY DEF ProcessStateTransition

(* An unload request, new or pending, keeps the variables it touches in    *)
(* their types.                                                            *)
LEMMA UnloadTypeStep ==
    ASSUME TypeOK, NEW s \in SAs,
           HandleUnloadAbilityEvent(s) \/ HandlePendingUnloadEvent(s)
    PROVE  /\ taskQueue' \in Seq(Tasks)
           /\ pendingEvent' \in [SAs -> {"NO_EVENT", "LOAD"} \cup UnloadKinds]
           /\ unloadRequest' \in [SAs -> BOOLEAN]
           /\ delayUnload' \in [SAs -> BOOLEAN]
           /\ notice' \in [Procs -> {"none", "activated", "idled"}]
<1> USE SchedulerAssumption
<1> USE DEF TypeOK, HandleUnloadAbilityEvent, HandlePendingUnloadEvent, HandleUnload
<1>1. taskQueue' \in Seq(Tasks)
    BY QueueStep DEF NextTask, ProcessDelayUnload, OnAbilityUnloadable
<1>2. pendingEvent' \in [SAs -> {"NO_EVENT", "LOAD"} \cup UnloadKinds]
  <2>1. \/ pendingEvent' = pendingEvent
        \/ \E e \in {"NO_EVENT", "LOAD"} \cup UnloadKinds :
                pendingEvent' = [pendingEvent EXCEPT ![s] = e]
    OBVIOUS
  <2> HIDE DEF HandleUnloadAbilityEvent, HandlePendingUnloadEvent, HandleUnload
  <2> QED BY <2>1
<1>3. unloadRequest' \in [SAs -> BOOLEAN]
    OBVIOUS
<1>4. delayUnload' \in [SAs -> BOOLEAN]
    BY DEF ProcessDelayUnload
<1>5. notice' \in [Procs -> {"none", "activated", "idled"}]
    BY DEF ProcessDelayUnload, OnAbilityUnloadable
<1> QED BY <1>1, <1>2, <1>3, <1>4, <1>5

(* Every step keeps every variable in its type; in particular no counter   *)
(* leaves its range.                                                       *)
LEMMA TypeStep ==
    ASSUME TypeOK, StateCountsMatch, [Next]_vars
    PROVE  TypeOK'
<1>1. AbilityInv
    BY DEF TypeOK, AbilityInv
<1>2. saState' \in [SAs -> AbilityStates] /\ stateCount' \in [Procs -> [AbilityStates -> Int]]
    BY <1>1, AbilityInvStep DEF AbilityInv
<1> USE SchedulerAssumption
<1> USE DEF TypeOK, pendingVars, restartVars, delayVars, timerVars, recoverVars
<1>3. ASSUME NEW s \in SAs, SANext(s) PROVE TypeOK'
  <2>0. ProcOf[s] \in Procs
    OBVIOUS
  <2>1. ASSUME NEW cb \in Callbacks, NEW tooOld \in BOOLEAN, PendLoad(s, cb, tooOld)
        PROVE  TypeOK'
    <3>1. Append(recoverQueue, s) \in Seq(SAs)
        BY AppendProperties
    <3>2. recoverQueue' \in Seq(SAs)
        BY <2>1, <3>1 DEF PendLoad
    <3>3. pendingLoads' \in [SAs -> SUBSET Callbacks]
      <4>1. pendingLoads' = pendingLoads
            \/ pendingLoads' = [pendingLoads EXCEPT ![s] = pendingLoads[s] \cup {cb}]
        BY <2>1 DEF PendLoad
      <4>2. pendingLoads \in [SAs -> SUBSET Callbacks]
        OBVIOUS
      <4> HIDE DEF TypeOK
      <4>3. pendingLoads[s] \cup {cb} \in SUBSET Callbacks
        BY <4>2
      <4> QED BY <4>1, <4>2, <4>3
    <3>4. pendingEvent' \in [SAs -> {"NO_EVENT", "LOAD"} \cup UnloadKinds]
        BY <2>1 DEF PendLoad
    <3>5. pendingSince' \in [Procs -> BOOLEAN]
        BY <2>0, <2>1 DEF PendLoad
    <3>6. UNCHANGED <<procState, unloadRequest, restartVars, delayVars, taskQueue, timerVars,
                      recoverRunning, stopSent, notice>>
        BY <2>1 DEF PendLoad
    <3> QED BY <1>2, <3>2, <3>3, <3>4, <3>5, <3>6
  <2>2. ASSUME NEW ok \in BOOLEAN, LoadNow(s, ok) PROVE TypeOK'
    <3>1. taskQueue' \in Seq(Tasks)
        BY <2>2, QueueStep DEF LoadNow, OnAbilityLoaded
    <3> QED BY <1>2, <2>0, <2>2, <3>1 DEF LoadNow, OnAbilityLoaded, WithoutUnload
  <2>3. CASE HandleCheckLoad(s)
    BY <1>2, <2>3 DEF HandleCheckLoad
  <2>5. CASE HandleUnloadAbilityEvent(s)
    BY <1>2, <2>5, UnloadTypeStep DEF HandleUnloadAbilityEvent
  <2>6. CASE HandleCancelUnloadAbilityEvent(s)
    <3>1. taskQueue' \in Seq(Tasks)
        BY <2>6, QueueStep DEF HandleCancelUnloadAbilityEvent, OnAbilityLoaded
    <3> QED BY <1>2, <2>0, <2>6, <3>1 DEF HandleCancelUnloadAbilityEvent, OnAbilityLoaded
  <2>7. CASE HandleLoadSuccessEvent(s)
    <3>1. taskQueue' \in Seq(Tasks)
        BY <2>7, QueueStep DEF HandleLoadSuccessEvent, OnAbilityLoaded
    <3> QED BY <1>2, <2>0, <2>7, <3>1 DEF HandleLoadSuccessEvent, OnAbilityLoaded
  <2>8. ASSUME OnAbilityNotLoaded(s)
        PROVE  /\ taskQueue' \in Seq(Tasks)
               /\ delayUnload' \in [SAs -> BOOLEAN]
               /\ pendingEvent' \in [SAs -> {"NO_EVENT", "LOAD"} \cup UnloadKinds]
    <3>1. << >> \in Seq(Tasks)
        OBVIOUS
    <3>2. taskQueue' \in Seq(Tasks)
        BY <2>0, <2>8, <3>1, QueueStep DEF OnAbilityNotLoaded
    <3> QED BY <2>8, <3>2 DEF OnAbilityNotLoaded, WithoutUnload
  <2>9. CASE HandleLoadFailedEvent(s)
    BY <1>2, <2>8, <2>9 DEF HandleLoadFailedEvent
  <2>10. CASE HandleUnloadSuccessEvent(s)
    BY <1>2, <2>8, <2>10 DEF HandleUnloadSuccessEvent
  <2>11. CASE DelayUnloadFires(s)
    BY <1>2, <2>11 DEF DelayUnloadFires
  <2>12. CASE DelayUnloadRuns(s)
    <3>1. /\ taskQueue' \in Seq(Tasks)
          /\ delayUnload' \in [SAs -> BOOLEAN]
          /\ notice' \in [Procs -> {"none", "activated", "idled"}]
        BY <2>0, <2>12, QueueStep DEF DelayUnloadRuns, ProcessDelayUnload, OnAbilityUnloadable
    <3> QED BY <1>2, <2>12, <3>1 DEF DelayUnloadRuns
  <2>13. CASE HandlePendingUnloadEvent(s)
    BY <1>2, <2>13, UnloadTypeStep DEF HandlePendingUnloadEvent
  <2>14. CASE OverflowClears(s)
    <3>1. recoverQueue' \in Seq(SAs)
        BY <2>14, HeadTailProperties DEF OverflowClears
    <3> QED BY <1>2, <2>0, <2>14, <3>1 DEF OverflowClears
  <2> HIDE DEF TypeOK
  <2>15. CASE HandleLoadAbilityEvent(s)
    BY <2>1, <2>2, <2>15 DEF HandleLoadAbilityEvent
  <2> QED BY <1>3, <2>3, <2>5, <2>6, <2>7, <2>9, <2>10, <2>11, <2>12, <2>13, <2>14, <2>15
          DEF SANext
<1>4. ASSUME NEW p \in Procs, ProcNext(p) PROVE TypeOK'
  <2>0. /\ \A to \in ProcStates : ProcessStateTransition(procState[p], to) \in ProcStates
        /\ {"NOT_STARTED", "STARTED", "STOPPING"} \subseteq ProcStates
    BY ProcessTransitionType DEF ProcStates
  <2>1. ASSUME NEW told, UnloadAllSystemAbility(p, told)
        PROVE  /\ unloadTimers' \in [Procs -> 0..MaxTimers]
               /\ procState' \in [Procs -> ProcStates]
    <3>1. procState' \in [Procs -> ProcStates]
        BY <2>0, <2>1 DEF UnloadAllSystemAbility
    <3>2. unloadTimers \in [Procs -> 0..MaxTimers] /\ MaxTimers \in Nat
        OBVIOUS
    <3> HIDE DEF TypeOK
    <3>3. /\ unloadTimers[p] < MaxTimers
          /\ unloadTimers' = [unloadTimers EXCEPT ![p] = unloadTimers[p] + 1]
        BY <2>1, Zenon DEF UnloadAllSystemAbility
    <3>4. unloadTimers[p] \in 0..MaxTimers
        BY <3>2
    <3>5. unloadTimers[p] + 1 \in 0..MaxTimers
        BY <3>2, <3>3, <3>4
    <3>6. unloadTimers' \in [Procs -> 0..MaxTimers]
        BY <3>2, <3>3, <3>5
    <3> QED BY <3>1, <3>6
  <2>2. CASE UnloadProcess(p)
    BY <1>2, <2>1, <2>2 DEF UnloadProcess
  <2>3. CASE TryUnloadAllSystemAbility(p)
    <3>1. taskQueue' \in Seq(Tasks)
        BY <2>3, QueueStep DEF TryUnloadAllSystemAbility, NextTask
    <3> QED BY <1>2, <2>1, <2>3, <3>1 DEF TryUnloadAllSystemAbility
  <2>4. CASE TryKillSystemProcess(p)
    <3>1. taskQueue' \in Seq(Tasks)
        BY <2>4, QueueStep DEF TryKillSystemProcess, NextTask
    <3> QED BY <1>2, <2>4, <3>1 DEF TryKillSystemProcess, ServiceControlStop
  <2>5. CASE UnloadTimeoutFires(p)
    <3>1. unloadTimers[p] - 1 \in 0..MaxTimers
      <4>1. unloadTimers[p] \in 0..MaxTimers /\ unloadTimers[p] > 0 /\ MaxTimers \in Nat
        BY <2>5, Zenon DEF UnloadTimeoutFires
      <4> HIDE DEF TypeOK
      <4> QED BY <4>1
    <3>2. unloadTimers' \in [Procs -> 0..MaxTimers]
        BY <2>5, <3>1 DEF UnloadTimeoutFires
    <3> QED BY <1>2, <2>5, <3>2 DEF UnloadTimeoutFires
  <2>6. CASE UnloadTimeoutRuns(p)
    BY <1>2, <2>6 DEF UnloadTimeoutRuns, ServiceControlStop
  <2>7. CASE HandleProcessStartedEvent(p)
    BY <1>2, <2>0, <2>7 DEF HandleProcessStartedEvent
  <2>8. ASSUME NEW loading, NEW watermark \in BOOLEAN, NEW tooFast \in BOOLEAN,
               ProcessNotStarted(p, loading, watermark, tooFast)
        PROVE  /\ procState' \in [Procs -> ProcStates]
               /\ stopSent' \in [Procs -> BOOLEAN]
               /\ unloadTimers' \in [Procs -> 0..MaxTimers]
               /\ pendingSince' \in [Procs -> BOOLEAN]
               /\ delayUnload' \in [SAs -> BOOLEAN]
               /\ pendingEvent' \in [SAs -> {"NO_EVENT", "LOAD"} \cup UnloadKinds]
               /\ pendingLoads' \in [SAs -> SUBSET Callbacks]
               /\ enableRestart' \in [Procs -> BOOLEAN]
               /\ restarts' \in [Procs -> 0..RestartLimit]
    <3>1. procState' \in [Procs -> ProcStates] /\ stopSent' \in [Procs -> BOOLEAN]
        BY <2>0, <2>8 DEF ProcessNotStarted
    <3>2. unloadTimers' \in [Procs -> 0..MaxTimers] /\ pendingSince' \in [Procs -> BOOLEAN]
      <4>1. 0 \in 0..MaxTimers
        OBVIOUS
      <4> QED BY <2>8, <4>1 DEF ProcessNotStarted
    <3>3. delayUnload' \in [SAs -> BOOLEAN]
        BY <2>8 DEF ProcessNotStarted
    <3>4. pendingEvent' \in [SAs -> {"NO_EVENT", "LOAD"} \cup UnloadKinds]
        BY <2>8 DEF ProcessNotStarted, WithoutUnload
    <3>5. pendingLoads' \in [SAs -> SUBSET Callbacks]
        BY <2>8 DEF ProcessNotStarted
    <3>6. enableRestart' \in [Procs -> BOOLEAN]
        BY <2>8 DEF ProcessNotStarted
    <3>7. restarts' \in [Procs -> 0..RestartLimit]
      <4>1. restarts[p] \in 0..RestartLimit /\ RestartLimit \in Nat
        OBVIOUS
      <4>2. ~RestartsFull(p) => restarts[p] + 1 \in 0..RestartLimit
        <5> HIDE DEF TypeOK
        <5> QED BY <4>1 DEF RestartsFull
      <4>3. \/ restarts' = restarts
            \/ ~RestartsFull(p) /\ restarts' = [restarts EXCEPT ![p] = restarts[p] + 1]
        BY <2>8 DEF ProcessNotStarted
      <4>4. restarts \in [Procs -> 0..RestartLimit]
        OBVIOUS
      <4> HIDE DEF TypeOK
      <4> QED BY <4>2, <4>3, <4>4
    <3> QED BY <3>1, <3>2, <3>3, <3>4, <3>5, <3>6, <3>7
  <2>9. CASE HandleProcessStoppedEvent(p)
    <3>1. PICK loading \in SUBSET saList(p), watermark \in BOOLEAN, tooFast \in BOOLEAN :
            ProcessNotStarted(p, loading, watermark, tooFast)
        BY <2>9 DEF HandleProcessStoppedEvent
    <3>2. /\ procState' \in [Procs -> ProcStates]
          /\ stopSent' \in [Procs -> BOOLEAN]
          /\ unloadTimers' \in [Procs -> 0..MaxTimers]
          /\ pendingSince' \in [Procs -> BOOLEAN]
          /\ delayUnload' \in [SAs -> BOOLEAN]
          /\ pendingEvent' \in [SAs -> {"NO_EVENT", "LOAD"} \cup UnloadKinds]
          /\ pendingLoads' \in [SAs -> SUBSET Callbacks]
          /\ enableRestart' \in [Procs -> BOOLEAN]
          /\ restarts' \in [Procs -> 0..RestartLimit]
      <4> HIDE DEF TypeOK
      <4> QED BY <2>8, <3>1
    <3> QED BY <1>2, <2>9, <3>2 DEF HandleProcessStoppedEvent
  <2>10. CASE OverflowStops(p)
    <3>1. CASE ServiceControlStop(p) /\ UNCHANGED <<procState, pendingEvent, pendingLoads,
                    pendingSince, restartVars, delayUnload, unloadTimers>>
        BY <1>2, <2>10, <3>1 DEF OverflowStops, ServiceControlStop
    <3>2. CASE \E loading \in SUBSET saList(p), watermark, tooFast \in BOOLEAN :
                    ProcessNotStarted(p, loading, watermark, tooFast)
      <4>1. PICK loading \in SUBSET saList(p), watermark \in BOOLEAN, tooFast \in BOOLEAN :
              ProcessNotStarted(p, loading, watermark, tooFast)
        BY <3>2
      <4>2. /\ procState' \in [Procs -> ProcStates]
            /\ stopSent' \in [Procs -> BOOLEAN]
            /\ unloadTimers' \in [Procs -> 0..MaxTimers]
            /\ pendingSince' \in [Procs -> BOOLEAN]
            /\ delayUnload' \in [SAs -> BOOLEAN]
            /\ pendingEvent' \in [SAs -> {"NO_EVENT", "LOAD"} \cup UnloadKinds]
            /\ pendingLoads' \in [SAs -> SUBSET Callbacks]
            /\ enableRestart' \in [Procs -> BOOLEAN]
            /\ restarts' \in [Procs -> 0..RestartLimit]
        <5> HIDE DEF TypeOK
        <5> QED BY <2>8, <4>1
      <4> QED BY <1>2, <2>10, <4>2 DEF OverflowStops
    <3> QED BY <2>10, <3>1, <3>2 DEF OverflowStops
  <2> QED BY <1>4, <2>2, <2>3, <2>4, <2>5, <2>6, <2>7, <2>9, <2>10 DEF ProcNext
<1>5. CASE UNCHANGED vars
    BY <1>2, <1>5 DEF vars
<1> QED BY <1>3, <1>4, <1>5 DEF Next

(* The constants of Init agree: at boot all SAs are counted NOT_LOADED.    *)
LEMMA InitCounts ==
    ASSUME Init
    PROVE  TypeOK /\ StateCountsMatch
<1> USE SchedulerAssumption
<1>1. \A p \in Procs : Cardinality(saList(p)) \in Nat
    BY SubsetsFinite DEF saList
<1>2. TypeOK
  <2>1. stateCount \in [Procs -> [AbilityStates -> Int]]
    BY <1>1 DEF Init
  <2>2. restarts \in [Procs -> 0..RestartLimit] /\ unloadTimers \in [Procs -> 0..MaxTimers]
    BY DEF Init
  <2>3. taskQueue \in Seq(Tasks) /\ recoverQueue \in Seq(SAs)
    BY DEF Init
  <2> QED BY <2>1, <2>2, <2>3 DEF Init, TypeOK, AbilityStates, ProcStates
<1>3. ASSUME NEW p \in Procs, NEW x \in AbilityStates
      PROVE  stateCount[p][x] = Cardinality({s \in saList(p) : saState[s] = x})
  <2>1. CASE x = "NOT_LOADED"
    <3>1. {s \in saList(p) : saState[s] = x} = saList(p)
        BY <2>1 DEF Init, saList
    <3> QED BY <2>1, <3>1 DEF Init
  <2>2. CASE x # "NOT_LOADED"
    <3>1. {s \in saList(p) : saState[s] = x} = {}
        BY <2>2 DEF Init, saList
    <3> QED BY <2>2, <3>1, FS_EmptySet DEF Init
  <2> QED BY <2>1, <2>2
<1> QED BY <1>2, <1>3 DEF StateCountsMatch

(* Every variable keeps its type in every behaviour.                       *)
THEOREM TypeCorrect == Spec => []TypeOK
<1>1. Init => CountInv
    BY InitCounts DEF CountInv
<1>2. CountInv /\ [Next]_vars => CountInv'
    BY TypeStep, AbilityInvStep DEF CountInv, AbilityInv, TypeOK
<1>3. CountInv => TypeOK
    BY DEF CountInv
<1> QED BY <1>1, <1>2, <1>3, PTL DEF Spec

(* abilityStateCountMap agrees with the states of the SAs in every         *)
(* behaviour, for any number of SAs and processes, although every handler  *)
(* updates the two separately: the reclaim and kill decisions, which read  *)
(* only the map, are made about the real states.                           *)
THEOREM CountsCorrect == Spec => []StateCountsMatch
<1>1. Init => CountInv
    BY InitCounts DEF CountInv
<1>2. CountInv /\ [Next]_vars => CountInv'
    BY TypeStep, AbilityInvStep DEF CountInv, AbilityInv, TypeOK
<1>3. CountInv => StateCountsMatch
    BY DEF CountInv
<1> QED BY <1>1, <1>2, <1>3, PTL DEF Spec

=============================================================================
