--------------------------- MODULE IpcPriorProofs ---------------------------
(***************************************************************************)
(* The priority of IPC threads, for any number of clients and threads.     *)
(***************************************************************************)
EXTENDS IpcPrior, FiniteSetTheorems, TLAPS

Holders == {c \in Clients : holds[c] = "yes"}

(* The count is that of the requests made and not given back, so it is at  *)
(* least that of the clients which hold the priority.                      *)
HoldersCounted == flags \cap {"early", "taken"} = {} => Cardinality(Holders) <= priorRefCnt

PriorInv ==
    /\ priorEnable \in BOOLEAN /\ priorRefCnt \in Nat
    /\ queued \in BOOLEAN /\ started \in BOOLEAN
    /\ holds \in [Clients -> {"no", "yes", "expired"}]
    /\ CountedAndTimed
    /\ NoThreadStaysRaised

LEMMA HoldersFinite == IsFiniteSet(Holders) /\ Cardinality(Holders) \in Nat
<1>1. Holders \subseteq Clients
    BY DEF Holders
<1> QED BY <1>1, ConstantsAssumption, FS_Subset, FS_CardinalityType

(* The fields that decide change only under priorRefCntLock_, all at once. *)
LEMMA PriorStep == PriorInv /\ [Next]_vars => PriorInv'
<1> SUFFICES ASSUME PriorInv, [Next]_vars PROVE PriorInv'
    OBVIOUS
<1> USE DEF PriorInv, CountedAndTimed, NoThreadStaysRaised
<1>1. ASSUME NEW c \in Clients, Enable(c) PROVE PriorInv'
    BY <1>1 DEF Enable
<1>2. ASSUME NEW c \in Clients, Disable(c) PROVE PriorInv'
  <2>1. CASE ~priorEnable \/ priorRefCnt = 0
    BY <1>2, <2>1 DEF Disable
  <2>2. CASE priorEnable /\ priorRefCnt # 0
    <3>1. /\ priorRefCnt' = priorRefCnt - 1 /\ UNCHANGED started
          /\ holds' = [holds EXCEPT ![c] = "no"]
        BY <1>2, <2>2 DEF Disable
    <3>2. holds' \in [Clients -> {"no", "yes", "expired"}]
        BY <3>1
    <3>3. "late" \in flags => "late" \in flags'
        BY <1>2, <2>2, Zenon DEF Disable
    <3>4. CASE priorRefCnt = 1
      <4>1. priorRefCnt' = 0 /\ priorEnable' = FALSE /\ raised' = {} /\ queued' = FALSE
        BY <1>2, <2>2, <3>1, <3>4 DEF Disable
      <4>2. priorRefCnt' \in Nat /\ ~(priorRefCnt' > 0)
        BY <4>1
      <4> QED BY <3>1, <3>2, <4>1, <4>2, Zenon
    <3>5. CASE priorRefCnt # 1
      <4>1. UNCHANGED <<priorEnable, raised, queued>>
        BY <1>2, <2>2, <3>5 DEF Disable
      <4>2. priorRefCnt' \in Nat /\ priorRefCnt' > 0
        BY <2>2, <3>1, <3>5
      <4> QED BY <2>2, <3>1, <3>2, <3>3, <4>1, <4>2
    <3> QED BY <3>4, <3>5
  <2> QED BY <2>1, <2>2
<1>3. CASE TaskStarts
  <2>1. holds' \in [Clients -> {"no", "yes", "expired"}]
    BY <1>3 DEF TaskStarts
  <2>2. /\ UNCHANGED <<priorEnable, priorRefCnt, raised, flags>>
        /\ queued' = FALSE /\ started' = TRUE
    BY <1>3 DEF TaskStarts
  <2> QED BY <2>1, <2>2
<1>4. CASE ResetTimeout
  <2>1. priorEnable' = FALSE /\ priorRefCnt' = 0 /\ raised' = {} /\ started' = FALSE /\ UNCHANGED <<queued, holds>>
    BY <1>4 DEF ResetTimeout
  <2>2. priorRefCnt' \in Nat /\ ~(priorRefCnt' > 0)
    BY <2>1
  <2> QED BY <2>1, <2>2, Zenon
<1>5. ASSUME NEW t \in Threads, Serve(t) \/ Raise(t) PROVE PriorInv'
    BY <1>5 DEF Serve, Raise
<1>6. CASE UNCHANGED vars
    BY <1>6 DEF vars
<1> QED BY <1>1, <1>2, <1>3, <1>4, <1>5, <1>6 DEF Next

LEMMA PriorInit == Init => PriorInv /\ HoldersCounted
<1> SUFFICES ASSUME Init PROVE PriorInv /\ HoldersCounted
    OBVIOUS
<1>1. PriorInv
  <2>1. holds \in [Clients -> {"no", "yes", "expired"}]
    BY DEF Init
  <2>2. priorEnable = FALSE /\ priorRefCnt = 0 /\ queued = FALSE /\ started = FALSE /\ raised = {}
    BY DEF Init
  <2>3. priorRefCnt \in Nat /\ ~(priorRefCnt > 0)
    BY <2>2
  <2> QED BY <2>1, <2>2, <2>3, Zenon DEF PriorInv, CountedAndTimed, NoThreadStaysRaised
<1>2. Holders = {}
    BY DEF Init, Holders
<1>3. Cardinality(Holders) = 0 /\ priorRefCnt = 0
    BY <1>2, FS_EmptySet DEF Init
<1> QED BY <1>1, <1>3 DEF HoldersCounted

(* A holder that gives the priority back is counted; anybody else leaves   *)
(* "taken", a reset that takes it from a holder "early".                   *)
LEMMA HoldersStep == PriorInv /\ HoldersCounted /\ [Next]_vars => HoldersCounted'
<1> SUFFICES ASSUME PriorInv, HoldersCounted, [Next]_vars, flags' \cap {"early", "taken"} = {}
             PROVE  Cardinality(Holders') <= priorRefCnt'
    BY DEF HoldersCounted
<1>0. IsFiniteSet(Holders) /\ Cardinality(Holders) \in Nat /\ priorRefCnt \in Nat
    BY HoldersFinite DEF PriorInv
<1>1. ASSUME NEW c \in Clients, Enable(c) PROVE Cardinality(Holders') <= priorRefCnt'
  <2>1. Holders' = Holders \cup {c}
    BY <1>1 DEF Enable, Holders, PriorInv
  <2>2. Cardinality(Holders') <= Cardinality(Holders) + 1 /\ Cardinality(Holders') \in Nat
    BY <1>0, <2>1, FS_AddElement
  <2>3. priorRefCnt' = priorRefCnt + 1 /\ Cardinality(Holders) <= priorRefCnt
    BY <1>1 DEF Enable, HoldersCounted
  <2> QED BY <1>0, <2>2, <2>3
<1>2. ASSUME NEW c \in Clients, Disable(c) PROVE Cardinality(Holders') <= priorRefCnt'
  <2>1. Cardinality(Holders) <= priorRefCnt
    BY <1>2 DEF Disable, HoldersCounted
  <2>2. Holders' = Holders \ {c}
    BY <1>2 DEF Disable, Holders, PriorInv
  <2>3. Cardinality(Holders') = IF c \in Holders THEN Cardinality(Holders) - 1 ELSE Cardinality(Holders)
    BY <1>0, <2>2, FS_RemoveElement
  <2>4. CASE ~priorEnable \/ priorRefCnt = 0
    BY <1>0, <1>2, <2>1, <2>3, <2>4 DEF Disable
  <2>5. CASE ~(~priorEnable \/ priorRefCnt = 0)
    <3>1. priorRefCnt' = priorRefCnt - 1 /\ holds[c] = "yes"
        BY <1>2, <2>5 DEF Disable
    <3>2. c \in Holders
        BY <3>1 DEF Holders
    <3> QED BY <1>0, <2>1, <2>3, <3>1, <3>2
  <2> QED BY <2>4, <2>5
<1>3. CASE TaskStarts
  <2>1. Holders' = {} /\ priorRefCnt' = priorRefCnt
    BY <1>3 DEF TaskStarts, Holders
  <2>2. Cardinality(Holders') = 0
    BY <2>1, FS_EmptySet
  <2> QED BY <1>0, <2>1, <2>2
<1>4. CASE ResetTimeout
  <2>1. Holders' = {} /\ priorRefCnt' = 0
    BY <1>4 DEF ResetTimeout, Holders
  <2>2. Cardinality(Holders') = 0
    BY <2>1, FS_EmptySet
  <2> QED BY <2>1, <2>2
<1>5. ASSUME NEW t \in Threads, Serve(t) \/ Raise(t) PROVE Cardinality(Holders') <= priorRefCnt'
  <2>1. Holders' = Holders /\ priorRefCnt' = priorRefCnt /\ flags \cap {"early", "taken"} = {}
    BY <1>5 DEF Serve, Raise, Holders
  <2> QED BY <2>1 DEF HoldersCounted
<1>6. CASE UNCHANGED vars
  <2>1. Holders' = Holders /\ priorRefCnt' = priorRefCnt /\ flags' = flags
    BY <1>6 DEF vars, Holders
  <2> QED BY <2>1 DEF HoldersCounted
<1> QED BY <1>1, <1>2, <1>3, <1>4, <1>5, <1>6 DEF Next

(* SetSamgrIpcPrior and resetTimeoutTask keep the flag, the count and the  *)
(* task in step: the priority never stays enabled without a task that will *)
(* take it back.                                                           *)
LEMMA PriorityIsTimed == Spec => []CountedAndTimed
<1>1. PriorInv => CountedAndTimed
    BY DEF PriorInv
<1> QED BY <1>1, PriorInit, PriorStep, PTL DEF Spec

(* ResetIpcPrior lowers every thread that raised itself in time.           *)
LEMMA ThreadsAreLowered == Spec => []NoThreadStaysRaised
<1>1. PriorInv => NoThreadStaysRaised
    BY DEF PriorInv
<1> QED BY <1>1, PriorInit, PriorStep, PTL DEF Spec

(* Who asked for the priority has it, but for the two races of the reset   *)
(* task and of a late disable.                                             *)
LEMMA HoldersHavePriority == Spec => []HolderHasPriority
<1>1. PriorInv /\ HoldersCounted => HolderHasPriority
  <2> SUFFICES ASSUME PriorInv, HoldersCounted, flags \cap {"early", "taken"} = {},
                      NEW c \in Clients, holds[c] = "yes"
               PROVE  priorEnable
    BY DEF HolderHasPriority
  <2>1. c \in Holders /\ IsFiniteSet(Holders) /\ Cardinality(Holders) \in Nat
    BY HoldersFinite DEF Holders
  <2>2. Cardinality(Holders) # 0
    BY <2>1, FS_EmptySet
  <2>3. priorRefCnt > 0
    BY <2>1, <2>2 DEF HoldersCounted, PriorInv
  <2> QED BY <2>3 DEF PriorInv, CountedAndTimed
<1> QED BY <1>1, PriorInit, PriorStep, HoldersStep, PTL DEF Spec

(* The priority of the IPC threads does not outlive its reason, and is     *)
(* there for it, for any clients, threads and order of requests.           *)
THEOREM PriorityStaysInStep == Spec => []PriorityInStep
BY PriorityIsTimed, ThreadsAreLowered, HoldersHavePriority, PTL DEF PriorityInStep
=============================================================================
