--------------------------- MODULE SamgrCallbacks ---------------------------
(***************************************************************************)
(* The interfaces samgr calls: load callbacks, ability and process status  *)
(* listeners of its clients (proxy in samgr, stub in the client), and the  *)
(* local ability manager of a process.  The stub of the last one belongs   *)
(* to another repository: it is taken to read what the proxy writes.       *)
(***************************************************************************)
EXTENDS SamgrStub

OnLoadSystemAbilitySuccess ==
  Post("ON_LOAD_SUCCESS", {"systemAbilityId", "remoteObject"}, <<SaId, Object("remoteObject")>>)
OnLoadSystemAbilityFail == Post("ON_LOAD_FAIL", {"systemAbilityId"}, <<SaId>>)
OnLoadSystemAbilityFailWithCode ==
  Post("ON_LOAD_FAIL_WITH_CODE", {"systemAbilityId"}, <<SaId, Int32("errCode")>>)
OnLoadSACompleteForRemote ==
  Post("ON_LOAD_COMPLETE_FOR_REMOTE", {"systemAbilityId"},
       <<String("deviceId"), SaId, Optional("remoteObject")>>)

StatusChangeSendRequestInner(code) == Post(code, {"systemAbilityId"}, <<SaId, String("deviceId")>>)
OnAddSystemAbility == StatusChangeSendRequestInner("ON_ADD_SYSTEM_ABILITY")
OnRemoveSystemAbility == StatusChangeSendRequestInner("ON_REMOVE_SYSTEM_ABILITY")

ProcessSendRequestInner(code) ==
  Post(code, {"processName"}, <<String("processName"), Int32("pid"), Int32("uid")>>)
OnSystemProcessStarted == ProcessSendRequestInner("ON_SYSTEM_PROCESS_STARTED")
OnSystemProcessStopped == ProcessSendRequestInner("ON_SYSTEM_PROCESS_STOPPED")
OnSystemProcessActivated == ProcessSendRequestInner("ON_SYSTEM_PROCESS_ACTIVATED")
OnSystemProcessIdled == ProcessSendRequestInner("ON_SYSTEM_PROCESS_IDLED")

OnLoadSystemAbilitySuccessInner == Handler(ReadSaId \o <<Unchecked("remoteObject")>>, JustCode)
OnLoadSystemAbilityFailInner == Handler(ReadSaId, JustCode)
OnLoadSystemAbilityFailWithCodeInner ==
  Handler(<<SaId, Int32("errCode"), Valid("systemAbilityId")>>, JustCode)
OnLoadSACompleteForRemoteInner ==
  Handler(<<Unchecked("deviceId")>> \o ReadSaId \o <<Optional("remoteObject")>>, JustCode)
OnAddSystemAbilityInner == Handler(ReadSaId \o <<Unchecked("deviceId")>>, JustCode)
OnRemoveSystemAbilityInner == Handler(ReadSaId \o <<Unchecked("deviceId")>>, JustCode)
ReadProcessInfo == <<String("processName"), Int32("pid"), Int32("uid")>>
OnSystemProcessStartedInner == Handler(ReadProcessInfo, JustCode)
OnSystemProcessStoppedInner == Handler(ReadProcessInfo, JustCode)
OnSystemProcessActivatedInner == Handler(ReadProcessInfo, JustCode)
OnSystemProcessIdledInner == Handler(ReadProcessInfo, JustCode)

CallbackHandlerOf ==
  [ON_LOAD_SUCCESS |-> OnLoadSystemAbilitySuccessInner,
   ON_LOAD_FAIL |-> OnLoadSystemAbilityFailInner,
   ON_LOAD_FAIL_WITH_CODE |-> OnLoadSystemAbilityFailWithCodeInner,
   ON_LOAD_COMPLETE_FOR_REMOTE |-> OnLoadSACompleteForRemoteInner,
   ON_ADD_SYSTEM_ABILITY |-> OnAddSystemAbilityInner,
   ON_REMOVE_SYSTEM_ABILITY |-> OnRemoveSystemAbilityInner,
   ON_SYSTEM_PROCESS_STARTED |-> OnSystemProcessStartedInner,
   ON_SYSTEM_PROCESS_STOPPED |-> OnSystemProcessStoppedInner,
   ON_SYSTEM_PROCESS_ACTIVATED |-> OnSystemProcessActivatedInner,
   ON_SYSTEM_PROCESS_IDLED |-> OnSystemProcessIdledInner]

(***************************************************************************)
(* LocalAbilityManagerProxy.  Most functions answer a bool, read first.    *)
(***************************************************************************)
Truth(outs) == [head |-> "bool", outs |-> outs]

StartAbility ==
  Post("START_ABILITY", {"systemAbilityId", "eventStr"}, <<SaId, String("eventStr")>>)
StopAbility ==
  Post("STOP_ABILITY", {"systemAbilityId", "eventStr"}, <<SaId, String("eventStr")>>)
ActiveAbility ==
  Call("ACTIVE_ABILITY", {"systemAbilityId"}, <<SaId, String("activeReason")>>, Truth(<<>>))
IdleAbility ==
  Call("IDLE_ABILITY", {"systemAbilityId"}, <<SaId, String("idleReason")>>,
       Truth(<<Int32("delayTime")>>))
SendStrategyToSA ==
  Post("SEND_STRATEGY_TO_SA", {"systemAbilityId"},
       <<Int32("type"), SaId, Int32("level"), String("action")>>)
IpcStatCmdProc == Call("IPC_STAT_CMD", {}, <<Fd("fd"), Int32("cmd")>>, Truth(<<>>))
FfrtStatCmdProc == Call("FFRT_STAT_CMD", {}, <<Fd("fd"), Int32("cmd")>>, Truth(<<>>))
FfrtDumperProc == Call("FFRT_DUMPER", {}, <<>>, Only(<<String("ffrtDumperInfo")>>))
PrepareData == <<Int32("said"), String("extension")>>
SystemAbilityExtProc ==
  Call("SYSTEM_ABILITY_EXT", {"said", "extension"}, PrepareData \o <<Parcelable("input")>>,
       Only(<<Parcelable("output")>>))
SystemAbilityExtProcAsync ==
  Post("SYSTEM_ABILITY_EXT", {"said", "extension"}, PrepareData \o <<Parcelable("input")>>)
ServiceControlCmd ==
  Call("SERVICE_CONTROL_CMD", {"systemAbilityId"}, <<SaId, Fd("fd"), Vector("args")>>, Only(<<>>))

LocalManagerCalls ==
  <<StartAbility, StopAbility, ActiveAbility, IdleAbility, SendStrategyToSA, IpcStatCmdProc,
    FfrtStatCmdProc, FfrtDumperProc, SystemAbilityExtProc, SystemAbilityExtProcAsync,
    ServiceControlCmd>>

CallbackCalls ==
  <<OnLoadSystemAbilitySuccess, OnLoadSystemAbilityFail, OnLoadSystemAbilityFailWithCode,
    OnLoadSACompleteForRemote, OnAddSystemAbility, OnRemoveSystemAbility, OnSystemProcessStarted,
    OnSystemProcessStopped, OnSystemProcessActivated, OnSystemProcessIdled>>

\* External: the local ability manager's stub.
LocalManagerHandler(call) ==
  Handler(call.request,
          IF call.async THEN JustCode
          ELSE IF call.reply.head = "bool" THEN ResultWith(call.reply.outs)
          ELSE NonNull(call.reply.outs))
=============================================================================
