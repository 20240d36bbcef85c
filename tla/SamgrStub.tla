----------------------------- MODULE SamgrStub ------------------------------
(***************************************************************************)
(* The server side of the samgr interface: for each handler of             *)
(* SystemAbilityManagerStub its checks and reads in the order of the code, *)
(* and what it writes to the reply after it called the service.            *)
(* HandlerOf is memberFuncMap_.                                            *)
(***************************************************************************)
EXTENDS SamgrProxy

\* Steps besides reads: a permission of the caller, one that is needed only if
\* a flag that was read is true, and the check of a value that was read.
Perm(p) == <<"perm", p>>
PermIf(flag, p) == <<"permif", p, flag>>
Valid(name) == <<"valid", name>>

CanRequest == Perm("native token")
CheckCallerProcess(name) == Perm(name)
CheckPengLaiPermission == Perm("penglai")
CheckGetSAPermission == Perm("get")
CheckGetRemoteSAPermission == Perm("get remote")
CheckAddOrRemovePermission == Perm("add")
CheckListSAPermission == Perm("list")
CheckPermission(name) == Perm(name)

\* Reads of the id, with the checks that follow it.
ReadSaId == <<SaId, Valid("systemAbilityId")>>
GetSACheck == ReadSaId \o <<CheckPengLaiPermission, CheckGetSAPermission>>
LoadSACheck == ReadSaId \o <<CheckPengLaiPermission, CheckGetSAPermission>>
LoadRemoteSACheck == ReadSaId \o <<CheckPengLaiPermission, CheckGetRemoteSAPermission>>

(***************************************************************************)
(* What a handler does with the service's answer.  "written" tells when    *)
(* the result goes into the reply, "more" when the values in outs follow,  *)
(* "code" what the handler returns, which is what SendRequest returns to   *)
(* the client: the result, or ERR_OK.                                      *)
(***************************************************************************)
Returns(written, more, code, outs) ==
  [written |-> written, more |-> more, code |-> code, outs |-> outs]
ResultTwice == Returns("always", "never", "result", <<>>)
ResultInReply == Returns("always", "never", "ok", <<>>)
ResultThen(outs) == Returns("always", "if ok", "result", outs)
ResultInReplyThen(outs) == Returns("always", "if ok", "ok", outs)
ResultWith(outs) == Returns("always", "always", "ok", outs)
OnlyIfOk(outs) == Returns("if ok", "if ok", "result", outs)
JustCode == Returns("never", "never", "result", <<>>)
\* A null object is ERR_NULL_OBJECT and leaves the reply empty.
NonNull(outs) == Returns("never", "if ok", "result", outs)

Handler(steps, answer) == [steps |-> steps, answer |-> answer]

GetSystemAbilityInner == Handler(GetSACheck, NonNull(<<Object("remote")>>))
CheckSystemAbilityInner == Handler(GetSACheck, NonNull(<<Object("remote")>>))
\* TransformDeviceId, called with isPrivate = false, returns the device id it is given.
CheckRemtSystemAbilityInner ==
  Handler(<<CanRequest>> \o LoadRemoteSACheck \o <<String("deviceId")>>,
          NonNull(<<Object("remote")>>))
CheckSystemAbilityImmeInner ==
  Handler(GetSACheck \o <<Bool("isExist")>>, NonNull(<<Object("remote"), Bool("isExist")>>))
AddOndemandSystemAbilityInner ==
  Handler(<<CanRequest>> \o ReadSaId
            \o <<CheckAddOrRemovePermission, String16("localAbilityManagerName"),
                 Valid("localAbilityManagerName")>>, ResultTwice)
RemoveSystemAbilityInner ==
  Handler(<<CanRequest>> \o ReadSaId \o <<CheckAddOrRemovePermission>>, ResultTwice)
ListSystemAbilityInner ==
  Handler(<<CanRequest, CheckListSAPermission, Int32("dumpFlags")>>,
          ResultInReplyThen(<<Vector("saNames")>>))
SubsSystemAbilityInner == Handler(ReadSaId \o <<Object("listener")>>, ResultTwice)
UnSubsSystemAbilityInner == Handler(ReadSaId \o <<Object("listener")>>, ResultTwice)
LoadSystemAbilityInner == Handler(LoadSACheck \o <<Object("callback")>>, ResultTwice)
LoadRemoteSystemAbilityInner ==
  Handler(LoadRemoteSACheck \o <<String("deviceId"), Valid("deviceId"), Object("callback")>>,
          ResultTwice)
UnloadSystemAbilityInner == Handler(ReadSaId, ResultTwice)
CancelUnloadSystemAbilityInner == Handler(ReadSaId, ResultTwice)
UnloadAllIdleSystemAbilityInner == Handler(<<>>, JustCode)
UnloadProcessInner ==
  Handler(<<CheckCallerProcess("memmgrservice"), Vector("processList")>>, JustCode)
GetLruIdleSystemAbilityProcInner ==
  Handler(<<CheckCallerProcess("memmgrservice")>>,
          ResultThen(<<List("size", <<Int32("pid"), String16("processName"), Int64("lastIdleTime")>>)>>))
OnStartSystemAbilityFailInner ==
  Handler(<<CanRequest, SaId, Int32("errCode"), Valid("systemAbilityId")>>, ResultTwice)
UnmarshalingSaExtraProp ==
  <<Bool("isDistributed"), Int32("dumpFlags"), Valid("dumpFlags"), Unchecked("capability"),
    Unchecked("permission")>>
AddSystemAbilityInner ==
  Handler(<<CanRequest>> \o ReadSaId \o <<CheckAddOrRemovePermission, Object("ability")>>
            \o UnmarshalingSaExtraProp \o <<PermIf("isDistributed", "add remote")>>, ResultTwice)
AddSystemProcessInner ==
  Handler(<<CanRequest, String16("procName"), Valid("procName"), Object("procObject")>>,
          ResultTwice)
GetSystemProcessInfoInner ==
  Handler(<<CanRequest>> \o ReadSaId,
          ResultInReplyThen(<<String("processName"), Int32("pid"), Int32("uid")>>))
GetRunningSystemProcessInner ==
  Handler(<<CanRequest>>,
          ResultInReplyThen(<<List("size", <<String("processName"), Int32("pid"), Int32("uid")>>)>>))
SubscribeSystemProcessInner == Handler(<<CanRequest, Object("listener")>>, ResultTwice)
UnSubscribeSystemProcessInner == Handler(<<CanRequest, Object("listener")>>, ResultTwice)
SubscribeLowMemSystemProcessInner == Handler(<<CanRequest, Object("listener")>>, ResultTwice)
UnSubscribeLowMemSystemProcessInner == Handler(<<CanRequest, Object("listener")>>, ResultTwice)
\* Without extra data the handler fails after it wrote the result.
GetOnDemandReasonExtraDataInner ==
  Handler(<<CanRequest, Int64("extraDataId")>>, ResultThen(<<Parcelable("extraData")>>))
GetOnDemandPolicyInner ==
  Handler(<<CanRequest, SaId, Int32("type")>>, ResultWith(WriteOnDemandEventsToParcel))
UpdateOnDemandPolicyInner ==
  Handler(<<CanRequest, SaId, Int32("type")>> \o ReadOnDemandEventsFromParcel, ResultInReply)
SendStrategyInner ==
  Handler(<<CanRequest, Int32("type"), Vector("systemAbilityIds"), Int32("level"),
            String("action")>>, ResultInReply)
GetOnDemandSystemAbilityIdsInner == Handler(<<>>, OnlyIfOk(<<Vector("systemAbilityIds")>>))
GetExtensionSaIdsInner ==
  Handler(<<CanRequest, String("extension")>>, OnlyIfOk(<<Vector("saIds")>>))
GetExtensionRunningSaListInner ==
  Handler(<<CanRequest, String("extension")>>, OnlyIfOk(<<List("size", <<Object("remote")>>)>>))
GetRunningSaExtensionInfoListInner ==
  Handler(<<CheckPermission("ACCESS_EXT_SYSTEM_ABILITY"), String("extension")>>,
          ResultThen(<<List("size", <<Int32("saId"), Object("processObj")>>)>>))
GetCommonEventExtraDataIdlistInner ==
  Handler(<<CanRequest>> \o ReadSaId \o <<String("eventName")>>,
          ResultThen(<<Vector("extraDataIdList")>>))
GetLocalAbilityManagerProxyInner ==
  Handler(<<CheckPermission("CONTROL_SVC_CMD")>> \o ReadSaId, NonNull(<<Object("remote")>>))
SetSamgrIpcPriorInner ==
  Handler(<<CheckCallerProcess("resource_schedule_service"), Bool("enable")>>, ResultInReply)
OnUserStateChangedInner ==
  Handler(<<CheckCallerProcess("accountmgr"), UserId, Int32("userState"), Valid("userState")>>,
          ResultInReply)

GetSystemAbilityWithUserIdInner ==
  Handler(GetSACheck \o <<UserId>>, NonNull(<<Object("remote")>>))
CheckSystemAbilityWithUserIdInner ==
  Handler(GetSACheck \o <<UserId>>, NonNull(<<Object("remote")>>))
\* Mutant: the user is read before isExist.
CheckByUserIdSwapped ==
  Handler(GetSACheck \o <<UserId, Bool("isExist")>>,
          NonNull(<<Object("remote"), Bool("isExist")>>))
CheckSystemAbilityByUserIdInner ==
  Handler(GetSACheck \o <<Bool("isExist"), UserId>>,
          NonNull(<<Object("remote"), Bool("isExist")>>))
GetSystemProcessInfoWithUserIdInner ==
  Handler(<<CanRequest>> \o ReadSaId \o <<UserId>>,
          ResultInReplyThen(<<String("processName"), Int32("pid"), Int32("uid")>>))
GetLocalAbilityManagerProxyWithUserIdInner ==
  Handler(<<CheckPermission("CONTROL_SVC_CMD")>> \o ReadSaId \o <<UserId>>,
          NonNull(<<Object("remote")>>))
LoadSystemAbilityWithUserIdInner ==
  Handler(LoadSACheck \o <<Object("callback"), UserId>>, ResultTwice)
SubsSystemAbilityWithUserIdInner ==
  Handler(ReadSaId \o <<Object("listener"), UserId>>, ResultTwice)
UnSubsSystemAbilityWithUserIdInner ==
  Handler(ReadSaId \o <<Object("listener"), UserId>>, ResultTwice)
SubscribeSystemProcessWithUserIdInner ==
  Handler(<<CanRequest, Object("listener"), UserId>>, ResultTwice)
UnSubscribeSystemProcessWithUserIdInner ==
  Handler(<<CanRequest, Object("listener"), UserId>>, ResultTwice)

AbilityFuncMap ==
  [GET_SYSTEM_ABILITY |-> GetSystemAbilityInner,
   CHECK_SYSTEM_ABILITY |-> CheckSystemAbilityInner,
   ADD_SYSTEM_ABILITY |-> AddSystemAbilityInner,
   REMOVE_SYSTEM_ABILITY |-> RemoveSystemAbilityInner,
   LIST_SYSTEM_ABILITY |-> ListSystemAbilityInner,
   SUBSCRIBE_SYSTEM_ABILITY |-> SubsSystemAbilityInner,
   CHECK_REMOTE_SYSTEM_ABILITY |-> CheckRemtSystemAbilityInner,
   ADD_ONDEMAND_SYSTEM_ABILITY |-> AddOndemandSystemAbilityInner,
   CHECK_SYSTEM_ABILITY_IMMEDIATELY |-> CheckSystemAbilityImmeInner,
   UNSUBSCRIBE_SYSTEM_ABILITY |-> UnSubsSystemAbilityInner,
   LOAD_SYSTEM_ABILITY |-> LoadSystemAbilityInner,
   LOAD_REMOTE_SYSTEM_ABILITY |-> LoadRemoteSystemAbilityInner,
   UNLOAD_SYSTEM_ABILITY |-> UnloadSystemAbilityInner,
   CANCEL_UNLOAD_SYSTEM_ABILITY |-> CancelUnloadSystemAbilityInner]

ProcessFuncMap ==
  [ADD_SYSTEM_PROCESS |-> AddSystemProcessInner,
   GET_SYSTEM_PROCESS_INFO |-> GetSystemProcessInfoInner,
   GET_RUNNING_SYSTEM_PROCESS |-> GetRunningSystemProcessInner,
   SUBSCRIBE_SYSTEM_PROCESS |-> SubscribeSystemProcessInner,
   UNSUBSCRIBE_SYSTEM_PROCESS |-> UnSubscribeSystemProcessInner,
   SUBSCRIBE_LOWMEM_SYSTEM_PROCESS |-> SubscribeLowMemSystemProcessInner,
   UNSUBSCRIBE_LOWMEM_SYSTEM_PROCESS |-> UnSubscribeLowMemSystemProcessInner]

OtherFuncMap ==
  [GET_ONDEMAND_REASON_EXTRA_DATA |-> GetOnDemandReasonExtraDataInner,
   GET_ONDEAMND_POLICY |-> GetOnDemandPolicyInner,
   UPDATE_ONDEAMND_POLICY |-> UpdateOnDemandPolicyInner,
   GET_ONDEMAND_SYSTEM_ABILITY_IDS |-> GetOnDemandSystemAbilityIdsInner,
   SEND_STRATEGY |-> SendStrategyInner,
   UNLOAD_ALL_IDLE_SYSTEM_ABILITY |-> UnloadAllIdleSystemAbilityInner,
   GET_EXTENSION_SA_IDS |-> GetExtensionSaIdsInner,
   GET_EXTERNSION_SA_LIST |-> GetExtensionRunningSaListInner,
   GET_SA_EXTENSION_INFO |-> GetRunningSaExtensionInfoListInner,
   GET_COMMON_EVENT_EXTRA_ID_LIST |-> GetCommonEventExtraDataIdlistInner,
   GET_LOCAL_ABILITY_MANAGER_PROXY |-> GetLocalAbilityManagerProxyInner,
   UNLOAD_IDLE_PROCESS_BYLIST |-> UnloadProcessInner,
   GET_LRU_IDLE_SYSTEM_ABILITY_PROCESS |-> GetLruIdleSystemAbilityProcInner,
   SET_SAMGR_IPC_PRIOR |-> SetSamgrIpcPriorInner,
   ONSTART_SYSTEM_ABILITY_FAIL |-> OnStartSystemAbilityFailInner,
   ON_USER_STATE_CHANGED |-> OnUserStateChangedInner]

MultiInstanceFuncMap ==
  [GET_SYSTEM_ABILITY_WITH_USERID |-> GetSystemAbilityWithUserIdInner,
   CHECK_SYSTEM_ABILITY_WITH_USERID |-> CheckSystemAbilityWithUserIdInner,
   CHECK_SYSTEM_ABILITY_BY_USERID |-> CheckSystemAbilityByUserIdInner,
   GET_SYSTEM_PROCESS_INFO_WITH_USERID |-> GetSystemProcessInfoWithUserIdInner,
   GET_LOCAL_ABILITY_MANAGER_PROXY_WITH_USERID |-> GetLocalAbilityManagerProxyWithUserIdInner,
   LOAD_SYSTEM_ABILITY_WITH_USERID |-> LoadSystemAbilityWithUserIdInner,
   SUBSCRIBE_SYSTEM_ABILITY_WITH_USERID |-> SubsSystemAbilityWithUserIdInner,
   UNSUBSCRIBE_SYSTEM_ABILITY_WITH_USERID |-> UnSubsSystemAbilityWithUserIdInner,
   SUBSCRIBE_SYSTEM_PROCESS_WITH_USERID |-> SubscribeSystemProcessWithUserIdInner,
   UNSUBSCRIBE_SYSTEM_PROCESS_WITH_USERID |-> UnSubscribeSystemProcessWithUserIdInner]

HandlerOf == AbilityFuncMap @@ ProcessFuncMap @@ OtherFuncMap @@ MultiInstanceFuncMap
=============================================================================
