----------------------------- MODULE SamgrProxy -----------------------------
(***************************************************************************)
(* The client side of the samgr interface: for each function of            *)
(* SystemAbilityManagerProxy the arguments it refuses before it sends, the *)
(* code it sends, what it writes after the interface token, and what it    *)
(* reads from the reply.  Codes are the ones of SamgrInterfaceCode without *)
(* _TRANSACTION.                                                           *)
(***************************************************************************)
EXTENDS SamgrParcel

\* What a function reads from the reply: the result, more values when the
\* result is ERR_OK, or values alone.
Result == [head |-> "int32", outs |-> <<>>]
ResultAnd(outs) == [head |-> "int32", outs |-> outs]
Only(outs) == [head |-> "none", outs |-> outs]

Call(code, need, request, reply) ==
  [code |-> code, need |-> need, request |-> request, reply |-> reply, async |-> FALSE]
\* TF_ASYNC: the function returns once the request is handed over.
Post(code, need, request) ==
  [code |-> code, need |-> need, request |-> request, reply |-> Only(<<>>), async |-> TRUE]

SaId == Int32("systemAbilityId")
UserId == Int32("userId")
ReadProcessInfoFromParcel == <<String("processName"), Int32("pid"), Int32("uid")>>
ReadProcessInfosFromParcel ==
  <<List("size", <<String("processName"), Int32("pid"), Int32("uid")>>)>>
ReadIdleProcessInfoFromParcel ==
  <<List("size", <<Int32("pid"), String16("processName"), Int64("lastIdleTime")>>)>>
MarshalSAExtraProp ==
  <<Bool("isDistributed"), Int32("dumpFlags"), String16("capability"), String16("permission")>>

(***************************************************************************)
(* OnDemandEventToParcel, which both sides use.                            *)
(***************************************************************************)
WriteOnDemandEventToParcel == <<Int32("eventId"), String("name"), String("value")>>
WriteOnDemandConditionToParcel == <<Int32("condEventId"), String("condName"), String("condValue")>>
WriteOnDemandEventsToParcel ==
  <<List("events", WriteOnDemandEventToParcel
      \o <<Bool("persistence"), List("conditions", WriteOnDemandConditionToParcel),
           Bool("enableOnce")>>)>>
ReadOnDemandEventFromParcel == <<Int32("eventId"), String("name"), String("value")>>
ReadOnDemandConditionFromParcel ==
  <<Int32("condEventId"), String("condName"), String("condValue")>>
ReadOnDemandEventsFromParcel ==
  <<List("events", ReadOnDemandEventFromParcel
      \o <<Bool("persistence"), List("conditions", ReadOnDemandConditionFromParcel),
           Bool("enableOnce")>>)>>

CheckSystemAbility ==
  Call("CHECK_SYSTEM_ABILITY", {"systemAbilityId"}, <<SaId>>, Only(<<Object("remote")>>))
CheckSystemAbilityOnDevice ==
  Call("CHECK_REMOTE_SYSTEM_ABILITY", {"systemAbilityId", "deviceId"},
       <<SaId, String("deviceId")>>, Only(<<Object("remote")>>))
CheckSystemAbilityImmediately ==
  Call("CHECK_SYSTEM_ABILITY_IMMEDIATELY", {"systemAbilityId"}, <<SaId, Bool("isExist")>>,
       Only(<<Object("remote"), Bool("isExist")>>))
AddOnDemandSystemAbilityInfo ==
  Call("ADD_ONDEMAND_SYSTEM_ABILITY", {"systemAbilityId", "localAbilityManagerName"},
       <<SaId, String16("localAbilityManagerName")>>, Result)
RemoveSystemAbility == Call("REMOVE_SYSTEM_ABILITY", {"systemAbilityId"}, <<SaId>>, Result)
ListSystemAbilities ==
  Call("LIST_SYSTEM_ABILITY", {}, <<Int32("dumpFlags")>>, ResultAnd(<<Vector("saNames")>>))
SubscribeSystemAbility ==
  Call("SUBSCRIBE_SYSTEM_ABILITY", {"systemAbilityId", "listener"}, <<SaId, Object("listener")>>,
       Result)
UnSubscribeSystemAbility ==
  Call("UNSUBSCRIBE_SYSTEM_ABILITY", {"systemAbilityId", "listener"},
       <<SaId, Object("listener")>>, Result)
LoadSystemAbility ==
  Call("LOAD_SYSTEM_ABILITY", {"systemAbilityId", "callback"}, <<SaId, Object("callback")>>,
       Result)
LoadSystemAbilityOnDevice ==
  Call("LOAD_REMOTE_SYSTEM_ABILITY", {"systemAbilityId", "deviceId", "callback"},
       <<SaId, String("deviceId"), Object("callback")>>, Result)
UnloadSystemAbility == Call("UNLOAD_SYSTEM_ABILITY", {"systemAbilityId"}, <<SaId>>, Result)
CancelUnloadSystemAbility ==
  Call("CANCEL_UNLOAD_SYSTEM_ABILITY", {"systemAbilityId"}, <<SaId>>, Result)
UnloadAllIdleSystemAbility == Post("UNLOAD_ALL_IDLE_SYSTEM_ABILITY", {}, <<>>)
UnloadProcess == Post("UNLOAD_IDLE_PROCESS_BYLIST", {}, <<Vector("processList")>>)
GetLruIdleSystemAbilityProc ==
  Call("GET_LRU_IDLE_SYSTEM_ABILITY_PROCESS", {}, <<>>, ResultAnd(ReadIdleProcessInfoFromParcel))
OnStartSystemAbilityFail ==
  Call("ONSTART_SYSTEM_ABILITY_FAIL", {"systemAbilityId"}, <<SaId, Int32("errCode")>>, Result)
AddSystemAbility ==
  Call("ADD_SYSTEM_ABILITY", {"systemAbilityId"}, <<SaId, Object("ability")>> \o MarshalSAExtraProp,
       Result)
AddSystemProcess ==
  Call("ADD_SYSTEM_PROCESS", {"procName"}, <<String16("procName"), Object("procObject")>>, Result)
GetSystemProcessInfo ==
  Call("GET_SYSTEM_PROCESS_INFO", {}, <<SaId>>, ResultAnd(ReadProcessInfoFromParcel))
GetRunningSystemProcess ==
  Call("GET_RUNNING_SYSTEM_PROCESS", {}, <<>>, ResultAnd(ReadProcessInfosFromParcel))
SubscribeSystemProcess ==
  Call("SUBSCRIBE_SYSTEM_PROCESS", {"listener"}, <<Object("listener")>>, Result)
UnSubscribeSystemProcess ==
  Call("UNSUBSCRIBE_SYSTEM_PROCESS", {"listener"}, <<Object("listener")>>, Result)
SubscribeLowMemSystemProcess ==
  Call("SUBSCRIBE_LOWMEM_SYSTEM_PROCESS", {"listener"}, <<Object("listener")>>, Result)
UnSubscribeLowMemSystemProcess ==
  Call("UNSUBSCRIBE_LOWMEM_SYSTEM_PROCESS", {"listener"}, <<Object("listener")>>, Result)
\* The extra data stays in the reply for the caller, who reads it.
GetOnDemandReasonExtraData ==
  Call("GET_ONDEMAND_REASON_EXTRA_DATA", {}, <<Int64("extraDataId")>>,
       ResultAnd(<<Parcelable("extraData")>>))
GetOnDemandPolicy ==
  Call("GET_ONDEAMND_POLICY", {}, <<SaId, Int32("type")>>, ResultAnd(ReadOnDemandEventsFromParcel))
GetOnDemandSystemAbilityIds ==
  Call("GET_ONDEMAND_SYSTEM_ABILITY_IDS", {}, <<>>, ResultAnd(<<Vector("systemAbilityIds")>>))
UpdateOnDemandPolicy ==
  Call("UPDATE_ONDEAMND_POLICY", {}, <<SaId, Int32("type")>> \o WriteOnDemandEventsToParcel, Result)
SendStrategy ==
  Call("SEND_STRATEGY", {},
       <<Int32("type"), Vector("systemAbilityIds"), Int32("level"), String("action")>>, Result)
ListExtensionSendReq(code, outs) == Call(code, {}, <<String("extension")>>, ResultAnd(outs))
GetExtensionSaIds == ListExtensionSendReq("GET_EXTENSION_SA_IDS", <<Vector("saIds")>>)
GetExtensionRunningSaList ==
  ListExtensionSendReq("GET_EXTERNSION_SA_LIST", <<List("size", <<Object("remote")>>)>>)
GetRunningSaExtensionInfoList ==
  ListExtensionSendReq("GET_SA_EXTENSION_INFO",
                       <<List("size", <<Int32("saId"), Object("processObj")>>)>>)
GetCommonEventExtraDataIdlist ==
  Call("GET_COMMON_EVENT_EXTRA_ID_LIST", {}, <<SaId, String("eventName")>>,
       ResultAnd(<<Vector("extraDataIdList")>>))
GetLocalAbilityManagerProxy ==
  Call("GET_LOCAL_ABILITY_MANAGER_PROXY", {"systemAbilityId"}, <<SaId>>,
       Only(<<Object("remote")>>))
SetSamgrIpcPrior == Post("SET_SAMGR_IPC_PRIOR", {}, <<Bool("enable")>>)
OnUserStateChanged == Post("ON_USER_STATE_CHANGED", {}, <<UserId, Int32("userState")>>)

(***************************************************************************)
(* The functions of the multi-instance build, which also name a user.      *)
(***************************************************************************)
GetSystemAbilityWithUserId ==
  Call("GET_SYSTEM_ABILITY_WITH_USERID", {"systemAbilityId"}, <<SaId, UserId>>, Only(<<Object("remote")>>))
CheckSystemAbilityWithUserId ==
  Call("CHECK_SYSTEM_ABILITY_WITH_USERID", {"systemAbilityId"}, <<SaId, UserId>>, Only(<<Object("remote")>>))
CheckSystemAbilityByUserId ==
  Call("CHECK_SYSTEM_ABILITY_BY_USERID", {"systemAbilityId"}, <<SaId, Bool("isExist"), UserId>>,
       Only(<<Object("remote"), Bool("isExist")>>))
GetSystemProcessInfoWithUserId ==
  Call("GET_SYSTEM_PROCESS_INFO_WITH_USERID", {"systemAbilityId"}, <<SaId, UserId>>, ResultAnd(ReadProcessInfoFromParcel))
GetLocalAbilityManagerProxyWithUserId ==
  Call("GET_LOCAL_ABILITY_MANAGER_PROXY_WITH_USERID", {"systemAbilityId"}, <<SaId, UserId>>,
       Only(<<Object("remote")>>))
LoadSystemAbilityWithUserId ==
  Call("LOAD_SYSTEM_ABILITY_WITH_USERID", {"systemAbilityId", "callback"},
       <<SaId, Object("callback"), UserId>>, Result)
SubscribeSystemAbilityWithUserId ==
  Call("SUBSCRIBE_SYSTEM_ABILITY_WITH_USERID", {"systemAbilityId", "listener"},
       <<SaId, Object("listener"), UserId>>, Result)
UnSubscribeSystemAbilityWithUserId ==
  Call("UNSUBSCRIBE_SYSTEM_ABILITY_WITH_USERID", {"systemAbilityId", "listener"},
       <<SaId, Object("listener"), UserId>>, Result)
SubscribeSystemProcessWithUserId ==
  Call("SUBSCRIBE_SYSTEM_PROCESS_WITH_USERID", {"listener"}, <<Object("listener"), UserId>>,
       Result)
UnSubscribeSystemProcessWithUserId ==
  Call("UNSUBSCRIBE_SYSTEM_PROCESS_WITH_USERID", {"listener"}, <<Object("listener"), UserId>>,
       Result)

SamgrCalls ==
  <<CheckSystemAbility, CheckSystemAbilityOnDevice, CheckSystemAbilityImmediately,
    AddOnDemandSystemAbilityInfo, RemoveSystemAbility, ListSystemAbilities,
    SubscribeSystemAbility, UnSubscribeSystemAbility, LoadSystemAbility,
    LoadSystemAbilityOnDevice, UnloadSystemAbility, CancelUnloadSystemAbility,
    UnloadAllIdleSystemAbility, UnloadProcess, GetLruIdleSystemAbilityProc,
    OnStartSystemAbilityFail, AddSystemAbility, AddSystemProcess, GetSystemProcessInfo,
    GetRunningSystemProcess, SubscribeSystemProcess, UnSubscribeSystemProcess,
    SubscribeLowMemSystemProcess, UnSubscribeLowMemSystemProcess, GetOnDemandReasonExtraData,
    GetOnDemandPolicy, GetOnDemandSystemAbilityIds, UpdateOnDemandPolicy, SendStrategy,
    GetExtensionSaIds, GetExtensionRunningSaList, GetRunningSaExtensionInfoList,
    GetCommonEventExtraDataIdlist, GetLocalAbilityManagerProxy, SetSamgrIpcPrior,
    OnUserStateChanged, GetSystemAbilityWithUserId, CheckSystemAbilityWithUserId,
    CheckSystemAbilityByUserId, GetSystemProcessInfoWithUserId,
    GetLocalAbilityManagerProxyWithUserId, LoadSystemAbilityWithUserId,
    SubscribeSystemAbilityWithUserId, UnSubscribeSystemAbilityWithUserId,
    SubscribeSystemProcessWithUserId, UnSubscribeSystemProcessWithUserId>>
=============================================================================
