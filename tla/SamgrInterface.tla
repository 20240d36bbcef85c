--------------------------- MODULE SamgrInterface ---------------------------
(***************************************************************************)
(* One call over IPC, from the proxy's checks to the value its caller      *)
(* gets: the proxy marshals the request, IPC delivers it or not, the stub  *)
(* checks and reads it and calls the service, writes the answer, and the   *)
(* proxy reads it.  Every function of the samgr proxy, of the callback     *)
(* proxies and of the local ability manager proxy is one of the calls.     *)
(***************************************************************************)
EXTENDS SamgrCallbacks

CONSTANTS MaxList,  \* bound: elements in a list of a request or reply
          Rooms     \* bound: how many values fit in a parcel before it is full

VARIABLES op,       \* the call being made, an index into Calls, or 0
          phase,    \* how far it got
          data,     \* the request after its interface token
          seen,     \* what the stub read, when it called the service
          result,   \* the service's answer
          reply,    \* the reply parcel
          code,     \* what the stub returned to IPC
          outcome,  \* what the caller got from the proxy
          got       \* what the proxy read from the reply

vars == <<op, phase, data, seen, result, reply, code, outcome, got>>

Calls == SamgrCalls \o CallbackCalls \o LocalManagerCalls

HandlerFor(o) ==
  LET c == Calls[o].code
  IN IF o > Len(SamgrCalls) + Len(CallbackCalls) THEN LocalManagerHandler(Calls[o])
     ELSE IF o > Len(SamgrCalls) THEN CallbackHandlerOf[c] ELSE HandlerOf[c]

FieldNames(fields) == {fields[i][2] : i \in 1..Len(fields)}
ObjectNames(fields) == {fields[i][2] : i \in {j \in 1..Len(fields) : fields[j][1] = "object"}}
PermsOf(steps) ==
  {steps[i][2] : i \in {j \in 1..Len(steps) : steps[j][1] \in {"perm", "permif"}}}
AtMostOne(S) == {{}} \cup {{x} : x \in S}
HasList(fields) == \E i \in 1..Len(fields) : fields[i][1] \in {"list", "optional"}
Sizes(fields) == IF HasList(fields) THEN 0..MaxList ELSE {0}

Init ==
  /\ op = 0
  /\ phase = "idle"
  /\ data = <<>>
  /\ seen = Reader(<<>>)
  /\ result = "none"
  /\ reply = <<>>
  /\ code = "none"
  /\ outcome = "none"
  /\ got = Reader(<<>>)

(***************************************************************************)
(* The proxy: bad names the arguments its caller got wrong.  It refuses    *)
(* those it checks, and gives up when a write does not fit: the interface  *)
(* token takes the first place.  A null object cannot be written.          *)
(***************************************************************************)
Marshal(o, bad, n, room) ==
  LET c == Calls[o]
      values == Values(c.request, bad, n)
      fits == Len(values) < room /\ bad \cap (c.need \cup ObjectNames(c.request)) = {}
  IN /\ phase = "idle"
     /\ op' = o
     /\ phase' = IF fits THEN "sent" ELSE "done"
     /\ data' = IF fits THEN values ELSE <<>>
     /\ outcome' = IF ~fits THEN "failed" ELSE IF c.async THEN "ok" ELSE "none"
     /\ UNCHANGED <<seen, result, reply, code, got>>

\* Remote() is null or SendRequest fails before the stub runs.
SendFails ==
  /\ phase = "sent"
  /\ phase' = "done"
  /\ outcome' = "failed"
  /\ UNCHANGED <<op, data, seen, result, reply, code, got>>

(***************************************************************************)
(* One step of a handler on its reader r.                                  *)
(***************************************************************************)
Step(r, step, denied) ==
  CASE step[1] = "perm" ->
         [r EXCEPT !.ok = step[2] \notin denied, !.code = IF step[2] \in denied THEN "denied" ELSE @]
    [] step[1] = "permif" ->
         LET refused == step[2] \in denied /\ ReadValid(r.got, step[3])
         IN [r EXCEPT !.ok = ~refused, !.code = IF refused THEN "denied" ELSE @]
    [] step[1] = "valid" ->
         LET valid == ReadValid(r.got, step[2])
         IN [r EXCEPT !.ok = valid, !.code = IF valid THEN @ ELSE "failed"]
    [] OTHER ->
         LET read == ReadAll(r, <<step>>)
         IN [read EXCEPT !.code = IF read.ok THEN @ ELSE "failed"]

RunSteps(steps, denied, values) ==
  FoldLeft(LAMBDA r, step : IF r.ok THEN Step(r, step, denied) ELSE r,
           [ok |-> TRUE, rest |-> values, got |-> <<>>, code |-> "none"], steps)

\* OnRemoteRequest finds the handler; denied is a permission the caller lacks.
OnRemoteRequest(denied) ==
  LET r == RunSteps(HandlerFor(op).steps, denied, data)
  IN /\ phase = "sent"
     /\ phase' = IF r.ok THEN "served" ELSE "answered"
     /\ seen' = [ok |-> r.ok, rest |-> r.rest, got |-> r.got]
     /\ code' = r.code
     /\ UNCHANGED <<op, data, result, reply, outcome, got>>

Happens(when, res) == when = "always" \/ (when = "if ok" /\ res = "ok")

\* The service answers, and the handler writes the reply as far as it fits.
Serve(res, n, room) ==
  LET a == HandlerFor(op).answer
      head == IF Happens(a.written, res)
              THEN <<[kind |-> "int32", of |-> "result", val |-> IF res = "ok" THEN 0 ELSE 1]>>
              ELSE <<>>
      outs == IF Happens(a.more, res) THEN Values(a.outs, {}, n) ELSE <<>>
      fits == Len(head \o outs) <= room
  IN /\ phase = "served"
     /\ phase' = "answered"
     /\ result' = res
     /\ reply' = SubSeq(head \o outs, 1, IF fits THEN Len(head \o outs) ELSE room)
     /\ code' = IF ~fits THEN "failed" ELSE IF a.code = "ok" THEN "ok" ELSE res
     /\ UNCHANGED <<op, data, seen, outcome, got>>

\* Mutant: the proxy does not look at the result before it reads on.
UnmarshalSkipsResult ==
  LET c == Calls[op]
      head == ReadAll(Reader(reply), IF c.reply.head = "none" THEN <<>> ELSE <<Int32("result")>>)
      all == ReadAll(head, c.reply.outs)
  IN /\ phase = "answered"
     /\ phase' = "done"
     /\ outcome' = CASE c.async -> outcome
                     [] ~c.async /\ code # "ok" -> code
                     [] ~c.async /\ code = "ok" -> IF all.ok THEN "ok" ELSE "failed"
     /\ got' = IF c.async \/ code # "ok" THEN got ELSE all
     /\ UNCHANGED <<op, data, seen, result, reply, code>>

\* The proxy takes SendRequest's code, then the result, then the rest.
Unmarshal ==
  LET c == Calls[op]
      head == ReadAll(Reader(reply), IF c.reply.head = "none" THEN <<>> ELSE <<Int32("result")>>)
      good == head.ok /\ (c.reply.head # "none" => Last(head.got)[2].val = 0)
      all == IF good THEN ReadAll(head, c.reply.outs) ELSE head
  IN /\ phase = "answered"
     /\ phase' = "done"
     /\ outcome' = CASE c.async -> outcome
                     [] ~c.async /\ code # "ok" -> code
                     [] ~c.async /\ code = "ok" -> IF good /\ all.ok THEN "ok" ELSE "failed"
     /\ got' = IF c.async \/ code # "ok" THEN got ELSE all
     /\ UNCHANGED <<op, data, seen, result, reply, code>>

\* The caller goes on to its next call.
Finish ==
  /\ phase = "done"
  /\ op' = 0
  /\ phase' = "idle"
  /\ data' = <<>>
  /\ seen' = Reader(<<>>)
  /\ result' = "none"
  /\ reply' = <<>>
  /\ code' = "none"
  /\ outcome' = "none"
  /\ got' = Reader(<<>>)

Next ==
  \/ \E o \in 1..Len(Calls) :
       \E bad \in AtMostOne(FieldNames(Calls[o].request)), n \in Sizes(Calls[o].request),
          room \in Rooms : Marshal(o, bad, n, room)
  \/ SendFails
  \/ phase = "sent" /\ \E denied \in AtMostOne(PermsOf(HandlerFor(op).steps)) :
       OnRemoteRequest(denied)
  \/ phase = "served" /\ \E res \in {"ok", "failed"}, n \in Sizes(HandlerFor(op).answer.outs),
       room \in Rooms : Serve(res, n, room)
  \/ Unmarshal
  \/ Finish

Spec == Init /\ [][Next]_vars

-----------------------------------------------------------------------------
(***************************************************************************)
(* When a stub calls the service (SystemAbilityManagerStub's handlers and  *)
(* the callback stubs), every argument holds the value its proxy wrote     *)
(* from the same parameter, and nothing the proxy wrote is left unread.    *)
(***************************************************************************)
ArgumentsArrive ==
  phase = "served" => Faithful(seen.got) /\ seen.rest = <<>>

(***************************************************************************)
(* A synchronous proxy function that returns ERR_OK, or an object, did     *)
(* reach the service, the service said so, and every value it hands to its *)
(* caller is the one the stub wrote under that name, with no value of the  *)
(* reply left over.  So a failure of the service, of a permission check or *)
(* of a write into a full reply is never taken for success.                *)
(***************************************************************************)
SuccessIsTrue ==
  (phase = "done" /\ outcome = "ok" /\ ~Calls[op].async) =>
     result = "ok" /\ Faithful(got.got) /\ got.rest = <<>>

\* The service validates the id itself (base_system_ability_manager.cpp:335).
CheckedByService == {"GET_ONDEAMND_POLICY", "UPDATE_ONDEAMND_POLICY"}

(***************************************************************************)
(* The service never gets an id out of range, an empty name of a process   *)
(* or a local ability manager, or a user state it does not know: what the  *)
(* proxy of a call lets through, its stub refuses.                         *)
(***************************************************************************)
ServedIsValid ==
  (phase = "served" /\ Calls[op].code \notin CheckedByService) =>
     \A name \in {"systemAbilityId", "procName", "localAbilityManagerName", "userState"} :
        ReadValid(seen.got, name)
=============================================================================
