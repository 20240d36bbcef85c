------------------------------ MODULE LoadWait ------------------------------
(***************************************************************************)
(* LoadSystemAbility with a timeout, as the client calls it: the request   *)
(* is sent with the callback's lock held, and the thread then waits on the *)
(* condition variable for the object a binder thread brings.               *)
(***************************************************************************)
EXTENDS Integers, Sequences

CONSTANTS Object, Null,
          MIN_TIMEOUT, MAX_TIMEOUT,
          MaxAnswers      \* bound: callbacks the manager sends for one request

VARIABLES pc,         \* the caller: "start", "call", "waiting", "woken", "done"
          timeout,    \* the clamped timeout
          elapsed,    \* seconds waited
          lock,       \* callbackLock_: "caller", "binder" or "free"
          loadproxy,  \* loadproxy_
          answers,    \* callbacks sent and not yet run
          binder,     \* the callback a binder thread is in, or Null
          sent,       \* callbacks sent
          result

vars == <<pc, timeout, elapsed, lock, loadproxy, answers, binder, sent, result>>

Timeouts == (MIN_TIMEOUT - 1)..(MAX_TIMEOUT + 1)    \* what a caller may pass, in seconds
Answer == {Object, Null}    \* OnLoadSystemAbilitySuccess, OnLoadSystemAbilityFail

Init ==
    /\ pc = "start" /\ timeout = 0 /\ elapsed = 0 /\ lock = "free" /\ loadproxy = Null
    /\ answers = <<>> /\ binder = "none" /\ sent = 0 /\ result = Null

Clamp(t) == IF t < MIN_TIMEOUT THEN MIN_TIMEOUT ELSE IF t > MAX_TIMEOUT THEN MAX_TIMEOUT ELSE t

\* LoadSystemAbility up to the request, with the lock held.
LoadSystemAbility(t) ==
    /\ pc = "start" /\ lock = "free"
    /\ pc' = "call" /\ lock' = "caller" /\ timeout' = Clamp(t)
    /\ UNCHANGED <<elapsed, loadproxy, answers, binder, sent, result>>

LoadRefused ==
    /\ pc = "call"
    /\ pc' = "done" /\ lock' = "free"
    /\ UNCHANGED <<timeout, elapsed, loadproxy, answers, binder, sent, result>>

\* The request reaches the manager, which may answer at once or later.
ManagerAnswers(a) ==
    /\ pc # "start" /\ sent < MaxAnswers
    /\ sent' = sent + 1 /\ answers' = Append(answers, a)
    /\ UNCHANGED <<pc, timeout, elapsed, lock, loadproxy, binder, result>>

\* wait_for looks at the predicate first, and after every notification and at the deadline.
Look(next) ==
    IF loadproxy # Null THEN pc' = "done" /\ result' = loadproxy ELSE pc' = next /\ UNCHANGED result

BeginWait ==
    /\ pc = "call"
    /\ Look("waiting") /\ lock' = "free"
    /\ UNCHANGED <<timeout, elapsed, loadproxy, answers, binder, sent>>

Wake ==
    /\ pc = "woken" /\ lock = "free"
    /\ Look(IF elapsed >= timeout THEN "done" ELSE "waiting")
    /\ UNCHANGED <<timeout, elapsed, lock, loadproxy, answers, binder, sent>>

SecondPasses ==
    /\ pc = "waiting" /\ elapsed < timeout
    /\ elapsed' = elapsed + 1
    /\ UNCHANGED <<pc, timeout, lock, loadproxy, answers, binder, sent, result>>

\* Mutant: the deadline is one second late and never comes.
DeadlineOffByOne ==
    /\ pc = "waiting" /\ elapsed > timeout
    /\ pc' = "woken"
    /\ UNCHANGED <<timeout, elapsed, lock, loadproxy, answers, binder, sent, result>>

Deadline ==
    /\ pc = "waiting" /\ elapsed = timeout
    /\ pc' = "woken"
    /\ UNCHANGED <<timeout, elapsed, lock, loadproxy, answers, binder, sent, result>>

\* OnLoadSystemAbilitySuccess and OnLoadSystemAbilityFail on a binder thread.
CallbackLocks ==
    /\ binder = "none" /\ lock = "free" /\ answers # <<>>
    /\ binder' = "in" /\ lock' = "binder"
    /\ UNCHANGED <<pc, timeout, elapsed, loadproxy, answers, sent, result>>

CallbackSets ==
    /\ binder = "in"
    /\ loadproxy' = Head(answers) /\ answers' = Tail(answers)
    /\ binder' = "none" /\ lock' = "free"
    /\ pc' = IF pc = "waiting" THEN "woken" ELSE pc
    /\ UNCHANGED <<timeout, elapsed, sent, result>>

Next ==
    \/ \E t \in Timeouts : LoadSystemAbility(t)
    \/ \E a \in Answer : ManagerAnswers(a)
    \/ LoadRefused \/ BeginWait \/ Wake \/ SecondPasses \/ Deadline \/ CallbackLocks \/ CallbackSets

Spec == Init /\ [][Next]_vars

\* The caller is never asleep on an object that has arrived: the predicate is read under the
\* lock the callbacks take, so a success that comes before, during or after the start of the
\* wait is seen without waiting for the deadline.
SuccessWakes == (pc = "waiting") => loadproxy = Null

\* The call gives up empty-handed only at its deadline, at most MAX_TIMEOUT seconds after it
\* began to wait, and with no success unrevoked: a failed load does not end it early.
GivesUpAtDeadline ==
    [][(pc = "woken" /\ pc' = "done" /\ result' = Null)
       => (loadproxy = Null /\ elapsed = timeout /\ timeout <= MAX_TIMEOUT)]_vars

\* Every call returns, whatever the manager sends.
LoadReturns == (pc = "call") ~> (pc = "done")
=============================================================================
