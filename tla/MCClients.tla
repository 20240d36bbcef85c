----------------------------- MODULE MCClients -----------------------------
(***************************************************************************)
(* The client side for TLC: the cache of a process, and the calls that     *)
(* pass through a proxy and a stub.  They share no state, so the instance  *)
(* is the sum of theirs: part says which of them a behaviour is about, and *)
(* the other stays where it starts.                                        *)
(***************************************************************************)
EXTENDS SamgrCache, TLC

CONSTANTS MaxList, Rooms

VARIABLES part,
          op, phase, data, seen, result, reply, code, outcome, got      \* SamgrInterface

callVars == <<op, phase, data, seen, result, reply, code, outcome, got>>

Calls == INSTANCE SamgrInterface

ClientsInit == part \in {"cache", "calls"} /\ Init /\ Calls!Init

ClientsNext ==
    \/ part = "cache" /\ Next /\ UNCHANGED <<part, callVars>>
    \/ part = "calls" /\ Calls!Next /\ UNCHANGED <<part, vars>>

ClientsSpec == ClientsInit /\ [][ClientsNext]_<<part, vars, callVars>>

\* The threads of the client are interchangeable.
Symmetry == Permutations(Threads)

-----------------------------------------------------------------------------
(* The properties of the calls; each is stated, with the code it is about, *)
(* in SamgrInterface.                                                      *)

\* Every argument a stub hands to the service is the one its proxy was given, and never an id
\* out of range, an empty name or an unknown user state.
ArgumentsArrive == Calls!ArgumentsArrive /\ Calls!ServedIsValid

\* A proxy function that reports success did reach the service, which succeeded, and returns
\* what the stub wrote.
SuccessIsTrue == Calls!SuccessIsTrue
=============================================================================
