---------------------------- MODULE MCLoadStates ----------------------------
(***************************************************************************)
(* LoadStates for TLC: one process hosts all SAs, one process passes all   *)
(* callbacks.                                                              *)
(***************************************************************************)
EXTENDS LoadStates

MCProcOf == [s \in SAs |-> CHOOSE p \in Procs : TRUE]
MCCallerOf == [c \in Callbacks |-> CHOOSE p \in Pids : TRUE]
=============================================================================
