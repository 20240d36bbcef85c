-------------------------- MODULE MCAbilityLoading --------------------------
(***************************************************************************)
(* AbilityLoading for TLC: one process hosts all SAs, one process passes   *)
(* all callbacks.                                                          *)
(***************************************************************************)
EXTENDS AbilityLoading, TLC

MCProcOf == [s \in SAs |-> CHOOSE p \in Procs : TRUE]
MCCallerOf == [c \in Callbacks |-> CHOOSE p \in Pids : TRUE]
Symmetry == Permutations(SAs) \cup Permutations(Callbacks)
=============================================================================
