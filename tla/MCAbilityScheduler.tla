------------------------ MODULE MCAbilityScheduler ------------------------
(***************************************************************************)
(* AbilityScheduler for TLC.  Every SA lives in one process and every load *)
(* request comes from one caller; the configurations choose how many SAs   *)
(* and callbacks there are.                                                *)
(***************************************************************************)
EXTENDS AbilityScheduler

MCProcOf == [s \in SAs |-> CHOOSE p \in Procs : TRUE]
MCCallerOf == [cb \in Callbacks |-> CHOOSE pid \in Pids : TRUE]
=============================================================================
