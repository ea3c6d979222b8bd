--------------------------- MODULE MCRedisTaskQueue ---------------------------
(***************************************************************************)
(* Instances of RedisTaskQueue for TLC.                                    *)
(***************************************************************************)
EXTENDS RedisTaskQueue, TLC

TwoTasks == 1 .. 2

\* The processes differ in nothing; the runs that use this check safety only.
ProcessSymmetry == Permutations(Processes)
=============================================================================
