---------------------------- MODULE MCTeamTasks ----------------------------
(* Instances of TeamTasks for TLC. *)
EXTENDS TeamTasks, TLC

CONSTANTS c1, c2

Perms == Permutations(Calls)
=============================================================================
