---------------------------- MODULE MCScheduler ----------------------------
(* Instances of Scheduler for TLC. *)
EXTENDS Scheduler, TLC

CONSTANTS w1, w2, s1, s2, t1, t2, t3, fast, slow, broken

MCPeriod == [c \in Crons |-> IF c = slow THEN 2 ELSE 1]

Perms == Permutations(Workers) \cup Permutations(Tasks)
=============================================================================
