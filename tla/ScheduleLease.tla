---------------------------- MODULE ScheduleLease ----------------------------
(***************************************************************************)
(* What the scheduler promises about its schedules, without rows, locks,   *)
(* polls and tasks.  Each schedule has holders: claims by a worker, each   *)
(* with the time it was stamped with.  A schedule with a holder is not     *)
(* claimed again, a claim is never renewed or handed over, and only time   *)
(* breaks the promise: from the first claim that is held for Grace seconds *)
(* on, claims may coexist.                                                 *)
(***************************************************************************)
EXTENDS Naturals

CONSTANTS
    Workers,
    Schedules,
    Grace

VARIABLES
    holders,    \* the claims under way of each schedule
    clock,
    broken      \* has some claim been held for Grace seconds?

vars == <<holders, clock, broken>>

Init ==
    /\ holders = [s \in Schedules |-> {}]
    /\ clock = 0
    /\ broken = FALSE

(* A worker claims a schedule that nobody holds; the stamp may be old, as it  *)
(* is taken before the row is written.                                       *)
Acquire(s, claim) ==
    /\ broken \/ holders[s] = {}
    /\ holders' = [holders EXCEPT ![s] = @ \cup {claim}]
    /\ UNCHANGED clock

(* Claims end: executions are over, workers stop or die. *)
End ==
    /\ DOMAIN holders' = Schedules
    /\ \A s \in Schedules : holders'[s] \subseteq holders[s]
    /\ UNCHANGED clock

Tick ==
    /\ clock' = clock + 1
    /\ UNCHANGED holders

Expired == \E s \in Schedules : \E claim \in holders[s] : claim.at + Grace <= clock

Next ==
    /\ \/ \E s \in Schedules, claim \in [w : Workers, at : 0..clock] : Acquire(s, claim)
       \/ End
       \/ Tick
    /\ broken' = (broken \/ Expired')

Spec == Init /\ [][Next]_vars
=============================================================================
