---------------------------- MODULE MCRunEvents ----------------------------
(* Instances of RunEvents for TLC. *)
EXTENDS RunEvents

CONSTANTS c1, c2
=============================================================================
