---------------------------- MODULE MCApprovals ----------------------------
(* Instances of Approvals for TLC. *)
EXTENDS Approvals

CONSTANTS p0, p1, t1, t2

(* A call to be confirmed, and one for user input or execution elsewhere. *)
MCKinds == {[t \in Tools |-> IF t = t1 THEN "confirm" ELSE other] : other \in {"external", "input"}}
=============================================================================
