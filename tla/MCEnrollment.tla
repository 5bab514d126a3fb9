---------------------------- MODULE MCEnrollment ----------------------------
(* TLC instances of Enrollment: a host and a peer that pins it. *)
EXTENDS Enrollment
CONSTANTS h, a, j1, j2, t1
Two == {h, a}
TwoPairs == {{h, a}}
TwoSeeds == [n \in Two |-> IF n = h THEN {} ELSE {h}]
=============================================================================
