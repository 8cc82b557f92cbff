---------------------------- MODULE MCJobLifecycle ----------------------------
(* Instances of JobLifecycle for TLC: three identical requests for one job *)
(* and one with another request hash; two requests for one job and one for *)
(* another; and three identical requests.                                  *)
EXTENDS JobLifecycle, TLC

CONSTANTS q1, q2, q3, q4, a, b, x, y

OneJob == [q \in Requests |-> a]
TwoJobs == [q \in Requests |-> IF q = q3 THEN b ELSE a]
OneHash == [q \in Requests |-> x]
OddHash == [q \in Requests |-> IF q = q4 THEN y ELSE x]

SameRequests == Permutations({q1, q2, q3})
=============================================================================
