-------------------------- MODULE MCConnectionCache --------------------------
(* Instance of ConnectionCache for TLC: queries and updates are alike.     *)
EXTENDS ConnectionCache, TLC

CONSTANTS q1, q2, q3, u1, u2

Symmetry == Permutations({q1, q2, q3}) \cup Permutations({u1, u2})
=============================================================================
