--------------------------- MODULE MCRunnerProtocol ---------------------------
(* Instance of RunnerProtocol for TLC: two jobs of the same code, one of   *)
(* which queries the database, and one of other code.                      *)
EXTENDS RunnerProtocol, TLC

CONSTANTS j1, j2, j3, q1, k1, k2

Asks == q1 :> j1
Keys == (j1 :> k1) @@ (j2 :> k1) @@ (j3 :> k2)
=============================================================================
