------------------------------ MODULE MCDenoPool ------------------------------
(* Instances of DenoPool for TLC. Jobs are interchangeable: the           *)
(* specification names none of them. Runners are not: findIdleRunner       *)
(* prefers the first one.                                                  *)
EXTENDS DenoPool, TLC

JobSymmetry == Permutations(Jobs)
=============================================================================
